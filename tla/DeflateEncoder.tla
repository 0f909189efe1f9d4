--------------------------- MODULE DeflateEncoder ---------------------------
(***************************************************************************)
(* The encoder half of the DEFLATE family (codec_deflate.c): deflate-raw,  *)
(* zlib and gzip, driven by the loops of EncodeLoop.  The codec writes the *)
(* wrapper itself and leaves the body to miniz.  Each action is one turn   *)
(* of deflate_process's loop.                                              *)
(***************************************************************************)
EXTENDS EncodeLoop

CONSTANT ISizeMod   \* 2^32: gzip stores the length modulo this

ASSUME ISizeModAssumption == ISizeMod \in Nat \ {0}

DeflateFamily == {"raw", "zlib", "gzip"}

IsDeflate == job.codec \in DeflateFamily

(***************************************************************************)
(* miniz.  tdefl bakes the level in when it is initialised.  A sync flush  *)
(* closes the block and adds an empty stored block, whether or not there   *)
(* was anything to close; only waiting output keeps it from doing so.      *)
(***************************************************************************)
Sync == <<"sync", 0, 0>>
LastBlock == <<"last", 0, 0>>

MzFresh(lv) == [live |-> TRUE, level |-> lv, lead |-> <<>>, held |-> <<>>,
                pend |-> <<>>, finishing |-> FALSE]

\* mz_deflateEnd() and the memset() behind it.
MzDead == [MzFresh(0) EXCEPT !.live = FALSE]

\* mz_deflate(): waiting output goes first, and alone when it fills the
\* window.
MzDeflate(mz, bytes, room, how) ==
    LET Settled(d) ==
            IF d.used < Len(bytes) \/ d.c.pend # <<>> THEN d
            ELSE IF how = ZU_FINISH /\ ~mz.finishing
              THEN Deliver([d EXCEPT !.c = [CloseBlock(d.c, <<LastBlock>>) EXCEPT
                                              !.finishing = TRUE]], room)
            ELSE IF how = ZU_FLUSH /\ (mz.pend = <<>> \/ bytes # <<>>)
              THEN Deliver([d EXCEPT !.c = CloseBlock(d.c, <<Sync>>)], room)
            ELSE d
    IN  IF mz.pend # <<>> /\ Len(mz.pend) >= room
          THEN Deliver(Started(mz), room)
          ELSE Only({Settled(d) : d \in {Pump(mz, bytes, room)}})

\* MZ_STREAM_END.
MzEnded(d) == d.c.finishing /\ d.c.pend = <<>>

----------------------------------------------------------------------------
\* zu_int_zlib_header's FLEVEL.
FLevel(lv) == IF lv <= 1 THEN 0 ELSE IF lv <= 5 THEN 1 ELSE IF lv = 6 THEN 2 ELSE 3

\* zlib writes CMF and FLG, gzip ten constant bytes (three here).
HeaderBytes(lv) ==
    CASE job.codec = "raw"  -> <<>>
      [] job.codec = "zlib" -> << <<"cmf", 0, 0>>, <<"flg", FLevel(lv), 0>> >>
      [] job.codec = "gzip" -> [i \in 1 .. 3 |-> <<"gz", i, 0>>]

\* Adler-32, or CRC-32 and ISIZE.
TrailerBytes(sum, size) ==
    CASE job.codec = "raw"  -> <<>>
      [] job.codec = "zlib" -> << <<"adler", sum, 0>> >>
      [] job.codec = "gzip" -> << <<"crc", sum, 0>>, <<"isize", size % ISizeMod, 0>> >>

StartState == IF job.codec = "raw" THEN "BODY" ELSE "HEADER"

\* A stream at its beginning, over the miniz context mz.
DeflateStart(lv, mz) ==
    [state |-> StartState, level |-> lv, hdr |-> HeaderBytes(lv), hdr_pos |-> 0,
     tail |-> <<>>, tail_pos |-> 0, checksum |-> 0, uncompressed |-> 0, mz |-> mz]

\* zu_int_deflate_new.
DeflateNew ==
    LET lv == LevelAsked(job.level, CodecTable[job.codec].level_default)
    IN  IsDeflate /\ Open(DeflateStart(lv, MzFresh(lv)))

\* Mutant: a new level is written to the header but not given to miniz.
DeflateResetHeaderOnly(lv) ==
    LET want == LevelAsked(lv, enc.level)
    IN  {<<ZU_OK, DeflateStart(want, MzFresh(enc.mz.level))>>}

\* Mutant: what mz_deflateReset() answers is not looked at.
DeflateResetUnchecked(lv) ==
    LET want == LevelAsked(lv, enc.level)
    IN  IF want # enc.level
          THEN {<<ZU_OK, DeflateStart(want, MzFresh(want))>>,
                <<ZU_ERR_MEMORY, [enc EXCEPT !.mz = MzDead]>>}
        ELSE {<<ZU_OK, DeflateStart(want, IF enc.mz.live THEN MzFresh(want) ELSE enc.mz)>>}

\* zu_int_deflate_reset: another level takes a new miniz context, which may
\* not be had; the old one is gone by then, and what the same level would
\* reset is nothing.
DeflateReset(lv) ==
    LET want == LevelAsked(lv, enc.level)
    IN  IF want # enc.level
          THEN {<<ZU_OK, DeflateStart(want, MzFresh(want))>>,
                <<ZU_ERR_MEMORY, [enc EXCEPT !.mz = MzDead]>>}
        ELSE IF enc.mz.live
          THEN {<<ZU_OK, DeflateStart(want, MzFresh(enc.mz.level))>>}
          ELSE {<<ZU_ERR_INVALID_DATA, enc>>}

DeflateResets == IsDeflate /\ ResetByCaller([lv \in ResetLevels |-> DeflateReset(lv)])

----------------------------------------------------------------------------
DeflateIn(state) == Asked /\ IsDeflate /\ enc.state = state

\* The encoder half of ST_HEADER.
EncodeHeader ==
    /\ DeflateIn("HEADER")
    /\ IF enc.hdr_pos = Len(enc.hdr)
         THEN Continue(pos, out, [enc EXCEPT !.state = "BODY"])
       ELSE IF AvailOut = 0
         THEN Return(ZU_NEED_OUTPUT, pos, out, enc)
         ELSE Continue(pos, Append(out, enc.hdr[enc.hdr_pos + 1]),
                       [enc EXCEPT !.hdr_pos = @ + 1])

\* miniz did not move: decide why.
BodyStuck(left) ==
    IF left > 0 THEN ZU_NEED_OUTPUT
    ELSE IF flush = ZU_FINISH THEN ZU_ERR_INTERNAL
    ELSE ZU_NEED_INPUT

\* The codec's state once miniz has taken d.used bytes.
AfterMiniz(d) ==
    LET summed == IF job.codec = "raw" THEN <<>> ELSE Take(Offered, d.used)
    IN  [enc EXCEPT !.mz = d.c,
                    !.checksum = ChecksumUpdate(@, summed),
                    !.uncompressed = @ + Len(summed)]

AfterEnd(e) ==
    IF job.codec = "raw" THEN [e EXCEPT !.state = "DONE"]
    ELSE [e EXCEPT !.state = "TRAILER", !.tail_pos = 0,
                   !.tail = TrailerBytes(e.checksum, e.uncompressed)]

\* The encoder half of ST_BODY.  A context that could not be rebuilt is a
\* stream error to miniz.
EncodeBody ==
    /\ DeflateIn("BODY")
    /\ IF AvailOut = 0 THEN Return(ZU_NEED_OUTPUT, pos, out, enc)
       ELSE IF ~enc.mz.live THEN Return(ZU_ERR_INVALID_DATA, pos, out, enc)
       ELSE \E d \in {MzDeflate(enc.mz, Offered, AvailOut, flush)} :
              LET p == pos + d.used
                  o == out \o d.bytes
                  e == AfterMiniz(d)
              IN  IF MzEnded(d) /\ job.codec = "raw"
                    THEN Return(ZU_STREAM_END, p, o, AfterEnd(e))
                  ELSE IF MzEnded(d)
                    THEN Continue(p, o, AfterEnd(e))
                  ELSE IF d.used = 0 /\ d.bytes = <<>>
                    THEN Return(BodyStuck(fed - p), p, o, e)
                  ELSE Continue(p, o, e)

\* The encoder half of ST_TRAILER.
EncodeTrailer ==
    /\ DeflateIn("TRAILER")
    /\ IF enc.tail_pos = Len(enc.tail)
         THEN Return(ZU_STREAM_END, pos, out, [enc EXCEPT !.state = "DONE"])
       ELSE IF AvailOut = 0
         THEN Return(ZU_NEED_OUTPUT, pos, out, enc)
         ELSE Continue(pos, Append(out, enc.tail[enc.tail_pos + 1]),
                       [enc EXCEPT !.tail_pos = @ + 1])

DeflateStep == DeflateNew \/ DeflateResets \/ EncodeHeader \/ EncodeBody \/ EncodeTrailer

----------------------------------------------------------------------------
\* What the stream must be: the wrapper around the input at one level.
DeflateStream(n, lv) ==
    LET input == [i \in 1 .. n |-> i]
    IN  HeaderBytes(lv) \o Compressed(input, lv) \o <<LastBlock>>
          \o TrailerBytes(ChecksumUpdate(0, input), n)
=============================================================================
