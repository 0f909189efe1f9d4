---------------------------- MODULE ZstdEncoder ----------------------------
(***************************************************************************)
(* The encoder of zstd (codec_zstd.c), driven by the loops of EncodeLoop.  *)
(* Each action is one turn of zstd_encoder_process's loop.                 *)
(***************************************************************************)
EXTENDS EncodeLoop

IsZstd == job.codec = "zstd"

(***************************************************************************)
(* libzstd.  `param` is the level set on the context, read when a frame    *)
(* begins.  A frame begins with the first call, which pledges its size     *)
(* when it is also the last; the header comes out with the first block,    *)
(* and a complete frame leaves the context ready for another.              *)
(***************************************************************************)
Unpledged == -1

\* ZSTD_CCtx_reset(ZSTD_reset_session_only).
Session(param) ==
    [param |-> param, begun |-> FALSE, level |-> param, size |-> Unpledged,
     total |-> 0, sum |-> 0, lead |-> <<>>, held |-> <<>>, pend |-> <<>>,
     ending |-> FALSE]

Begun(c, size) ==
    IF c.begun THEN c
    ELSE [Session(c.param) EXCEPT !.begun = TRUE, !.size = size,
                                  !.lead = << <<"frame", size, 0>> >>]

\* The block in progress closed for a flush, or the frame for an end.
Closed(c, how) ==
    CASE how = ZU_FLUSH /\ c.held # <<>> -> CloseBlock(c, <<>>)
      [] how = ZU_FINISH /\ ~c.ending ->
           [CloseBlock(c, << <<"endmark", 0, 0>>, <<"xxh", c.sum, 0>> >>) EXCEPT
              !.ending = TRUE]
      [] OTHER -> c

\* Whether a frame ends with another size than it pledged.
PledgeBroken(c) == c.ending /\ c.size # Unpledged /\ c.size # c.total

\* ZSTD_compressStream2().
CompressStream2(c, bytes, room, how) ==
    LET first == Begun(c, IF how = ZU_FINISH THEN Len(bytes) ELSE Unpledged)
        Counted(d) == [d EXCEPT !.c.total = @ + d.used,
                                !.c.sum = ChecksumUpdate(@, Take(bytes, d.used))]
        Settled(d) == IF d.used = Len(bytes) /\ d.c.pend = <<>>
                        THEN Deliver([d EXCEPT !.c = Closed(d.c, how)], room) ELSE d
        Reused(d)  == IF d.c.ending /\ d.c.pend = <<>> /\ ~PledgeBroken(d.c)
                        THEN [d EXCEPT !.c = Session(c.param)] ELSE d
    IN  Only({Reused(d) : d \in {Settled(e) : e \in {Counted(Pump(first, bytes, room))}}})

----------------------------------------------------------------------------
ZstdStart(lv, c) == [level |-> lv, done |-> FALSE, cctx |-> c]

\* zu_int_zstd_level: what the context is told is also remembered.
ZstdLevel(lv) == LevelAsked(lv, CodecTable["zstd"].level_default)

\* zstd_encoder_new.
ZstdNew == IsZstd /\ Open(ZstdStart(ZstdLevel(job.level), Session(ZstdLevel(job.level))))

\* zstd_encoder_reset: the session only; the level when another is asked for.
ZstdReset(lv) ==
    LET want == LevelAsked(lv, enc.level)
    IN  {<<ZU_OK, ZstdStart(want, Session(want))>>}

ZstdResets == IsZstd /\ ResetByCaller([lv \in ResetLevels |-> ZstdReset(lv)])

\* Mutant: taking the input is taken for having flushed it.
ZstdStatusSpent(spent, waiting, moved) ==
    IF flush = ZU_FINISH /\ waiting = 0 THEN ZU_STREAM_END
    ELSE IF spent /\ flush # ZU_FINISH THEN ZU_NEED_INPUT
    ELSE IF moved THEN Running
    ELSE IF AvailOut = 0 THEN ZU_NEED_OUTPUT
    ELSE ZU_ERR_INTERNAL

\* Why the loop stops, if it does: `waiting` is what libzstd still holds.
ZstdStatus(spent, waiting, moved) ==
    IF flush = ZU_FINISH /\ waiting = 0 THEN ZU_STREAM_END
    ELSE IF spent /\ (flush = ZU_RUN \/ waiting = 0) THEN ZU_NEED_INPUT
    ELSE IF moved THEN Running
    ELSE IF AvailOut = 0 THEN ZU_NEED_OUTPUT
    ELSE ZU_ERR_INTERNAL

\* One turn of zstd_encoder_process; the context allocates its buffers when
\* a frame begins.
ZstdTurn ==
    /\ Asked /\ IsZstd
    /\ IF enc.done THEN Return(ZU_STREAM_END, pos, out, enc) ELSE
       \E d \in {CompressStream2(enc.cctx, Offered, AvailOut, flush)} :
         LET p  == pos + d.used
             o  == out \o d.bytes
             st == ZstdStatus(p = fed, Len(d.c.pend), d.used > 0 \/ d.bytes # <<>>)
             e  == [enc EXCEPT !.cctx = d.c, !.done = st = ZU_STREAM_END]
         IN  IF PledgeBroken(d.c) THEN Return(ZU_ERR_INTERNAL, pos, out, enc)
             ELSE IF st = Running THEN Continue(p, o, e)
             ELSE Return(st, p, o, e)

ZstdNoMemory ==
    /\ Asked /\ IsZstd /\ ~enc.done /\ ~enc.cctx.begun
    /\ Return(ZU_ERR_MEMORY, pos, out, enc)

ZstdStep == ZstdNew \/ ZstdResets \/ ZstdTurn \/ ZstdNoMemory

----------------------------------------------------------------------------
\* What the stream must be; the frame may declare its size.
ZstdStreams(n, lv) ==
    LET input == [i \in 1 .. n |-> i]
    IN  {<< <<"frame", size, 0>> >> \o Compressed(input, lv)
           \o << <<"endmark", 0, 0>>, <<"xxh", ChecksumUpdate(0, input), 0>> >>
             : size \in {Unpledged, n}}
=============================================================================
