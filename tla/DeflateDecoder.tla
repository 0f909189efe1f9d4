--------------------------- MODULE DeflateDecoder ---------------------------
(***************************************************************************)
(* The decoding half of the DEFLATE family (codec_deflate.c): one engine   *)
(* for deflate-raw, zlib and gzip, driven by the two callers of DecodeLoop *)
(* and fed gzip headers as GzipHeader parses them.  Each action is one     *)
(* turn of deflate_process's loop.                                         *)
(*                                                                         *)
(* Tokens are <<kind, value>>:                                             *)
(*   byte v           a byte of a gzip header, its magic included          *)
(*   cmf, flg v       the two bytes of a zlib header: 0 sound, 1 not;      *)
(*                    flg 2 announces a preset dictionary                  *)
(*   lit n            compressed bytes that decode to n bytes              *)
(*   end n            the same, and they complete the DEFLATE body         *)
(*   sum n            a checksum over n bytes (a checksum is abstracted to *)
(*                    how many bytes it covers)                            *)
(*   isize n          the gzip length field                                *)
(* In a DEFLATE body any other kind is corrupt data.                       *)
(***************************************************************************)
EXTENDS DecodeLoop, GzipHeader

CONSTANT ISizeMod   \* 2^32: gzip stores the length modulo this

ASSUME ISizeModAssumption == ISizeMod \in Nat \ {0}

\* The three codecs of the family, one vtable each.
ASSUME WrapAssumption == \A j \in Jobs : j.wrap \in {"raw", "zlib", "gzip"}

VARIABLE s          \* deflate_state

vars == <<loopVars, s>>

magic1 == <<"byte", 31>>
magic2 == <<"byte", 139>>

----------------------------------------------------------------------------
(***************************************************************************)
(* miniz's inflater, as far as deflate_process can see it.  `pend` is what *)
(* tinfl decoded into the dictionary and mz_inflate has not copied out;    *)
(* the dictionary (32 KiB) is larger than any output here.                 *)
(***************************************************************************)
FreshInflater ==
    [pend |-> <<>>, done |-> FALSE, failed |-> FALSE, flushed |-> FALSE, first |-> TRUE]

\* tinfl_decompress over the next n tokens: up to the end of the body, the
\* first corrupt token, or the end of what it was given.
Tinfl(n, finish) ==
    LET stops == {k \in 1 .. n : Ahead(k)[1] # "lit"}
        stop  == CHOOSE k \in stops : \A j \in stops : k <= j
        ends  == stops # {} /\ Ahead(stop)[1] = "end"
        used  == IF stops = {} THEN n ELSE stop
        good  == IF stops = {} \/ ends THEN used ELSE used - 1
    IN  [used   |-> used,
         bytes  |-> FlattenSeq([k \in 1 .. good |-> BytesOf(pos + k)]),
         status |-> IF ends THEN "DONE"
                    ELSE IF stops # {} \/ finish THEN "FAILED"
                    ELSE "NEEDS_MORE_INPUT"]

\* Copies what fits of `bytes` to the caller; the rest stays pending.
Deliver(m, bytes, room) ==
    LET n == LeastOf(Len(bytes), room)
    IN  [mz |-> [m EXCEPT !.pend = SubSeq(bytes, n + 1, Len(bytes))],
         bytes |-> SubSeq(bytes, 1, n)]

Inflated(d, used, code) ==
    [mz |-> d.mz, bytes |-> d.bytes, used |-> used, code |-> code]

\* MZ_FINISH on the first call: miniz decodes straight into the caller's
\* window, and a stream that does not fit there has failed for good.
SingleShot(m, n, room) ==
    LET t    == Tinfl(n, TRUE)
        fits == Len(t.bytes) <= room
        over == {k \in 1 .. t.used :
                   room < Len(FlattenSeq([j \in 1 .. k |-> BytesOf(pos + j)]))}
    IN  Inflated([mz    |-> [m EXCEPT !.done   = fits /\ t.status = "DONE",
                                      !.failed = ~fits \/ t.status = "FAILED"],
                  bytes |-> SubSeq(t.bytes, 1, LeastOf(Len(t.bytes), room))],
                 IF fits THEN t.used ELSE CHOOSE k \in over : \A j \in over : k <= j,
                 IF ~fits THEN "BUF_ERROR"
                 ELSE IF t.status = "DONE" THEN "STREAM_END" ELSE "DATA_ERROR")

MzInflate(m, n, room, fl) ==
    LET m0 == [m EXCEPT !.first = FALSE]
        m1 == [m EXCEPT !.first = FALSE, !.flushed = @ \/ fl = "FINISH"]
        t  == Tinfl(n, fl = "FINISH")
        m2 == [m1 EXCEPT !.done = t.status = "DONE", !.failed = t.status = "FAILED"]
        d  == Deliver(m2, t.bytes, room)
        clear == d.mz.pend = <<>>
    IN  IF m.failed
          THEN Inflated(Deliver(m0, m.pend, 0), 0, "DATA_ERROR")
        ELSE IF m.flushed /\ fl # "FINISH"
          THEN Inflated(Deliver(m0, m.pend, 0), 0, "STREAM_ERROR")
        ELSE IF m.first /\ fl = "FINISH"
          THEN SingleShot(m1, n, room)
        ELSE IF m.pend # <<>>
          THEN LET e == Deliver(m1, m.pend, room)
               IN  Inflated(e, 0, IF m.done /\ e.mz.pend = <<>>
                                    THEN "STREAM_END" ELSE "OK")
        ELSE Inflated(d, t.used,
               CASE t.status = "FAILED" -> "DATA_ERROR"
                 [] t.status = "NEEDS_MORE_INPUT" -> IF n = 0 THEN "BUF_ERROR" ELSE "OK"
                 [] t.status = "DONE" -> IF clear THEN "STREAM_END"
                                         ELSE IF fl = "FINISH" THEN "BUF_ERROR"
                                         ELSE "OK")

----------------------------------------------------------------------------
(***************************************************************************)
(* deflate_state.  hdr counts the zlib header bytes taken, gz is the gzip  *)
(* header parser; tail holds the trailer read so far; sum stands for both  *)
(* the running checksum and the count of uncompressed bytes; probe is      *)
(* probe_magic.                                                            *)
(***************************************************************************)
NewState(wrap) ==
    [state |-> IF wrap = "raw" THEN "BODY" ELSE "HEADER",
     hdr |-> 0, gz |-> NewHeader, tail |-> <<>>, sum |-> 0, probe |-> FALSE,
     called |-> FALSE, mz |-> FreshInflater]

TailLen == IF job.wrap = "gzip" THEN 2 ELSE 1

InState(st) == pc = "codec" /\ s.state = st

\* Input ran out inside a header or trailer.
Starved == IF flush = ZU_FINISH THEN ZU_ERR_TRUNCATED ELSE ZU_NEED_INPUT

Init == LoopInit /\ s = NewState(job.wrap)

\* A token as the header parser reads it.
ByteOf(t) == IF t[1] = "byte" THEN t[2] ELSE 1

HeaderStarved ==
    /\ InState("HEADER")
    /\ job.wrap = "zlib" => s.hdr < 2
    /\ AvailIn = 0
    /\ Return(Starved, pos, out)
    /\ UNCHANGED s

GzipHeaderByte ==
    /\ InState("HEADER") /\ job.wrap = "gzip"
    /\ AvailIn > 0
    /\ \E r \in {HeaderFeed(s.gz, ByteOf(Ahead(1)))} :
         IF r.st # ZU_OK
           THEN Return(r.st, pos + 1, out) /\ s' = [s EXCEPT !.gz = r.h]
           ELSE /\ Continue(pos + 1, out)
                /\ s' = [s EXCEPT !.gz = r.h,
                                  !.state = IF r.h.state = "DONE" THEN "BODY" ELSE @]

ZlibHeaderByte ==
    /\ InState("HEADER") /\ job.wrap = "zlib" /\ s.hdr < 2
    /\ AvailIn > 0
    /\ Continue(pos + 1, out)
    /\ s' = [s EXCEPT !.hdr = @ + 1]

\* zu_int_zlib_check_header.  A preset dictionary is well-formed, only not
\* something this decoder can serve.
ZlibCheckHeader(cmf, flg) ==
    IF cmf # <<"cmf", 0>> \/ flg \notin {<<"flg", 0>>, <<"flg", 2>>}
      THEN ZU_ERR_INVALID_DATA
    ELSE IF flg = <<"flg", 2>> THEN ZU_ERR_UNSUPPORTED
    ELSE ZU_OK

\* Both bytes are in s->hdr: they are the two tokens consumed last.
ZlibHeaderCheck ==
    /\ InState("HEADER") /\ job.wrap = "zlib" /\ s.hdr = 2
    /\ LET hs == ZlibCheckHeader(job.input[pos - 1], job.input[pos])
       IN  IF hs = ZU_OK
             THEN Continue(pos, out) /\ s' = [s EXCEPT !.state = "BODY"]
             ELSE Return(hs, pos, out) /\ UNCHANGED s

----------------------------------------------------------------------------
\* miniz moved nothing: say why, so that the driver refills, drains or
\* gives up.
Stall ==
    IF AvailOut = 0 THEN ZU_NEED_OUTPUT
    ELSE IF AvailIn > 0 THEN ZU_NEED_OUTPUT
    ELSE IF flush = ZU_FINISH THEN ZU_ERR_INVALID_DATA
    ELSE ZU_NEED_INPUT

\* Mutant: MZ_FINISH is passed on at once.
MzFlushAtOnce == IF flush # ZU_FINISH THEN "NO_FLUSH" ELSE "FINISH"

\* The first call of a member never passes MZ_FINISH on: mz_inflate would
\* take it as a promise that the output fits.
MzFlush ==
    IF flush # ZU_FINISH THEN "NO_FLUSH"
    ELSE IF s.called THEN "FINISH" ELSE "SYNC_FLUSH"

Body ==
    /\ InState("BODY")
    /\ LET r  == MzInflate(s.mz, AvailIn, AvailOut, MzFlush)
           p  == pos + r.used
           o  == out \o r.bytes
           s1 == [s EXCEPT !.mz = r.mz, !.called = TRUE,
                           !.sum = IF job.wrap = "raw" THEN @ ELSE @ + Len(r.bytes)]
       IN  CASE r.code = "STREAM_END" /\ job.wrap = "raw" ->
                  Return(ZU_STREAM_END, p, o) /\ s' = [s1 EXCEPT !.state = "DONE"]
             [] r.code = "STREAM_END" /\ job.wrap # "raw" ->
                  Continue(p, o) /\ s' = [s1 EXCEPT !.state = "TRAILER", !.tail = <<>>]
             [] r.code \in {"DATA_ERROR", "STREAM_ERROR"} ->
                  Return(ZU_ERR_INVALID_DATA, p, o) /\ s' = s1
             [] r.code \in {"OK", "BUF_ERROR"} ->
                  /\ s' = s1
                  /\ IF r.used = 0 /\ r.bytes = <<>>
                       THEN Return(Stall, p, o) ELSE Continue(p, o)

----------------------------------------------------------------------------
TrailerStarved ==
    /\ InState("TRAILER") /\ Len(s.tail) < TailLen
    /\ AvailIn = 0
    /\ Return(Starved, pos, out)
    /\ UNCHANGED s

TrailerByte ==
    /\ InState("TRAILER") /\ Len(s.tail) < TailLen
    /\ AvailIn > 0
    /\ Continue(pos + 1, out)
    /\ s' = [s EXCEPT !.tail = Append(@, Ahead(1))]

ExpectedTail ==
    IF job.wrap = "gzip"
      THEN << <<"sum", s.sum>>, <<"isize", s.sum % ISizeMod>> >>
      ELSE << <<"sum", s.sum>> >>

TrailerCheck ==
    /\ InState("TRAILER") /\ Len(s.tail) = TailLen
    /\ IF s.tail = ExpectedTail
         THEN Continue(pos, out) /\ s' = [s EXCEPT !.state = "MEMBER_END"]
         ELSE Return(ZU_ERR_CHECKSUM, pos, out) /\ UNCHANGED s

----------------------------------------------------------------------------
(***************************************************************************)
(* ST_MEMBER_END: is there another gzip member?  Only two bytes can tell.  *)
(* They are not consumed when both are visible; when only the first is,    *)
(* it is consumed and remembered, or the loop would never refill.          *)
(***************************************************************************)
\* Mutant: members are joined whether or not the caller asked.
ConcatAlways == job.wrap = "gzip"

Concat == job.wrap = "gzip" /\ job.opts.concat

Finish(st) == Return(st, pos, out) /\ s' = [s EXCEPT !.state = "DONE", !.probe = FALSE]

\* Mutant: the held magic byte is forgotten.
NextMemberForgets == NewState("gzip")

\* zu_int_deflate_reset between members; a held magic byte goes to the
\* header parser.
NextMember ==
    [NewState("gzip") EXCEPT !.gz = IF s.probe THEN HeaderFeed(NewHeader, 31).h ELSE @]

MemberEndNoInput ==
    /\ InState("MEMBER_END")
    /\ ~Concat \/ AvailIn = 0
    /\ IF Concat /\ flush # ZU_FINISH
         THEN Return(ZU_NEED_INPUT, pos, out) /\ UNCHANGED s
         ELSE Finish(IF s.probe /\ job.opts.reject THEN ZU_ERR_TRAILING
                                                   ELSE ZU_STREAM_END)

\* Mutant: a lone first magic byte is left in the buffer.
MemberProbeUnconsumed ==
    /\ InState("MEMBER_END") /\ Concat /\ AvailIn > 0
    /\ ~s.probe
    /\ CASE Ahead(1) # magic1 -> Finish(ZU_STREAM_END)
         [] Ahead(1) = magic1 /\ AvailIn >= 2 ->
              IF Ahead(2) = magic2
                THEN Continue(pos, out) /\ s' = NextMember
                ELSE Finish(ZU_STREAM_END)
         [] Ahead(1) = magic1 /\ AvailIn = 1 /\ flush = ZU_FINISH ->
              Finish(ZU_STREAM_END)
         [] Ahead(1) = magic1 /\ AvailIn = 1 /\ flush # ZU_FINISH ->
              Return(ZU_NEED_INPUT, pos, out) /\ UNCHANGED s

MemberProbe ==
    /\ InState("MEMBER_END") /\ Concat /\ AvailIn > 0
    /\ ~s.probe
    /\ CASE Ahead(1) # magic1 -> Finish(ZU_STREAM_END)
         [] Ahead(1) = magic1 /\ AvailIn >= 2 ->
              IF Ahead(2) = magic2
                THEN Continue(pos, out) /\ s' = NextMember
                ELSE Finish(ZU_STREAM_END)
         [] Ahead(1) = magic1 /\ AvailIn = 1 /\ flush = ZU_FINISH ->
              Finish(ZU_STREAM_END)
         [] Ahead(1) = magic1 /\ AvailIn = 1 /\ flush # ZU_FINISH ->
              Return(ZU_NEED_INPUT, pos + 1, out) /\ s' = [s EXCEPT !.probe = TRUE]

MemberProbeHeld ==
    /\ InState("MEMBER_END") /\ Concat /\ AvailIn > 0
    /\ s.probe
    /\ IF Ahead(1) = magic2
         THEN Continue(pos, out) /\ s' = NextMember
         ELSE Finish(ZU_STREAM_END)

----------------------------------------------------------------------------
CodecStep ==
    \/ HeaderStarved \/ GzipHeaderByte \/ ZlibHeaderByte \/ ZlibHeaderCheck
    \/ Body
    \/ TrailerStarved \/ TrailerByte \/ TrailerCheck
    \/ MemberEndNoInput \/ MemberProbe \/ MemberProbeHeld

Next == \/ LoopStep /\ UNCHANGED s
        \/ CodecStep
        \/ Returned /\ UNCHANGED s

\* Sequential code: a step that can be taken is taken.
Spec == Init /\ [][Next]_vars /\ WF_vars(Next)

----------------------------------------------------------------------------
(***************************************************************************)
(* What a stream means, whatever the buffers: the reference decoder reads  *)
(* the whole input, one token at a time, with unlimited room.  `phase` is  *)
(* where the stream stands after the tokens read so far, `end` the last    *)
(* position at which a complete member ended.                              *)
(***************************************************************************)
RefInit(wrap) ==
    [phase |-> CASE wrap = "raw" -> "body" [] wrap = "zlib" -> "cmf"
                 [] wrap = "gzip" -> "header",
     start |-> 1, member |-> 0, out |-> <<>>, end |-> 0, err |-> ZU_OK]

RefMemberDone(r, i) == [r EXCEPT !.phase = "between", !.end = i]

\* The gzip header that v begins with, by its layout: where each part ends,
\* one place beyond the input when it does not.
HeaderByte(v, k) == ByteOf(v[k])

Announces(v, bit) == Len(v) >= 4 /\ HasFlag(HeaderByte(v, 4), bit)

NulAfter(v, k) == Min({j \in k + 1 .. Len(v) : HeaderByte(v, j) = 0} \cup {Len(v) + 1})

ExtraEnd(v) ==
    IF ~Announces(v, GZ_FEXTRA) THEN HeaderLen
    ELSE IF Len(v) < HeaderLen + 2 THEN Len(v) + 1
    ELSE HeaderLen + 2 + HeaderByte(v, HeaderLen + 1) + 256 * HeaderByte(v, HeaderLen + 2)

NameEnd(v) == IF Announces(v, GZ_FNAME) THEN NulAfter(v, ExtraEnd(v)) ELSE ExtraEnd(v)

CommentEnd(v) == IF Announces(v, GZ_FCOMMENT) THEN NulAfter(v, NameEnd(v)) ELSE NameEnd(v)

HeaderEnd(v) == IF Announces(v, GZ_FHCRC) THEN CommentEnd(v) + 2 ELSE CommentEnd(v)

\* The bytes that are malformed, or make a field too long.
WrongBytes(v) ==
    {k \in 1 .. LeastOf(Len(v), 3) : HeaderByte(v, k) # FixedBytes[k]}
      \cup {k \in {4} : Len(v) >= 4 /\ HeaderByte(v, 4) >= GZ_RESERVED}
      \cup {k \in {ExtraEnd(v) + MaxField + 1} : Announces(v, GZ_FNAME) /\ k < NameEnd(v)}
      \cup {k \in {NameEnd(v) + MaxField + 1} : Announces(v, GZ_FCOMMENT) /\ k < CommentEnd(v)}

\* The byte at which reading the header stops, and why.
RefHeader(v) ==
    LET end == HeaderEnd(v)
        crc == HeaderByte(v, end - 1) + 256 * HeaderByte(v, end)
    IN  IF WrongBytes(v) # {}
          THEN [len |-> Min(WrongBytes(v)), err |-> ZU_ERR_INVALID_DATA]
        ELSE IF end > Len(v) THEN [len |-> Len(v) + 1, err |-> ZU_ERR_TRUNCATED]
        ELSE [len |-> end,
              err |-> IF Announces(v, GZ_FHCRC) /\ crc # (end - 2) % 65536
                        THEN ZU_ERR_CHECKSUM ELSE ZU_OK]

\* What token i of job j's input makes of r.
RefStep(j, r, i) ==
    LET t == j.input[i]
        read(n) == [r EXCEPT !.out = @ \o BytesAt(j.input, i), !.member = @ + n]
        expect(tok, next, err) ==
            IF t = tok THEN [r EXCEPT !.phase = next] ELSE [r EXCEPT !.err = err]
        startsMember ==
            /\ j.wrap = "gzip" /\ j.opts.concat
            /\ i < Len(j.input)
            /\ t = magic1 /\ j.input[i + 1] = magic2
    IN  CASE r.err # ZU_OK \/ r.phase = "tail" -> r
          [] r.err = ZU_OK /\ r.phase = "header" ->
               LET head == RefHeader(SubSeq(j.input, r.start, Len(j.input)))
               IN  IF i < r.start + head.len - 1 THEN r
                   ELSE [r EXCEPT !.phase = "body", !.err = head.err]
          [] r.err = ZU_OK /\ r.phase = "cmf" -> [r EXCEPT !.phase = "flg"]
          [] r.err = ZU_OK /\ r.phase = "flg" ->
               IF j.input[i - 1] # <<"cmf", 0>>
                 THEN [r EXCEPT !.err = ZU_ERR_INVALID_DATA]
                 ELSE expect(<<"flg", 0>>, "body",
                        IF t = <<"flg", 2>> THEN ZU_ERR_UNSUPPORTED
                                            ELSE ZU_ERR_INVALID_DATA)
          [] r.err = ZU_OK /\ r.phase = "body" ->
               CASE t[1] = "lit" -> read(t[2])
                 [] t[1] = "end" ->
                      IF j.wrap = "raw" THEN RefMemberDone(read(t[2]), i)
                      ELSE [read(t[2]) EXCEPT !.phase = "sum"]
                 [] OTHER -> [r EXCEPT !.err = ZU_ERR_INVALID_DATA]
          [] r.err = ZU_OK /\ r.phase = "sum" ->
               IF j.wrap = "gzip"
                 THEN [r EXCEPT !.phase = IF t = <<"sum", r.member>> THEN "isize"
                                          ELSE "isize-bad"]
                 ELSE IF t = <<"sum", r.member>> THEN RefMemberDone(r, i)
                 ELSE [r EXCEPT !.err = ZU_ERR_CHECKSUM]
          [] r.err = ZU_OK /\ r.phase \in {"isize", "isize-bad"} ->
               IF r.phase = "isize" /\ t = <<"isize", r.member % ISizeMod>>
                 THEN RefMemberDone(r, i)
                 ELSE [r EXCEPT !.err = ZU_ERR_CHECKSUM]
          [] r.err = ZU_OK /\ r.phase = "between" ->
               IF startsMember THEN [r EXCEPT !.phase = "header", !.start = i, !.member = 0]
               ELSE [r EXCEPT !.phase = "tail"]

\* What is known of job j's stream after each of its tokens.
Readings(j) ==
    LET upto[i \in 0 .. Len(j.input)] ==
            IF i = 0 THEN RefInit(j.wrap) ELSE RefStep(j, upto[i - 1], i)
    IN  upto

ReferenceOf(j) == Readings(j)[Len(j.input)]

Reference == ReferenceOf(job)

\* The verdict on job j's stream, read as r, limits aside.
VerdictOn(j, r) ==
    CASE r.err # ZU_OK -> r.err
      [] r.err = ZU_OK /\ r.phase = "body" -> ZU_ERR_INVALID_DATA
      [] r.err = ZU_OK /\ r.phase = "between" -> ZU_STREAM_END
      [] r.err = ZU_OK /\ r.phase = "tail" ->
           IF j.opts.reject THEN ZU_ERR_TRAILING ELSE ZU_STREAM_END
      [] OTHER -> ZU_ERR_TRUNCATED

RefVerdict == VerdictOn(job, Reference)

Unlimited == ~HasCeiling(job.opts) /\ job.opts.max_ratio = 0

Settled == Whole /\ pc \in {"close", "closed"} /\ result # ZU_ERR_MEMORY

\* The verdict is the reference decoder's; or the stream ends with a buffer,
\* the codec does not look further, and the tail was never offered to it.
RightVerdict(r) ==
    \/ result = VerdictOn(job, r)
    \/ /\ ~Concat /\ r.end % job.in_chunk = 0
       /\ VerdictOn(job, r) = ZU_ERR_TRAILING /\ result = ZU_STREAM_END

\* The verdict and the output belong to the stream, not to the buffers:
\* without limits, every chunking of the input and of the output ends with
\* the status the reference decoder gives, and success delivers exactly its
\* bytes.  This is acceptance criterion 4 (any chunk boundaries) and 5
\* (every truncation is an error) of the design, for gzip's member probe,
\* header, trailer and miniz's dictionary together.  The one exception is
\* what TrailingIsReported is about.
VerdictIsTheStreams ==
    Settled /\ Unlimited =>
        \A ref \in {Reference} :
            RightVerdict(ref) /\ (result = ZU_STREAM_END => out = ref.out)

\* With limits: what has been written at any moment is a prefix of the
\* stream's output; success still means the whole output and the right
\* verdict; and any other verdict than the stream's own is a limit that the
\* stream really reaches.
LimitsAreSafe ==
    \A ref \in {Reference} :
        /\ IsPrefix(out, ref.out)
        /\ Settled /\ result = ZU_STREAM_END =>
              /\ RightVerdict(ref)
              /\ out = ref.out
              /\ job.opts.has_expected => Len(out) = job.opts.expected_size
        /\ Settled /\ ~RightVerdict(ref) =>
              \/ /\ result = ZU_ERR_OUTPUT_LIMIT
                 /\ job.opts.max_output # 0
                 /\ Len(ref.out) >= job.opts.max_output
              \/ /\ result = ZU_ERR_INVALID_DATA
                 /\ job.opts.has_expected
                 /\ \/ Len(ref.out) >= job.opts.expected_size
                    \/ VerdictOn(job, ref) \in {ZU_STREAM_END, ZU_ERR_TRAILING}
              \/ /\ result = ZU_ERR_RATIO_LIMIT
                 /\ job.opts.max_ratio # 0

\* The consumed count a caller resumes from is the end of the stream; one
\* byte beyond it only when that byte is the first of the gzip magic, held
\* by the member probe and disproved by a byte of a later buffer
\* (test-members.R documents this one deviation).
ConsumedIsExact ==
    Settled /\ result = ZU_STREAM_END =>
        LET end == Reference.end
        IN  \/ pos = end
            \/ /\ pos = end + 1
               /\ job.input[end + 1] = magic1
               /\ Len(job.input) >= end + 2

\* zu_decompress_one needs no spare room: it succeeds in a buffer of exactly
\* the stream's size, with the end of block, trailer and member probe still
\* to be read when the buffer is full, and in no smaller one.
OneShotDecodes ==
    OneShotSettled /\ Unlimited =>
        \A ref \in {Reference} : OneShotRight({VerdictOn(job, ref)}, ref.out)

(***************************************************************************)
(* Three statements of the repository that the code does not keep.         *)
(***************************************************************************)
\* R/decompress.R on komp_decompress: "Anything else after the end of the
\* stream is an error of class `zukomp_trailing_bytes`".
TrailingIsReported ==
    Settled /\ Unlimited /\ RefVerdict = ZU_ERR_TRAILING => result = ZU_ERR_TRAILING

\* zu_stream.c on the output ceiling: "reaching the cap exactly is not itself
\* an error: a stream whose output is exactly max_output bytes still needs
\* one more call to observe ZU_FINISH and terminate".
ExactCapAccepted ==
    (/\ Settled
     /\ RefVerdict = ZU_STREAM_END
     /\ Len(Reference.out) = job.opts.max_output
     /\ job.opts.max_ratio = 0 /\ ~job.opts.has_expected) => result = ZU_STREAM_END

\* codec_deflate.c: "every checksum failure to surface as
\* zukomp_checksum_error, distinctly".
ChecksumSurfaces ==
    (/\ Settled
     /\ last.op = "process"
     /\ last.st = ZU_ERR_CHECKSUM) => result = ZU_ERR_CHECKSUM

\* Every decode returns.
Terminates == <>(pc = "closed")

\* The loop and the codec together implement the decoder handle as specified
\* for an arbitrary codec.
ImplementsHandle == Handle!Spec
=============================================================================
