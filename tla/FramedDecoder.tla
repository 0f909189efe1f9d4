---------------------------- MODULE FramedDecoder ----------------------------
(***************************************************************************)
(* The framed decoders, zstd and lz4-frame (zstd_decoder_process and       *)
(* lz4f_decoder_process, which are the same loop over two libraries) and   *)
(* the frame continuation they share (zu_frames.c), driven by the loop of  *)
(* DecodeLoop.  Each action is one turn of the decoder's loop.             *)
(*                                                                         *)
(* Tokens are <<kind, value>>:                                             *)
(*   own 1..4     the four bytes of the format's magic                     *)
(*   skip 1..4    the four bytes of a skippable frame's magic              *)
(*   size         the rest of a (then empty) skippable frame               *)
(*   head v       the rest of a frame header: 1 with a content checksum,   *)
(*                0 without, 2 refused by the library                      *)
(*   lit n        a block that decodes to n bytes                          *)
(*   raw 1        a byte of an uncompressed block                          *)
(*   end n        the last block, or for lz4 the end mark (n = 0)          *)
(*   sum n        the content checksum of n bytes                          *)
(* Where a block is expected any other kind is corrupt data.               *)
(***************************************************************************)
EXTENDS DecodeLoop, SequencesExt

\* Uncompressed blocks come byte by byte.
ASSUME RawAssumption ==
    \A j \in Jobs : \A i \in 1 .. Len(j.input) :
        j.input[i][1] = "raw" => j.input[i][2] = 1

VARIABLES
    f,      \* zu_int_frames: state, held and owed bytes
    lib     \* the library's decompression context

frameVars == <<f, lib>>

Own  == [i \in 1 .. 4 |-> <<"own", i>>]
Skip == [i \in 1 .. 4 |-> <<"skip", i>>]

\* zu_int_frames_is_prefix.
IsMagicPrefix(p) == IsPrefix(p, Own) \/ IsPrefix(p, Skip)

----------------------------------------------------------------------------
(***************************************************************************)
(* The two libraries, as the decoders see them.  `seen` is the magic read  *)
(* so far, `pend` what is decoded and not yet written, `n` how much the    *)
(* frame decoded to.  libzstd checks the magic as it comes and decodes     *)
(* into a buffer of its own, so it needs no output room to read; when the  *)
(* frame is read but not written out it gives its last byte back           *)
(* (`hostage`) until it is.  liblz4 looks at a header only once it is      *)
(* complete, and copies uncompressed blocks straight to the output.        *)
(***************************************************************************)
FreshLib == [stage |-> "magic", seen |-> <<>>, check |-> FALSE, pend |-> <<>>,
             n |-> 0, hostage |-> FALSE]

\* What the context becomes, or the error, on reading token i.
LibMagic(l, t) ==
    LET seen == Append(l.seen, t)
    IN  IF job.wrap = "zstd" /\ ~IsMagicPrefix(seen)
          THEN [l |-> l, err |-> ZU_ERR_INVALID_DATA]
          ELSE [l |-> [l EXCEPT !.seen = seen, !.stage = IF Len(seen) = 4 THEN "head" ELSE @],
                err |-> ZU_OK]

\* zu_int_zstd_error and zu_int_lz4f_error on a header the library refuses:
\* for zstd a window above the ceiling, for lz4 a wrong header checksum.
HeaderRefused(j) ==
    IF j.wrap = "lz4" THEN ZU_ERR_CHECKSUM
    ELSE IF j.opts.max_output # 0 THEN ZU_ERR_OUTPUT_LIMIT
    ELSE ZU_ERR_UNSUPPORTED

LibHead(l, t) ==
    CASE l.seen = Skip /\ t[1] = "size" ->
           [l |-> [l EXCEPT !.stage = "done"], err |-> ZU_OK]
      [] l.seen = Own /\ t \in {<<"head", 0>>, <<"head", 1>>} ->
           [l |-> [l EXCEPT !.stage = "block", !.check = t[2] = 1], err |-> ZU_OK]
      [] l.seen = Own /\ t = <<"head", 2>> -> [l |-> l, err |-> HeaderRefused(job)]
      [] OTHER -> [l |-> l, err |-> ZU_ERR_INVALID_DATA]

LibBlock(l, i) ==
    LET t == job.input[i]
        read == [l EXCEPT !.pend = BytesOf(i), !.n = @ + t[2]]
    IN  CASE t[1] \in {"lit", "raw"} -> [l |-> read, err |-> ZU_OK]
          [] t[1] = "end" ->
               [l |-> [read EXCEPT !.stage = IF l.check THEN "sum" ELSE "done"],
                err |-> ZU_OK]
          [] OTHER -> [l |-> l, err |-> ZU_ERR_INVALID_DATA]

LibRead(l, i) ==
    CASE l.stage = "magic" -> LibMagic(l, job.input[i])
      [] l.stage = "head" -> LibHead(l, job.input[i])
      [] l.stage = "block" -> LibBlock(l, i)
      [] l.stage = "sum" ->
           IF job.input[i] = <<"sum", l.n>>
             THEN [l |-> [l EXCEPT !.stage = "done"], err |-> ZU_OK]
             ELSE [l |-> l, err |-> ZU_ERR_CHECKSUM]

\* Writes what fits of the pending bytes, and sees whether that settles the
\* call: the frame is complete, or there is no room.
LibFlush(c, room) ==
    LET k == LeastOf(Len(c.l.pend), room - Len(c.bytes))
        d == [c EXCEPT !.bytes = @ \o SubSeq(c.l.pend, 1, k),
                       !.l.pend = SubSeq(c.l.pend, k + 1, Len(c.l.pend))]
    IN  IF d.l.pend # <<>>
          THEN IF d.l.stage = "done" /\ ~d.l.hostage
                 THEN [d EXCEPT !.stop = "full", !.l.hostage = TRUE, !.used = @ - 1]
                 ELSE [d EXCEPT !.stop = "full"]
        ELSE IF d.l.stage = "done" /\ ~d.l.hostage
          THEN [d EXCEPT !.stop = "frame", !.l = FreshLib]
        ELSE d

LibTurn(c, avail, room) ==
    LET next == Ahead(c.used + 1)
        r    == LibRead(c.l, pos + c.used + 1)
    IN  IF c.stop # "go" THEN c
        ELSE IF c.used = avail THEN [c EXCEPT !.stop = "starved"]
        ELSE IF c.l.hostage
          THEN [c EXCEPT !.stop = "frame", !.l = FreshLib, !.used = @ + 1]
        ELSE IF job.wrap = "lz4" /\ c.l.stage = "block" /\ next[1] = "raw" /\ Len(c.bytes) = room
          THEN [c EXCEPT !.stop = "full"]
        ELSE IF r.err # ZU_OK THEN [c EXCEPT !.stop = "error", !.err = r.err]
        ELSE LibFlush([c EXCEPT !.l = r.l, !.used = @ + 1], room)

\* ZSTD_decompressStream or LZ4F_decompress over `avail` tokens and `room`
\* bytes: it moves until it cannot.  (Binding the previous turn's outcome to
\* c has TLC compute it once.)
Decompress(avail, room) ==
    LET start == [l |-> lib, used |-> 0, bytes |-> <<>>, stop |-> "go", err |-> ZU_OK]
        turn[k \in 0 .. avail + 1] ==
            IF k = 0 THEN LibFlush(start, room)
            ELSE CHOOSE d \in {LibTurn(c, avail, room) : c \in {turn[k - 1]}} : TRUE
    IN  turn[avail + 1]

\* zstd_feed_held, lz4f_feed_held: the four held bytes go to the library,
\* which refuses them unless they are a magic.
FeedHeld(held) ==
    [l   |-> [FreshLib EXCEPT !.seen = held, !.stage = "head"],
     err |-> IF held \in {Own, Skip} THEN ZU_OK ELSE ZU_ERR_INVALID_DATA]

\* zstd_probe, lz4f_probe: one byte of room into scratch, no input.
Probe == Decompress(0, 1)

----------------------------------------------------------------------------
\* zu_int_frames_init.
NewFrames == [state |-> "BODY", held |-> <<>>, owed |-> <<>>]

FrameInit == f = NewFrames /\ lib = FreshLib

\* The codec in progress is one of these.
IsFramed == job.wrap \in {"zstd", "lz4"}

\* zu_int_frames_pay: a byte the probe took goes out before anything else.
Pay ==
    /\ pc = "codec" /\ IsFramed /\ f.owed # <<>>
    /\ IF AvailOut = 0
         THEN Return(ZU_NEED_OUTPUT, pos, out) /\ UNCHANGED f
         ELSE Continue(pos, out \o f.owed) /\ f' = [f EXCEPT !.owed = <<>>]
    /\ UNCHANGED lib

\* A step of the continuation with p consumed: ZU_OK is to carry on.
CarryOn(st, p) == IF st = ZU_OK THEN Continue(p, out) ELSE Return(st, p, out)

InState(st) == pc = "codec" /\ IsFramed /\ f.owed = <<>> /\ f.state = st

----------------------------------------------------------------------------
(***************************************************************************)
(* zu_int_frames_between: does another frame follow?                       *)
(***************************************************************************)
Done(st, p) ==
    Return(st, p, out) /\ f' = [f EXCEPT !.state = "DONE", !.held = <<>>]

\* No frame is looked for, or none can come.
BetweenNoMore ==
    /\ InState("BETWEEN")
    /\ ~job.opts.concat \/ (f.held = <<>> /\ AvailIn = 0)
    /\ IF job.opts.concat /\ flush # ZU_FINISH
         THEN Return(ZU_NEED_INPUT, pos, out) /\ UNCHANGED f
         ELSE Done(ZU_STREAM_END, pos)
    /\ UNCHANGED lib

\* Mutant: a visible part of a magic is waited for without taking it.
BetweenLookWaits ==
    /\ InState("BETWEEN") /\ job.opts.concat
    /\ f.held = <<>> /\ AvailIn > 0
    /\ LET k == LeastOf(AvailIn, 4)
           p == [i \in 1 .. k |-> Ahead(i)]
       IN  IF ~IsMagicPrefix(p) \/ (k < 4 /\ flush = ZU_FINISH)
             THEN Done(ZU_STREAM_END, pos)
           ELSE IF k = 4
             THEN Continue(pos, out) /\ f' = [f EXCEPT !.state = "BODY"]
           ELSE Return(ZU_NEED_INPUT, pos, out) /\ UNCHANGED f
    /\ UNCHANGED lib

\* Nothing held: with four bytes visible nothing is consumed; with fewer
\* they are taken and held, or the loop would never refill.
BetweenLook ==
    /\ InState("BETWEEN") /\ job.opts.concat
    /\ f.held = <<>> /\ AvailIn > 0
    /\ LET k == LeastOf(AvailIn, 4)
           p == [i \in 1 .. k |-> Ahead(i)]
       IN  IF ~IsMagicPrefix(p) \/ (k < 4 /\ flush = ZU_FINISH)
             THEN Done(ZU_STREAM_END, pos)
           ELSE IF k = 4
             THEN Continue(pos, out) /\ f' = [f EXCEPT !.state = "BODY"]
           ELSE Return(ZU_NEED_INPUT, pos + k, out) /\ f' = [f EXCEPT !.held = p]
    /\ UNCHANGED lib

\* Mutant: the byte that disproves the magic is taken too.
MatchedAndOne ==
    LeastOf(AvailIn, LET ks == {k \in 0 .. LeastOf(AvailIn, 4 - Len(f.held)) :
               IsMagicPrefix(f.held \o [i \in 1 .. k |-> Ahead(i)])}
    IN  IF Len(f.held) + Max(ks) = 4 THEN Max(ks) ELSE Max(ks) + 1)

\* How many visible bytes extend the held ones to a longer part of a magic.
Matched ==
    LET ks == {k \in 0 .. LeastOf(AvailIn, 4 - Len(f.held)) :
               IsMagicPrefix(f.held \o [i \in 1 .. k |-> Ahead(i)])}
    IN  Max(ks)

\* Input ended on a held prefix: src_pos cannot express it any more.
HeldAtEnd == IF job.opts.reject THEN ZU_ERR_TRAILING ELSE ZU_STREAM_END

\* A held magic was fed, or refused.
NextFrame(st) ==
    [f EXCEPT !.state = IF st = ZU_OK THEN "BODY" ELSE @, !.held = <<>>]

\* A prefix is held from an earlier buffer; complete, it is fed to the
\* library.
BetweenHeld ==
    /\ InState("BETWEEN") /\ job.opts.concat
    /\ f.held # <<>>
    /\ LET k    == Matched
           held == f.held \o [i \in 1 .. k |-> Ahead(i)]
       IN  IF Len(held) = 4
             THEN /\ CarryOn(FeedHeld(held).err, pos + k)
                  /\ f' = NextFrame(FeedHeld(held).err)
                  /\ lib' = FeedHeld(held).l
           ELSE /\ UNCHANGED lib
                /\ IF k < AvailIn THEN Done(ZU_STREAM_END, pos + k)
                   ELSE IF flush = ZU_FINISH THEN Done(HeldAtEnd, pos + k)
                   ELSE Return(ZU_NEED_INPUT, pos + k, out) /\ f' = [f EXCEPT !.held = held]

----------------------------------------------------------------------------
\* zu_int_frames_ended.
Ended == [f EXCEPT !.state = "BETWEEN", !.held = <<>>]

\* Mutant: a probe that finds nothing is taken for a want of room.
ProbedNothingIsRoom(r) ==
    CASE r.stop = "error" -> r.err
      [] r.stop = "frame" /\ r.bytes = <<>> -> ZU_OK
      [] OTHER -> ZU_NEED_OUTPUT

\* What the probe's outcome r says of a library that moved nothing: a byte
\* is owed, only the trailer was left, or the frame is cut short.
Probed(r) ==
    CASE r.stop = "error" -> r.err
      [] r.stop # "error" /\ r.bytes # <<>> -> ZU_NEED_OUTPUT
      [] r.stop = "frame" /\ r.bytes = <<>> -> ZU_OK
      [] OTHER -> ZU_ERR_TRUNCATED

\* zu_int_frames_stalled: the library moved nothing.  With neither room nor
\* input at the end the probe tells them apart.
Stalled ==
    IF AvailOut = 0 /\ AvailIn = 0 /\ flush = ZU_FINISH
      THEN LET r  == Probe
               f1 == [IF r.stop = "frame" THEN Ended ELSE f EXCEPT !.owed = r.bytes]
           IN  /\ lib' = r.l
               /\ f' = IF r.stop = "error" THEN f ELSE f1
               /\ CarryOn(Probed(r), pos)
      ELSE /\ Return(CASE AvailOut = 0 /\ AvailIn > 0 -> ZU_NEED_OUTPUT
                       [] AvailIn = 0 /\ flush # ZU_FINISH -> ZU_NEED_INPUT
                       [] AvailOut > 0 /\ AvailIn = 0 /\ flush = ZU_FINISH -> ZU_ERR_TRUNCATED
                       [] AvailOut > 0 /\ AvailIn > 0 -> ZU_ERR_INTERNAL, pos, out)
           /\ UNCHANGED <<f, lib>>

\* One turn of the library.  After an error the cursors stay where they were.
Body ==
    /\ InState("BODY")
    /\ \E r \in {Decompress(AvailIn, AvailOut)} :
           IF r.stop = "error"
             THEN Return(r.err, pos, out) /\ UNCHANGED <<f, lib>>
           ELSE IF r.stop # "frame" /\ r.used = 0 /\ r.bytes = <<>>
             THEN Stalled
           ELSE /\ Continue(pos + r.used, out \o r.bytes)
                /\ lib' = r.l
                /\ f' = IF r.stop = "frame" THEN Ended ELSE f

FrameStep == Pay \/ BetweenNoMore \/ BetweenLook \/ BetweenHeld \/ Body

----------------------------------------------------------------------------
(***************************************************************************)
(* What a stream means: frames read one token at a time.                   *)
(***************************************************************************)
RefFrame(r, i) == [r EXCEPT !.phase = "between", !.end = i]

RefFail(r, err) == [r EXCEPT !.err = err]

\* Four tokens from i on that start a frame.
FrameAt(j, i) ==
    i + 3 <= Len(j.input) /\ SubSeq(j.input, i, i + 3) \in {Own, Skip}

\* What token i of job j's input makes of r.
RefStep(j, r, i) ==
    LET t == j.input[i]
        magic == SubSeq(j.input, i - 4, i - 1)
        read == [r EXCEPT !.out = @ \o BytesAt(j.input, i), !.n = @ + t[2]]
    IN  CASE r.err # ZU_OK \/ r.phase = "tail" -> r
          [] r.err = ZU_OK /\ r.phase = "magic" ->
               IF j.wrap = "zstd" /\ ~IsMagicPrefix(SubSeq(j.input, i - r.k, i))
                 THEN RefFail(r, ZU_ERR_INVALID_DATA)
                 ELSE [r EXCEPT !.k = @ + 1, !.phase = IF r.k = 3 THEN "head" ELSE @]
          [] r.err = ZU_OK /\ r.phase = "head" ->
               CASE magic = Skip /\ t[1] = "size" -> RefFrame(r, i)
                 [] magic = Own /\ t \in {<<"head", 0>>, <<"head", 1>>} ->
                      [r EXCEPT !.phase = "block", !.check = t[2] = 1]
                 [] magic = Own /\ t = <<"head", 2>> -> RefFail(r, HeaderRefused(j))
                 [] OTHER -> RefFail(r, ZU_ERR_INVALID_DATA)
          [] r.err = ZU_OK /\ r.phase = "block" ->
               CASE t[1] \in {"lit", "raw"} -> read
                 [] t[1] = "end" ->
                      IF r.check THEN [read EXCEPT !.phase = "sum"] ELSE RefFrame(read, i)
                 [] OTHER -> RefFail(r, ZU_ERR_INVALID_DATA)
          [] r.err = ZU_OK /\ r.phase = "sum" ->
               IF t = <<"sum", r.n>> THEN RefFrame(r, i) ELSE RefFail(r, ZU_ERR_CHECKSUM)
          [] r.err = ZU_OK /\ r.phase = "between" ->
               IF j.opts.concat /\ FrameAt(j, i)
                 THEN [r EXCEPT !.phase = "magic", !.k = 1, !.n = 0]
                 ELSE [r EXCEPT !.phase = "tail"]

RefInit == [phase |-> "magic", k |-> 0, n |-> 0, check |-> FALSE,
            out |-> <<>>, end |-> 0, err |-> ZU_OK]

\* What is known of job j's stream after each of its tokens.
Readings(j) ==
    LET upto[i \in 0 .. Len(j.input)] ==
            IF i = 0 THEN RefInit ELSE RefStep(j, upto[i - 1], i)
    IN  upto

ReferenceOf(j) == Readings(j)[Len(j.input)]

Reference == ReferenceOf(job)

\* The verdict on job j's stream, read as r, limits aside.
VerdictOn(j, r) ==
    CASE r.err # ZU_OK -> r.err
      [] r.err = ZU_OK /\ r.phase = "between" -> ZU_STREAM_END
      [] r.err = ZU_OK /\ r.phase = "tail" ->
           IF j.opts.reject THEN ZU_ERR_TRAILING ELSE ZU_STREAM_END
      [] OTHER -> ZU_ERR_TRUNCATED

RefVerdict == VerdictOn(job, Reference)

\* A buffer ends inside what comes after token e.
CutAfter(j, e) == \E b \in e + 1 .. Len(j.input) - 1 : b % j.in_chunk = 0

\* What comes after e is a part of a magic that a buffer boundary cuts: its
\* bytes are consumed before it is known that no frame follows, and the
\* codec, not the driver, reports them.
HeldTail(j, e) ==
    /\ j.opts.concat /\ CutAfter(j, e)
    /\ IsMagicPrefix(SubSeq(j.input, e + 1, Len(j.input)))

\* ... and with the caller's limits: more output than the ceiling is the
\* ceiling's error, and a complete stream of another size than promised is
\* invalid, before its tail is looked at unless the codec reported that.
LimitedVerdict ==
    LET size == Len(Reference.out)
    IN  IF HasCeiling(job.opts) /\ size > Ceiling(job.opts) THEN OverStatus(job.opts)
        ELSE IF /\ job.opts.has_expected /\ size # job.opts.expected_size
                /\ \/ RefVerdict = ZU_STREAM_END
                   \/ RefVerdict = ZU_ERR_TRAILING /\ ~HeldTail(job, Reference.end)
          THEN ZU_ERR_INVALID_DATA
        ELSE RefVerdict

Settled == Whole /\ IsFramed /\ pc \in {"close", "closed"} /\ result # ZU_ERR_MEMORY

\* The tail of a stream that ends with a buffer is never offered when the
\* codec does not look for another frame.
TailUnseen == ~job.opts.concat /\ Reference.end % job.in_chunk = 0

\* The verdict and the bytes belong to the stream and not to the buffers:
\* every chunking gives the reference decoder's, with magics held across
\* buffers, skippable frames and output the library keeps back.  With a
\* ceiling the verdict is still exact, at the ceiling itself too: a stream of
\* exactly max_output bytes is accepted and one cut short there is truncated
\* (the probe of zu_int_frames_stalled), one byte more is over the limit.
\* The promised size is checked before the tail, except for a tail the codec
\* reports (HeldTail), and no stream of another size is accepted.
\* What remains open is an error found in the stream's bytes once the
\* ceiling is reached, which the driver replaces (see ChecksumSurfaces), a
\* tail that is never offered (TailUnseen), and a ratio limit, which depends
\* on how the input was cut.
FrameVerdicts ==
    /\ IsFramed => IsPrefix(out, Reference.out)
    /\ Settled =>
        /\ \/ result = LimitedVerdict
           \/ /\ HasCeiling(job.opts) /\ result = OverStatus(job.opts)
              /\ Len(Reference.out) = Ceiling(job.opts)
              /\ Reference.err # ZU_OK
           \/ TailUnseen /\ RefVerdict = ZU_ERR_TRAILING /\ result = ZU_STREAM_END
           \/ job.opts.max_ratio # 0 /\ result = ZU_ERR_RATIO_LIMIT
        /\ result = ZU_STREAM_END =>
             /\ out = Reference.out
             /\ job.opts.has_expected => Len(out) = job.opts.expected_size

\* The consumed count is the end of the last frame, or runs at most three
\* bytes past it, over bytes that begin like a magic and were held across a
\* buffer boundary.
FrameConsumed ==
    Settled /\ result = ZU_STREAM_END =>
        LET end == Reference.end
        IN  /\ pos \in end .. end + 3
            /\ IsMagicPrefix(SubSeq(job.input, end + 1, pos))

=============================================================================
