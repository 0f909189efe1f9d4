----------------------------- MODULE DecodeLoop -----------------------------
(***************************************************************************)
(* The two callers of the decoder handle in the library, the whole-buffer  *)
(* loop (zu_int_run_whole in zu_whole.c) and the one-shot call into a      *)
(* fixed buffer (zu_int_one_shot in zu_stream.c), over zu_decoder_process, *)
(* with the codec left open: a codec module EXTENDS this one, adds its     *)
(* state, and takes its steps while pc = "codec" through Continue and      *)
(* Return.                                                                 *)
(*                                                                         *)
(* The input is a sequence of tokens, each the few bytes of a format that  *)
(* are told apart (a magic byte, a checksum).  The output is the sequence  *)
(* of bytes written, each named after the token that encodes it, so a lost *)
(* or repeated byte is visible.                                            *)
(***************************************************************************)
EXTENDS DriverRules, Sequences

CONSTANT Jobs     \* the decodes to run: see JobType

\* wrap: the codec; driver: "whole" or "one_shot"; in_chunk and out_chunk:
\* zu_int_run_opts, the second being the capacity of a one-shot call.  size_t
\* is taken to be as wide as the driver's counters.
ASSUME JobsAssumption ==
    \A j \in Jobs : /\ j.opts \in LimitOpts
                    /\ j.driver \in {"whole", "one_shot"}
                    /\ j.input \in Seq(STRING \X Nat) /\ Len(j.input) <= U64Max
                    /\ j.in_chunk \in Nat \ {0}
                    /\ j.out_chunk \in 0 .. U64Max
                    /\ j.driver = "whole" => j.out_chunk > 0

VARIABLES
    job,        \* the decode in progress
    pc,         \* "open", "call", "codec", "close" or "closed"
    fed,        \* r->fed: tokens handed over, the end of the src window
    pos,        \* tokens the codec consumed: src_pos, counted from the start
    out,        \* the output sink
    flush,      \* what this call asks of the codec
    call,       \* zu_decoder_process's locals for the call in progress
    finished, total_in, total_out,   \* the decoder handle
    last,       \* the last answer of a decoder entry point
    result      \* what the caller of the handle returns

loopVars == <<job, pc, fed, pos, out, flush, call, finished, total_in,
              total_out, last, result>>

Running == "running"

LoopInit ==
    /\ job \in Jobs
    /\ pc = "open"
    /\ fed = 0 /\ pos = 0 /\ out = <<>>
    /\ flush = ZU_RUN
    /\ call = [pos |-> 0, out |-> 0, capped |-> FALSE, allowance |-> 0]
    /\ finished = FALSE /\ total_in = 0 /\ total_out = 0
    /\ last = Answer("none", ZU_OK, NotAsked, 0)
    /\ result = Running

\* zu_decoder_new: on failure the callers return at once.
Open ==
    /\ pc = "open"
    /\ \/ /\ pc' = "call"
          /\ last' = Answer("new", ZU_OK, ZU_OK, 0)
          /\ UNCHANGED result
       \/ /\ pc' = "closed"
          /\ last' = Answer("new", ZU_ERR_MEMORY, ZU_ERR_MEMORY, 0)
          /\ result' = ZU_ERR_MEMORY
    /\ UNCHANGED <<job, fed, pos, out, flush, call, finished, total_in, total_out>>

----------------------------------------------------------------------------
LeastOf(m, n) == IF m <= n THEN m ELSE n

Whole == job.driver = "whole"

\* A new slice is handed over only once the previous one is spent; a
\* one-shot call offers all the input at once.
Refill ==
    fed' = IF ~Whole THEN Len(job.input)
           ELSE IF pos = fed THEN fed + LeastOf(Len(job.input) - fed, job.in_chunk)
           ELSE fed

\* The room of the next call: always a chunk, or what is left of the buffer.
Room == IF Whole THEN job.out_chunk ELSE job.out_chunk - Len(out)

\* Mutant: the codec is shown the whole buffer whatever the limits.
CallCodecUnshrunk ==
    /\ pc = "call"
    /\ Len(out) + Room <= U64Max
    /\ Refill
    /\ flush' = IF fed' >= Len(job.input) THEN ZU_FINISH ELSE ZU_RUN
    /\ call' = [pos |-> pos, out |-> Len(out), capped |-> FALSE,
                allowance |-> Room]
    /\ pc' = "codec"
    /\ UNCHANGED <<job, pos, out, finished, total_in, total_out, last, result>>

\* The top of the loop up to the codec: refill, choose the flush, make room
\* for the call (zu_int_reserve refuses what a size_t cannot count), and enter
\* zu_decoder_process, which shrinks the window to what the limits leave.
\* The loop's ZU_FLUSH is EncodeLoop's: flush_every is 0 for every decode (only
\* the encoder stream of the tests sets it).
CallCodec ==
    /\ pc = "call"
    /\ Len(out) + Room <= U64Max
    /\ Refill
    /\ flush' = IF fed' >= Len(job.input) THEN ZU_FINISH ELSE ZU_RUN
    /\ call' = [pos       |-> pos,
                out       |-> Len(out),
                capped    |-> Capped(job.opts, total_out, Room),
                allowance |-> Allowance(job.opts, total_out, Room)]
    /\ pc' = "codec"
    /\ UNCHANGED <<job, pos, out, finished, total_in, total_out, last, result>>

\* zu_int_reserve could not make room.
ReserveFails ==
    /\ pc = "call" /\ Whole
    /\ Refill
    /\ result' = ZU_ERR_MEMORY
    /\ pc' = "close"
    /\ UNCHANGED <<job, pos, out, flush, call, finished, total_in, total_out, last>>

----------------------------------------------------------------------------
(***************************************************************************)
(* For the codec: what is visible of the buffers, and the two ways an      *)
(* iteration of its loop ends.                                             *)
(***************************************************************************)
AvailIn  == fed - pos
AvailOut == call.allowance - (Len(out) - call.out)
Ahead(i) == job.input[pos + i]    \* the i-th unconsumed token

\* The bytes token i of an input decodes to, named after it.
BytesAt(input, i) == [k \in 1 .. input[i][2] |-> 100 * i + k]

BytesOf(i) == BytesAt(job.input, i)

\* The codec goes round its loop again with the cursors moved to p and o.
Continue(p, o) ==
    /\ pos' = p
    /\ out' = o
    /\ UNCHANGED <<job, pc, fed, flush, call, finished, total_in, total_out,
                   last, result>>

\* zu_int_run_whole after the call: with nothing left to give, a codec that
\* waits for input is stuck.
WholeResult(status, o) ==
    IF status \notin Progress \ {ZU_STREAM_END} THEN status
    ELSE IF Len(o) = call.out /\ fed >= Len(job.input) /\ status = ZU_NEED_INPUT
      THEN ZU_ERR_INTERNAL
    ELSE Running

\* Mutant: a buffer that is full is taken for one that is too small.
OneShotFullIsOver(status, p, o) ==
    IF status \in Progress /\ Len(o) = job.out_chunk THEN ZU_ERR_OUTPUT_LIMIT
    ELSE IF status = ZU_STREAM_END THEN ZU_OK
    ELSE IF status \notin Progress THEN status
    ELSE IF Len(o) = call.out /\ p = call.pos THEN ZU_ERR_INTERNAL
    ELSE Running

\* zu_int_one_shot after the call.
OneShotResult(status, p, o) ==
    IF status = ZU_STREAM_END THEN ZU_OK
    ELSE IF status \notin Progress THEN status
    ELSE IF status = ZU_NEED_OUTPUT /\ Len(o) = job.out_chunk THEN ZU_ERR_OUTPUT_LIMIT
    ELSE IF Len(o) = call.out /\ p = call.pos THEN ZU_ERR_INTERNAL
    ELSE Running

\* The codec returns st with the cursors at p and o: the rest of
\* zu_decoder_process, then the rest of its caller's loop body.
Return(st, p, o) ==
    LET produced == Len(o) - call.out
        tin      == total_in + (p - call.pos)
        tout     == total_out + produced
        status   == DriverStatus(job.opts,
                      [st |-> st, capped |-> call.capped,
                       allowance |-> call.allowance, produced |-> produced,
                       left |-> fed - p, total_in |-> tin, total_out |-> tout])
    IN  /\ pos' = p
        /\ out' = o
        /\ total_in' = tin
        /\ total_out' = tout
        /\ finished' = (st = ZU_STREAM_END)
        /\ last' = Answer("process", status, st, fed - p)
        /\ result' = IF Whole THEN WholeResult(status, o) ELSE OneShotResult(status, p, o)
        /\ pc' = IF result' = Running THEN "call" ELSE "close"
        /\ UNCHANGED <<job, fed, flush, call>>

\* zu_decoder_free; the consumed count reported to the caller is pos.
Close ==
    /\ pc = "close"
    /\ pc' = "closed"
    /\ last' = Answer("free", ZU_OK, NotAsked, 0)
    /\ UNCHANGED <<job, fed, pos, out, flush, call, finished, total_in,
                   total_out, result>>

\* The caller has returned.
Returned == pc = "closed" /\ UNCHANGED loopVars

LoopStep == Open \/ CallCodec \/ ReserveFails \/ Close

(***************************************************************************)
(* What a one-shot decode of a stream with this verdict and size returns:  *)
(* success exactly when the stream is sound and fits, the last byte        *)
(* included, with all of it in the buffer.  A stream that is not sound     *)
(* gets its own verdict unless it fills the buffer first.                  *)
(***************************************************************************)
OneShotRight(verdicts, bytes) ==
    LET cap == job.out_chunk
    IN  IF verdicts = {ZU_STREAM_END}
          THEN IF Len(bytes) <= cap THEN result = ZU_OK /\ out = bytes
               ELSE result = ZU_ERR_OUTPUT_LIMIT
          ELSE \/ result \in verdicts
               \/ result = ZU_ERR_OUTPUT_LIMIT /\ Len(bytes) >= cap

OneShotSettled ==
    ~Whole /\ pc \in {"close", "closed"} /\ result # ZU_ERR_MEMORY /\ last.st # ZU_ERR_MEMORY

----------------------------------------------------------------------------
(***************************************************************************)
(* The decoder handle that the loop drives, as ZuDecoder specifies it for  *)
(* an arbitrary codec: every step here is one of its steps or leaves the   *)
(* handle alone.                                                           *)
(***************************************************************************)
OptionsGiven == {[size |-> "full", codec |-> "this", lim |-> j.opts] : j \in Jobs}
SizesOffered ==
    UNION {0 .. IF j.driver = "whole" THEN j.in_chunk ELSE Len(j.input) : j \in Jobs}
WindowsOffered ==
    UNION {IF j.driver = "whole" THEN {j.out_chunk} ELSE 0 .. j.out_chunk : j \in Jobs}

Handle == INSTANCE ZuDecoder WITH
    Codecs   <- {"this"},
    Vtable   <- [c \in {"this"} |-> [registered |-> TRUE, can_decode |-> TRUE,
                                     can_flush |-> TRUE, has_reset |-> TRUE]],
    Given    <- OptionsGiven,
    SrcSizes <- SizesOffered,
    DstSizes <- WindowsOffered,
    handle   <- IF pc \in {"open", "closed"} THEN "none" ELSE "live",
    vtable   <- "this",
    codec    <- "this",
    opts     <- IF last.op = "none" \/ (last.op = "new" /\ last.status # ZU_OK)
                  THEN NoLimits ELSE job.opts
=============================================================================
