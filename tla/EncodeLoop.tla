----------------------------- MODULE EncodeLoop -----------------------------
(***************************************************************************)
(* The three callers of the encoder handle, with the codec left open: the  *)
(* whole-buffer loop (zu_int_run_whole in zu_whole.c, encode direction),   *)
(* the one-shot call into a fixed buffer (zu_int_one_shot in zu_stream.c), *)
(* and a C caller of the ABI, who chooses slices, windows and flushes as   *)
(* he likes and may reset the handle at any time.  A codec module EXTENDS  *)
(* this one and takes its steps while Asked, through Continue and Return.  *)
(*                                                                         *)
(* The input of a stream is the bytes 1, 2, ..., job.n.  The output is a   *)
(* sequence of tokens <<kind, value, level>>: a compressed byte carries    *)
(* the input byte it encodes and the level it was compressed at, so that a *)
(* lost, repeated or wrongly parameterised byte is visible.                *)
(***************************************************************************)
EXTENDS EncoderRules, BlockCompressor

CONSTANTS
    Jobs,        \* the encodes to run
    CodecTable,  \* the vtables of the built-in codecs
    LevelsTried  \* levels he asks for when he resets

\* driver: "whole", "one_shot" or "caller"; room: out_chunk of the first, the
\* capacity of the second, the largest window of the third, who makes at most
\* max_calls process() calls and max_resets resets.
ASSUME EncodeJobsAssumption ==
    \A j \in Jobs : /\ j.driver \in {"whole", "one_shot", "caller"}
                    /\ j.codec \in DOMAIN CodecTable
                    /\ j.level \in Int /\ CheckLevel(CodecTable[j.codec], j.level)
                    /\ j.n \in Nat
                    /\ j.in_chunk \in Nat \ {0}
                    /\ j.room \in Nat
                    /\ j.flush_every \in Nat
                    /\ j.max_calls \in Nat /\ j.max_resets \in Nat

\* The built-in encoders: every one is registered, encodes and resets; a
\* block cannot be flushed.
ASSUME CodecTableAssumption ==
    /\ CodecTable \in [DOMAIN CodecTable -> EncoderVtables]
    /\ DOMAIN CodecTable \subseteq
         {"raw", "zlib", "gzip", "lz4frame", "lz4block", "zstd", "identity"}
    /\ \A c \in DOMAIN CodecTable :
         /\ CodecTable[c].registered /\ CodecTable[c].can_encode /\ CodecTable[c].has_reset
         /\ c = "lz4block" => ~CodecTable[c].can_flush
    /\ LevelsTried \subseteq Int

VARIABLES
    job,        \* the encode in progress
    pc,         \* "open", "call", "process", "close" or "closed"
    fed, pos,   \* input handed over, and consumed
    out,        \* output delivered
    flush,      \* what this call asks
    call,       \* the cursors when it began, and its window
    calls,      \* process() calls so far
    resets,
    finished, level,   \* the encoder handle
    asked,      \* the level last asked for; only properties read it
    enc,        \* the codec's state
    last,       \* the last answer of an encoder entry point
    result      \* what the loop returns

encVars == <<job, pc, fed, pos, out, flush, call, calls, resets, finished,
             level, asked, enc, last, result>>

Running == "running"
NoState == [none |-> TRUE]

Init ==
    /\ job \in Jobs
    /\ pc = "open"
    /\ fed = 0 /\ pos = 0 /\ out = <<>>
    /\ flush = ZU_RUN
    /\ call = [pos |-> 0, out |-> 0, room |-> 0]
    /\ calls = 0 /\ resets = 0
    /\ finished = FALSE /\ level = ZU_LEVEL_DEFAULT
    /\ asked = CodecTable[job.codec].level_default
    /\ enc = NoState
    /\ last = Answer("none", ZU_OK, NotAsked, 0)
    /\ result = Running

LevelAsked(lv, otherwise) == IF lv = ZU_LEVEL_DEFAULT THEN otherwise ELSE lv

\* zu_encoder_new: `state` is what the codec's constructor builds.  When
\* memory runs out the loops return at once.
Open(state) ==
    /\ pc = "open"
    /\ \/ /\ pc' = "call"
          /\ enc' = state
          /\ level' = job.level
          /\ asked' = LevelAsked(job.level, asked)
          /\ last' = Answer("new", ZU_OK, ZU_OK, 0)
          /\ UNCHANGED result
       \/ /\ pc' = "closed"
          /\ last' = Answer("new", ZU_ERR_MEMORY, ZU_ERR_MEMORY, 0)
          /\ result' = ZU_ERR_MEMORY
          /\ UNCHANGED <<enc, level, asked>>
    /\ UNCHANGED <<job, fed, pos, out, flush, call, calls, resets, finished>>

----------------------------------------------------------------------------
\* The window of the call about to be made.
Enter(room) ==
    /\ call' = [pos |-> pos, out |-> Len(out), room |-> room]
    /\ pc' = "process"
    /\ UNCHANGED <<job, pos, out, calls, resets, finished, level, asked, enc,
                   last, result>>

\* zu_int_run_whole's choice: the end first, then the flush interval.
WholeFlush ==
    IF fed' >= job.n THEN ZU_FINISH
    ELSE IF job.flush_every > 0 /\ (calls + 1) % job.flush_every = 0 THEN ZU_FLUSH
    ELSE ZU_RUN

\* zu_int_run_whole: a new slice only once the previous one is spent.
CallWhole ==
    /\ pc = "call" /\ job.driver = "whole"
    /\ fed' = IF pos = fed THEN fed + Least(job.n - fed, job.in_chunk) ELSE fed
    /\ flush' = WholeFlush
    /\ Enter(job.room)

\* zu_int_reserve could not make room.
ReserveFails ==
    /\ pc = "call" /\ job.driver = "whole"
    /\ result' = ZU_ERR_MEMORY
    /\ pc' = "close"
    /\ UNCHANGED <<job, fed, pos, out, flush, call, calls, resets, finished,
                   level, asked, enc, last>>

\* zu_int_one_shot: all the input, what is left of the buffer.
CallOneShot ==
    /\ pc = "call" /\ job.driver = "one_shot"
    /\ fed' = job.n
    /\ flush' = ZU_FINISH
    /\ Enter(job.room - Len(out))

\* A C caller: any more input, any window, any flush.  The end, once
\* announced, is not taken back, and after an error he resets or gives up.
CallByCaller ==
    /\ pc = "call" /\ job.driver = "caller" /\ calls < job.max_calls
    /\ result = Running
    /\ IF flush = ZU_FINISH
         THEN UNCHANGED <<fed, flush>>
         ELSE fed' \in fed .. job.n /\ flush' \in Flush
    /\ \E room \in 0 .. job.room : Enter(room)

----------------------------------------------------------------------------
(***************************************************************************)
(* zu_encoder_process around the codec, and the rest of the loop's body.   *)
(***************************************************************************)
AvailIn  == fed - pos
AvailOut == call.room - (Len(out) - call.out)
Offered  == [i \in 1 .. AvailIn |-> pos + i]

\* Mutant: an ended stream is not remembered.
RefusesFlushOnly == flush = ZU_FLUSH /\ ~CodecTable[job.codec].can_flush

HandleRefuses == Refused(CodecTable[job.codec], finished, flush)

Asked == pc = "process" /\ ~HandleRefuses

\* The codec goes round its loop again.
Continue(p, o, e) ==
    /\ pos' = p /\ out' = o /\ enc' = e
    /\ UNCHANGED <<job, pc, fed, flush, call, calls, resets, finished, level,
                   asked, last, result>>

MayGoOn(status) == status \in {ZU_OK, ZU_NEED_INPUT, ZU_NEED_OUTPUT}

\* zu_int_run_whole after the call: it refuses to spin on a codec that waits
\* for input there is none of.
WholeResult(status, p, o) ==
    IF ~MayGoOn(status) THEN status
    ELSE IF Len(o) = call.out /\ fed >= job.n /\ status = ZU_NEED_INPUT
      THEN ZU_ERR_INTERNAL
    ELSE Running

\* Mutant: a full buffer is taken for a codec that is stuck.
OneShotFullIsStuck(status, p, o) ==
    IF status = ZU_STREAM_END THEN ZU_OK
    ELSE IF ~MayGoOn(status) THEN status
    ELSE IF Len(o) = call.out /\ p = call.pos THEN ZU_ERR_INTERNAL
    ELSE IF status = ZU_NEED_OUTPUT /\ Len(o) = job.room THEN ZU_ERR_OUTPUT_LIMIT
    ELSE Running

\* zu_int_one_shot after the call.
OneShotResult(status, p, o) ==
    IF status = ZU_STREAM_END THEN ZU_OK
    ELSE IF ~MayGoOn(status) THEN status
    ELSE IF status = ZU_NEED_OUTPUT /\ Len(o) = job.room THEN ZU_ERR_OUTPUT_LIMIT
    ELSE IF Len(o) = call.out /\ p = call.pos THEN ZU_ERR_INTERNAL
    ELSE Running

\* The C caller keeps an error of the codec in mind: its stream is lost.
ResultAfter(status, st, p, o) ==
    CASE job.driver = "whole" -> WholeResult(status, p, o)
      [] job.driver = "one_shot" -> OneShotResult(status, p, o)
      [] job.driver = "caller" -> IF st \in Errors THEN st ELSE Running

\* The loops only count calls for the flush interval.
CallsAfter ==
    IF job.driver = "caller" THEN calls + 1
    ELSE IF job.flush_every > 0 THEN (calls + 1) % job.flush_every ELSE 0

\* process() returns `status`, the codec having answered st.
Answered(status, st, p, o, e) ==
    /\ pos' = p /\ out' = o /\ enc' = e
    /\ finished' = (finished \/ st = ZU_STREAM_END)
    /\ last' = Answer("process", status, st, fed - p)
    /\ calls' = CallsAfter
    /\ result' = ResultAfter(status, st, p, o)
    /\ pc' = IF result' = Running \/ job.driver = "caller" THEN "call" ELSE "close"
    /\ UNCHANGED <<job, fed, flush, call, resets, level, asked>>

Return(st, p, o, e) == Answered(st, st, p, o, e)

\* The handle answers alone.
Refuses ==
    /\ pc = "process" /\ HandleRefuses
    /\ Answered(Refusal(finished, AvailIn), NotAsked, pos, out, enc)

----------------------------------------------------------------------------
\* A reset that leaves the stream as it was.
ResetFails(status, st, e) ==
    /\ last' = Answer("reset", status, st, 0)
    /\ enc' = e
    /\ UNCHANGED <<fed, pos, out, flush, call, finished, level, asked, result>>

\* The levels of a reset; NULL options repeat the handle's.
ResetLevels == LevelsTried \cup {level, ZU_LEVEL_DEFAULT}

\* zu_encoder_reset by the C caller, who then encodes the input again.
\* outcomes[lv] are the codec's: each a status and the state it leaves.
ResetByCaller(outcomes) ==
    /\ pc = "call" /\ job.driver = "caller" /\ resets < job.max_resets
    /\ resets' = resets + 1
    /\ \E lv \in ResetLevels :
         IF ~CheckLevel(CodecTable[job.codec], lv)
           THEN ResetFails(ZU_ERR_INVALID_ARGUMENT, NotAsked, enc)
           ELSE \E r \in outcomes[lv] :
                  IF r[1] # ZU_OK THEN ResetFails(r[1], r[1], r[2])
                  ELSE /\ last' = Answer("reset", ZU_OK, ZU_OK, 0)
                       /\ enc' = r[2]
                       /\ fed' = 0 /\ pos' = 0 /\ out' = <<>>
                       /\ flush' = ZU_RUN
                       /\ call' = [pos |-> 0, out |-> 0, room |-> 0]
                       /\ finished' = FALSE
                       /\ level' = lv
                       /\ asked' = LevelAsked(lv, asked)
                       /\ result' = Running
    /\ UNCHANGED <<job, pc, calls>>

\* The caller has had enough.
Stop ==
    /\ pc = "call" /\ job.driver = "caller"
    /\ pc' = "close"
    /\ UNCHANGED <<job, fed, pos, out, flush, call, calls, resets, finished,
                   level, asked, enc, last, result>>

\* zu_encoder_free.
Close ==
    /\ pc = "close"
    /\ pc' = "closed"
    /\ last' = Answer("free", ZU_OK, NotAsked, 0)
    /\ UNCHANGED <<job, fed, pos, out, flush, call, calls, resets, finished,
                   level, asked, enc, result>>

Returned == pc = "closed" /\ UNCHANGED encVars

LoopStep == \/ CallWhole \/ ReserveFails \/ CallOneShot \/ CallByCaller
            \/ Refuses \/ Stop \/ Close

----------------------------------------------------------------------------
(***************************************************************************)
(* The handle these loops drive, as ZuEncoder specifies it.                *)
(***************************************************************************)
OptionsGiven ==
    [size : {"full"}, codec : DOMAIN CodecTable,
     level : {j.level : j \in Jobs} \cup LevelsTried \cup {ZU_LEVEL_DEFAULT}]

SizesOffered == UNION {0 .. j.n : j \in Jobs}

Handle == INSTANCE ZuEncoder WITH
    Codecs   <- DOMAIN CodecTable,
    Vtable   <- CodecTable,
    Given    <- OptionsGiven,
    SrcSizes <- SizesOffered,
    handle   <- IF pc \in {"open", "closed"} THEN "none" ELSE "live",
    vtable   <- job.codec,
    codec    <- job.codec
=============================================================================
