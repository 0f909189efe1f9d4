----------------------------- MODULE ZuEncoder -----------------------------
(***************************************************************************)
(* The encoder handle of the C ABI (zu_encoder_new, _process, _reset and   *)
(* _free in zu_stream.c) around an arbitrary registered codec, which is    *)
(* the environment: it returns some zu_status, any one, at any time.  The  *)
(* decoder's counterpart is ZuDecoder; an encoder has no limits, but a     *)
(* level that a reset may change.                                          *)
(***************************************************************************)
EXTENDS EncoderRules

CONSTANTS
    Codecs,     \* codec identities a caller may name
    Vtable,     \* the registry, fixed while a handle lives
    Given,      \* the option structs callers pass
    SrcSizes    \* how many input bytes a process() call may offer

\* `size` is the caller's struct_size: too short to be legal, or the current one.
GivenOpts == [size : {"short", "full"}, codec : Codecs, level : Int]

ASSUME EncoderAssumption ==
    /\ Vtable \in [Codecs -> EncoderVtables]
    /\ Given \subseteq GivenOpts
    /\ SrcSizes \subseteq Nat

VARIABLES
    handle,     \* "none" or "live"
    vtable,     \* e->vtable: the codec the handle is bound to
    codec,      \* e->opts.codec
    level,      \* e->opts.level
    finished,   \* e->finished
    last        \* the call that returned last, and what it returned

vars == <<handle, vtable, codec, level, finished, last>>

stream == <<handle, vtable, codec, level, finished>>

Init ==
    /\ handle = "none"
    /\ vtable \in Codecs
    /\ codec = vtable
    /\ level = ZU_LEVEL_DEFAULT
    /\ finished = FALSE
    /\ last = Answer("none", ZU_OK, NotAsked, 0)

Resolves(c) == Vtable[c].registered /\ Vtable[c].can_encode

\* A call that returns `status` and leaves the stream as it was.
Refuse(op, status, st, left) ==
    /\ last' = Answer(op, status, st, left)
    /\ UNCHANGED stream

----------------------------------------------------------------------------
\* zu_encoder_new: `st` is the codec constructor's status; ZU_ERR_MEMORY
\* also stands for the handle's own calloc() failing.
New(g, st) ==
    /\ handle = "none"
    /\ IF g.size = "short"
         THEN Refuse("new", ZU_ERR_INVALID_ARGUMENT, NotAsked, 0)
       ELSE IF ~Resolves(g.codec)
         THEN Refuse("new", ZU_ERR_UNSUPPORTED, NotAsked, 0)
       ELSE IF ~CheckLevel(Vtable[g.codec], g.level)
         THEN Refuse("new", ZU_ERR_INVALID_ARGUMENT, NotAsked, 0)
       ELSE IF st # ZU_OK
         THEN Refuse("new", st, st, 0)
       ELSE /\ handle' = "live"
            /\ vtable' = g.codec
            /\ codec' = g.codec
            /\ level' = g.level
            /\ finished' = FALSE
            /\ last' = Answer("new", ZU_OK, st, 0)

\* A corrupt zu_buffer or an unknown flush value.
ProcessMalformed ==
    /\ handle = "live"
    /\ Refuse("process", ZU_ERR_INVALID_ARGUMENT, NotAsked, 0)

\* Mutant: a refused call moves the cursor, even of an empty buffer.
ProcessRefusedConsumes(src, flush) ==
    /\ handle = "live"
    /\ Refused(Vtable[vtable], finished, flush)
    /\ Refuse("process", Refusal(finished, src), NotAsked, src - 1)

\* Answered by the handle: nothing is consumed, the codec is not asked.
ProcessRefused(src, flush) ==
    /\ handle = "live"
    /\ Refused(Vtable[vtable], finished, flush)
    /\ Refuse("process", Refusal(finished, src), NotAsked, src)

FinishedAfter(st) == finished \/ st = ZU_STREAM_END

\* What a call may leave of the input it was offered.
Lefts == UNION {0 .. src : src \in SrcSizes}

\* One call of the codec that left `left` bytes and returned `st`.
Process(flush, left, st) ==
    /\ handle = "live"
    /\ ~Refused(Vtable[vtable], finished, flush)
    /\ finished' = FinishedAfter(st)
    /\ last' = Answer("process", st, st, left)
    /\ UNCHANGED <<handle, vtable, codec, level>>

----------------------------------------------------------------------------
\* Mutant: neither the codec nor the level is compared.
ResetUnchecked(c, lv, st) ==
    IF ~Vtable[vtable].has_reset
      THEN Refuse("reset", ZU_ERR_UNSUPPORTED, NotAsked, 0)
    ELSE IF st # ZU_OK
      THEN Refuse("reset", st, st, 0)
    ELSE /\ level' = lv
         /\ codec' = c
         /\ finished' = FALSE
         /\ last' = Answer("reset", ZU_OK, st, 0)
         /\ UNCHANGED <<handle, vtable>>

\* Mutant: the stream is reopened before the codec has agreed.
ResetTooEarly(c, lv, st) ==
    IF c # codec \/ ~CheckLevel(Vtable[vtable], lv)
      THEN Refuse("reset", ZU_ERR_INVALID_ARGUMENT, NotAsked, 0)
    ELSE IF ~Vtable[vtable].has_reset
      THEN Refuse("reset", ZU_ERR_UNSUPPORTED, NotAsked, 0)
    ELSE /\ finished' = FALSE
         /\ level' = IF st = ZU_OK THEN lv ELSE level
         /\ last' = Answer("reset", st, st, 0)
         /\ UNCHANGED <<handle, vtable, codec>>

\* What zu_encoder_reset is given: a new struct, or NULL for the old options.
\* On a failure the handle keeps its options and its end.
ResetTo(c, lv, st) ==
    IF c # codec \/ ~CheckLevel(Vtable[vtable], lv)
      THEN Refuse("reset", ZU_ERR_INVALID_ARGUMENT, NotAsked, 0)
    ELSE IF ~Vtable[vtable].has_reset
      THEN Refuse("reset", ZU_ERR_UNSUPPORTED, NotAsked, 0)
    ELSE IF st # ZU_OK
      THEN Refuse("reset", st, st, 0)
    ELSE /\ level' = lv
         /\ codec' = c
         /\ finished' = FALSE
         /\ last' = Answer("reset", ZU_OK, st, 0)
         /\ UNCHANGED <<handle, vtable>>

Reset(g, st) ==
    /\ handle = "live"
    /\ IF g.size = "short"
         THEN Refuse("reset", ZU_ERR_INVALID_ARGUMENT, NotAsked, 0)
         ELSE ResetTo(g.codec, g.level, st)

ResetSame(st) ==
    /\ handle = "live"
    /\ ResetTo(codec, level, st)

Free ==
    /\ handle = "live"
    /\ handle' = "none"
    /\ last' = Answer("free", ZU_OK, NotAsked, 0)
    /\ UNCHANGED <<vtable, codec, level, finished>>

Next ==
    \/ handle = "none" /\ \E g \in Given, st \in Status : New(g, st)
    \/ ProcessMalformed
    \/ \E src \in SrcSizes, flush \in Flush : ProcessRefused(src, flush)
    \/ \E flush \in Flush, left \in Lefts, st \in Status : Process(flush, left, st)
    \/ \E g \in Given, st \in Status : Reset(g, st)
    \/ \E st \in Status : ResetSame(st)
    \/ Free

Spec == Init /\ [][Next]_vars

----------------------------------------------------------------------------
TypeOK ==
    /\ handle \in {"none", "live"}
    /\ vtable \in Codecs
    /\ codec \in Codecs
    /\ level \in Int
    /\ finished \in BOOLEAN
    /\ last \in Answers

\* A live handle keeps to one codec that can encode, and to a level that
\* codec advertised, through any sequence of resets: zu_encoder_reset checks
\* the new level against the vtable it is bound to and refuses another codec.
KeepsItsCodecAndLevel ==
    handle = "live" =>
        /\ codec = vtable
        /\ Resolves(vtable)
        /\ CheckLevel(Vtable[vtable], level)

\* Once ended, a stream stays ended, the codec unasked, until a reset that
\* the codec accepted: a reset that fails reopens nothing.
EndIsFinal ==
    [][(handle = "live" /\ finished /\ handle' = "live") =>
          \/ finished' /\ (last'.op = "process" => last'.st = NotAsked)
          \/ last'.op = "reset" /\ last'.status = ZU_OK]_vars
=============================================================================
