-------------------------- MODULE ZuEncoderProofs --------------------------
(***************************************************************************)
(* Proofs about the encoder handle, for every registry, every option       *)
(* struct, every level axis and every codec.                               *)
(***************************************************************************)
EXTENDS ZuEncoder, TLAPS

EntryPoints == {"none", "new", "process", "reset", "free"}

\* A recorded answer of an entry point is one of Answers.
LEMMA AnswerType ==
    ASSUME NEW op \in EntryPoints, NEW status \in Status,
           NEW st \in Status \cup {NotAsked}, NEW left \in Nat
    PROVE  Answer(op, status, st, left) \in Answers
BY DEF Answer, Answers, EntryPoints

\* Every status constant a rule of the handle returns is a zu_status.
LEMMA StatusMembers ==
    /\ ZU_OK \in Status /\ ZU_STREAM_END \in Status
    /\ ZU_ERR_INVALID_ARGUMENT \in Status /\ ZU_ERR_UNSUPPORTED \in Status
BY DEF Status, Progress, Errors

\* The handle's own answer to a process() call is a zu_status.
LEMMA RefusalType ==
    ASSUME NEW fin, NEW left \in Nat
    PROVE  Refusal(fin, left) \in Status
BY StatusMembers DEF Refusal

\* The fields of an option struct.
LEMMA GivenFields ==
    ASSUME NEW g \in Given
    PROVE  g.codec \in Codecs /\ g.level \in Int
<1>1. g \in GivenOpts
  BY EncoderAssumption
<1>. QED  BY <1>1 DEF GivenOpts

----------------------------------------------------------------------------
(***************************************************************************)
(* The invariant: a reset compares with the codec the handle is bound to,  *)
(* and that is a codec only while the types hold.                          *)
(***************************************************************************)
Inv == TypeOK /\ KeepsItsCodecAndLevel

\* Before any call there is no handle.
LEMMA InitInv == Init => Inv
<1>. SUFFICES ASSUME Init PROVE Inv
  OBVIOUS
<1>1. last \in Answers
  BY AnswerType, StatusMembers DEF Init, EntryPoints
<1>2. TypeOK
  BY <1>1, LevelAssumption DEF Init, TypeOK
<1>. QED  BY <1>2 DEF Init, Inv, KeepsItsCodecAndLevel

\* A call that changes nothing keeps the invariant.
LEMMA RefuseKeepsInv ==
    ASSUME Inv, NEW op \in EntryPoints, NEW status \in Status,
           NEW st \in Status \cup {NotAsked}, NEW left \in Nat,
           Refuse(op, status, st, left)
    PROVE  Inv'
<1>1. last' \in Answers
  BY AnswerType DEF Refuse
<1>2. TypeOK'
  BY <1>1 DEF Inv, TypeOK, Refuse, stream
<1>3. KeepsItsCodecAndLevel'
  BY DEF Inv, KeepsItsCodecAndLevel, Refuse, stream
<1>. QED  BY <1>2, <1>3 DEF Inv

\* zu_encoder_new: a handle is bound to the codec and the level it checked.
LEMMA NewKeepsInv ==
    ASSUME Inv, NEW g \in Given, NEW st \in Status, New(g, st)
    PROVE  Inv'
<1>1. CASE Refuse("new", ZU_ERR_INVALID_ARGUMENT, NotAsked, 0)
  BY <1>1, RefuseKeepsInv, StatusMembers DEF EntryPoints
<1>2. CASE Refuse("new", ZU_ERR_UNSUPPORTED, NotAsked, 0)
  BY <1>2, RefuseKeepsInv, StatusMembers DEF EntryPoints
<1>3. CASE Refuse("new", st, st, 0)
  BY <1>3, RefuseKeepsInv DEF EntryPoints
<1>4. CASE /\ Resolves(g.codec) /\ CheckLevel(Vtable[g.codec], g.level)
           /\ handle' = "live" /\ vtable' = g.codec /\ codec' = g.codec
           /\ level' = g.level /\ finished' = FALSE
           /\ last' = Answer("new", ZU_OK, st, 0)
  <2>1. last' \in Answers
    BY <1>4, AnswerType, StatusMembers DEF EntryPoints
  <2>2. TypeOK'
    BY <1>4, <2>1, GivenFields DEF TypeOK
  <2>3. KeepsItsCodecAndLevel'
    BY <1>4 DEF KeepsItsCodecAndLevel, Resolves, CheckLevel, NoLevels
  <2>. QED  BY <2>2, <2>3 DEF Inv
<1>. QED  BY <1>1, <1>2, <1>3, <1>4 DEF New

\* zu_encoder_process, the codec asked: its status is remembered or not.
LEMMA ProcessKeepsInv ==
    ASSUME Inv, NEW flush \in Flush, NEW left \in Lefts, NEW st \in Status,
           Process(flush, left, st)
    PROVE  Inv'
<1>1. left \in Nat
  BY EncoderAssumption DEF Lefts
<1>2. last' \in Answers
  BY <1>1, AnswerType DEF Process, EntryPoints
<1>3. finished' \in BOOLEAN
  BY DEF Process, FinishedAfter
<1>4. TypeOK'
  BY <1>2, <1>3 DEF Inv, TypeOK, Process
<1>5. KeepsItsCodecAndLevel'
  BY DEF Inv, KeepsItsCodecAndLevel, Process
<1>. QED  BY <1>4, <1>5 DEF Inv

\* zu_encoder_reset: the level is one of the bound codec's, the codec stays.
LEMMA ResetToKeepsInv ==
    ASSUME Inv, handle = "live", NEW c \in Codecs, NEW lv \in Int,
           NEW st \in Status, ResetTo(c, lv, st)
    PROVE  Inv'
<1>1. CASE Refuse("reset", ZU_ERR_INVALID_ARGUMENT, NotAsked, 0)
  BY <1>1, RefuseKeepsInv, StatusMembers DEF EntryPoints
<1>2. CASE Refuse("reset", ZU_ERR_UNSUPPORTED, NotAsked, 0)
  BY <1>2, RefuseKeepsInv, StatusMembers DEF EntryPoints
<1>3. CASE Refuse("reset", st, st, 0)
  BY <1>3, RefuseKeepsInv DEF EntryPoints
<1>4. CASE /\ c = codec /\ CheckLevel(Vtable[vtable], lv)
           /\ level' = lv /\ codec' = c /\ finished' = FALSE
           /\ last' = Answer("reset", ZU_OK, st, 0)
           /\ UNCHANGED <<handle, vtable>>
  <2>1. last' \in Answers
    BY <1>4, AnswerType, StatusMembers DEF EntryPoints
  <2>2. TypeOK'
    BY <1>4, <2>1 DEF Inv, TypeOK
  <2>3. KeepsItsCodecAndLevel'
    BY <1>4 DEF Inv, KeepsItsCodecAndLevel, Resolves, CheckLevel, NoLevels
  <2>. QED  BY <2>2, <2>3 DEF Inv
<1>. QED  BY <1>1, <1>2, <1>3, <1>4 DEF ResetTo

\* Every step of the handle preserves the invariant.
LEMMA NextInv == Inv /\ [Next]_vars => Inv'
<1>. SUFFICES ASSUME Inv, [Next]_vars PROVE Inv'
  OBVIOUS
<1>1. CASE \E g \in Given, st \in Status : New(g, st)
  BY <1>1, NewKeepsInv
<1>2. CASE ProcessMalformed
  BY <1>2, RefuseKeepsInv, StatusMembers DEF ProcessMalformed, EntryPoints
<1>3. ASSUME NEW src \in SrcSizes, NEW flush \in Flush, ProcessRefused(src, flush)
      PROVE  Inv'
  <2>1. src \in Nat
    BY EncoderAssumption
  <2>2. Refusal(finished, src) \in Status
    BY <2>1, RefusalType
  <2>. QED  BY <1>3, <2>1, <2>2, RefuseKeepsInv DEF ProcessRefused, EntryPoints
<1>4. CASE \E flush \in Flush, left \in Lefts, st \in Status : Process(flush, left, st)
  BY <1>4, ProcessKeepsInv
<1>5. ASSUME NEW g \in Given, NEW st \in Status, Reset(g, st)
      PROVE  Inv'
  <2>1. CASE Refuse("reset", ZU_ERR_INVALID_ARGUMENT, NotAsked, 0)
    BY <2>1, RefuseKeepsInv, StatusMembers DEF EntryPoints
  <2>2. CASE ResetTo(g.codec, g.level, st)
    BY <1>5, <2>2, ResetToKeepsInv, GivenFields DEF Reset
  <2>. QED  BY <1>5, <2>1, <2>2 DEF Reset
<1>6. ASSUME NEW st \in Status, ResetSame(st)
      PROVE  Inv'
  BY <1>6, ResetToKeepsInv DEF ResetSame, Inv, TypeOK
<1>7. CASE Free
  <2>1. last' \in Answers
    BY <1>7, AnswerType, StatusMembers DEF Free, EntryPoints
  <2>2. TypeOK'
    BY <1>7, <2>1 DEF Free, Inv, TypeOK
  <2>. QED  BY <1>7, <2>2 DEF Free, Inv, KeepsItsCodecAndLevel
<1>8. CASE UNCHANGED vars
  BY <1>8 DEF vars, Inv, TypeOK, KeepsItsCodecAndLevel, Resolves,
              CheckLevel, NoLevels
<1>. QED  BY <1>1, <1>2, <1>3, <1>4, <1>5, <1>6, <1>7, <1>8 DEF Next

\* The invariant holds throughout.
LEMMA SpecInv == Spec => []Inv
BY InitInv, NextInv, PTL DEF Spec

----------------------------------------------------------------------------
\* The handle is well-formed through any sequence of calls.
THEOREM TypeCorrect == Spec => []TypeOK
BY SpecInv, PTL DEF Inv

\* zu_encoder_reset never moves a handle to another codec, nor to a level its
\* codec did not advertise.
THEOREM CodecAndLevelKept == Spec => []KeepsItsCodecAndLevel
BY SpecInv, PTL DEF Inv

\* An ended stream is reopened by an accepted reset and by nothing else.
THEOREM EndFinal == Spec => EndIsFinal
<1> DEFINE Kept ==
      (handle = "live" /\ finished /\ handle' = "live") =>
          \/ finished' /\ (last'.op = "process" => last'.st = NotAsked)
          \/ last'.op = "reset" /\ last'.status = ZU_OK
<1>1. Inv /\ [Next]_vars => [Kept]_vars
  <2>. SUFFICES ASSUME Inv, Next, handle = "live", finished, handle' = "live"
                PROVE  \/ finished' /\ (last'.op = "process" => last'.st = NotAsked)
                       \/ last'.op = "reset" /\ last'.status = ZU_OK
    OBVIOUS
  <2>1. ASSUME NEW op, NEW status, NEW st, NEW left, Refuse(op, status, st, left),
               op = "process" => st = NotAsked
        PROVE  finished' /\ (last'.op = "process" => last'.st = NotAsked)
    BY <2>1 DEF Refuse, stream, Answer
  <2>2. ASSUME NEW c, NEW lv, NEW st, ResetTo(c, lv, st)
        PROVE  \/ finished' /\ (last'.op = "process" => last'.st = NotAsked)
               \/ last'.op = "reset" /\ last'.status = ZU_OK
    <3>1. CASE Refuse("reset", ZU_ERR_INVALID_ARGUMENT, NotAsked, 0)
      BY <3>1, <2>1
    <3>2. CASE Refuse("reset", ZU_ERR_UNSUPPORTED, NotAsked, 0)
      BY <3>2, <2>1
    <3>3. CASE Refuse("reset", st, st, 0)
      BY <3>3, <2>1
    <3>4. CASE last' = Answer("reset", ZU_OK, st, 0)
      BY <3>4 DEF Answer
    <3>. QED  BY <2>2, <3>1, <3>2, <3>3, <3>4 DEF ResetTo
  <2>3. CASE \E g \in Given, st \in Status : New(g, st)
    BY <2>3 DEF New
  <2>4. CASE ProcessMalformed
    BY <2>4, <2>1 DEF ProcessMalformed
  <2>5. CASE \E src \in SrcSizes, flush \in Flush : ProcessRefused(src, flush)
    BY <2>5, <2>1 DEF ProcessRefused
  <2>6. CASE \E flush \in Flush, left \in Lefts, st \in Status : Process(flush, left, st)
    BY <2>6 DEF Process, Refused
  <2>7. ASSUME NEW g \in Given, NEW st \in Status, Reset(g, st)
        PROVE  \/ finished' /\ (last'.op = "process" => last'.st = NotAsked)
               \/ last'.op = "reset" /\ last'.status = ZU_OK
    BY <2>7, <2>1, <2>2 DEF Reset
  <2>8. ASSUME NEW st \in Status, ResetSame(st)
        PROVE  \/ finished' /\ (last'.op = "process" => last'.st = NotAsked)
               \/ last'.op = "reset" /\ last'.status = ZU_OK
    BY <2>8, <2>2 DEF ResetSame
  <2>9. CASE Free
    BY <2>9 DEF Free
  <2>. QED  BY <2>3, <2>4, <2>5, <2>6, <2>7, <2>8, <2>9 DEF Next
<1>. QED  BY <1>1, SpecInv, PTL DEF Spec, EndIsFinal
=============================================================================
