-------------------------- MODULE ZuDecoderProofs --------------------------
(***************************************************************************)
(* Proofs about the decoder handle, for every registry, every option       *)
(* struct, every buffer size and every width of the counters.              *)
(***************************************************************************)
EXTENDS ZuDecoder, TLAPS

----------------------------------------------------------------------------
(***************************************************************************)
(* The driver's rules.                                                     *)
(***************************************************************************)

\* The chain of early returns answers with a zu_status.
LEMMA DriverStatusType ==
    ASSUME NEW o, NEW c, c.st \in Status
    PROVE  DriverStatus(o, c) \in Status
BY DEF DriverStatus, OverStatus, Status, Progress, Errors,
       ZU_ERR_INVALID_DATA, ZU_ERR_TRAILING, ZU_ERR_OUTPUT_LIMIT, ZU_ERR_RATIO_LIMIT

\* The ceiling is a byte count.
LEMMA CeilingType ==
    ASSUME NEW o \in LimitOpts
    PROVE  Ceiling(o) \in Nat
BY U64MaxAssumption DEF LimitOpts, Ceiling

\* What the shrunken window leaves room for: a codec that respects the window
\* cannot carry a total that is within the ceiling past it.
LEMMA WindowKeepsCeiling ==
    ASSUME NEW o \in LimitOpts, HasCeiling(o),
           NEW t \in Nat, t <= Ceiling(o),
           NEW room \in Nat, NEW p \in Nat, p <= Allowance(o, t, room)
    PROVE  t + p <= Ceiling(o)
BY CeilingType DEF Allowance, Capped, Remaining

\* Either limit alone, rather than the tighter of the two.
LEMMA WithinBothLimits ==
    ASSUME NEW o \in LimitOpts, NEW t \in Nat
    PROVE  (HasCeiling(o) => t <= Ceiling(o)) <=>
              /\ o.max_output # 0 => t <= o.max_output
              /\ o.has_expected => t <= o.expected_size
BY U64MaxAssumption DEF LimitOpts, HasCeiling, Ceiling, ExpectedBinds

\* A product that the overflow test refuses to compute is larger than the
\* counters can hold.
LEMMA SaturationIsSound ==
    ASSUME NEW n \in Nat, NEW d \in Nat \ {0}, NEW k \in Nat, k > n \div d
    PROVE  n < k * d
<1>1. n \div d \in Nat /\ n = d * (n \div d) + (n % d) /\ n % d \in 0 .. d - 1
  OBVIOUS
<1>2. PICK q \in Nat : q = n \div d
  BY <1>1
<1>3. PICK m \in Nat : k = q + 1 + m
  <2>1. k - q - 1 \in Nat
    BY <1>2
  <2>. QED  BY <2>1
<1>4. k * d = d * q + d + m * d
  BY <1>3
<1>5. m * d \in Nat
  OBVIOUS
<1>. QED  BY <1>1, <1>2, <1>4, <1>5

\* The 64-bit ratio check agrees with unbounded arithmetic.
LEMMA RatioIsExact ==
    ASSUME NEW o \in LimitOpts, o.max_ratio # 0,
           NEW i \in 0 .. U64Max, NEW t \in 0 .. U64Max
    PROVE  t > RatioAllowed(o, i) <=> t > i * o.max_ratio
<1>1. o.max_ratio \in Nat \ {0} /\ U64Max \in Nat /\ i \in Nat /\ t \in Nat
  BY U64MaxAssumption DEF LimitOpts
<1>2. CASE i = 0
  BY <1>1, <1>2 DEF RatioAllowed
<1>3. CASE i # 0 /\ i > U64Max \div o.max_ratio
  <2>1. U64Max < i * o.max_ratio
    BY <1>1, <1>3, SaturationIsSound
  <2>2. i * o.max_ratio \in Nat
    BY <1>1
  <2>. QED  BY <1>1, <1>3, <2>1, <2>2 DEF RatioAllowed
<1>4. CASE i # 0 /\ ~(i > U64Max \div o.max_ratio)
  BY <1>4 DEF RatioAllowed
<1>. QED  BY <1>2, <1>3, <1>4

----------------------------------------------------------------------------
(***************************************************************************)
(* Type correctness.                                                       *)
(***************************************************************************)
Ops == {"none", "new", "process", "reset", "free"}

\* A recorded answer of an entry point is one of Answers.
LEMMA AnswerType ==
    ASSUME NEW op \in Ops, NEW status \in Status,
           NEW st \in Status \cup {NotAsked}, NEW left \in Nat
    PROVE  Answer(op, status, st, left) \in Answers
BY DEF Answer, Answers, Ops

\* Every status constant a rule of the handle returns is a zu_status.
LEMMA StatusMembers ==
    /\ ZU_OK \in Status /\ ZU_STREAM_END \in Status
    /\ ZU_ERR_INVALID_ARGUMENT \in Status /\ ZU_ERR_UNSUPPORTED \in Status
    /\ ZU_ERR_TRAILING \in Status
BY DEF Status, Progress, Errors

\* A short option struct is completed to a full one.
LEMMA CopyOptsType ==
    ASSUME NEW g \in Given
    PROVE  CopyOpts(g) \in LimitOpts /\ g.codec \in Codecs
<1>1. g \in GivenOpts
  BY DecoderAssumption
<1>2. g.lim \in LimitOpts /\ g.codec \in Codecs
  BY <1>1 DEF GivenOpts
<1>3. [g.lim EXCEPT !.expected_size = 0] \in LimitOpts
  BY <1>2, U64MaxAssumption DEF LimitOpts
<1>. QED  BY <1>2, <1>3 DEF CopyOpts

\* A call that changes nothing keeps the types.
LEMMA RefuseKeepsTypes ==
    ASSUME TypeOK, NEW op \in Ops, NEW status \in Status,
           NEW st \in Status \cup {NotAsked}, NEW left \in Nat,
           Refuse(op, status, st, left)
    PROVE  TypeOK'
<1>1. last' \in Answers
  BY AnswerType DEF Refuse
<1>. QED  BY <1>1 DEF Refuse, stream, TypeOK

\* zu_decoder_new leaves a well-formed handle, or none.
LEMMA NewKeepsTypes ==
    ASSUME TypeOK, NEW g \in Given, NEW st \in Status, New(g, st)
    PROVE  TypeOK'
<1>1. CASE Refuse("new", ZU_ERR_INVALID_ARGUMENT, NotAsked, 0)
  BY <1>1, RefuseKeepsTypes, StatusMembers DEF Ops
<1>2. CASE Refuse("new", ZU_ERR_UNSUPPORTED, NotAsked, 0)
  BY <1>2, RefuseKeepsTypes, StatusMembers DEF Ops
<1>3. CASE Refuse("new", st, st, 0)
  BY <1>3, RefuseKeepsTypes DEF Ops
<1>4. CASE /\ handle' = "live" /\ vtable' = g.codec /\ codec' = g.codec
           /\ opts' = CopyOpts(g) /\ finished' = FALSE
           /\ total_in' = 0 /\ total_out' = 0
           /\ last' = Answer("new", ZU_OK, st, 0)
  <2>1. last' \in Answers
    BY <1>4, AnswerType, StatusMembers DEF Ops
  <2>2. finished' \in BOOLEAN
    BY <1>4, Zenon
  <2>3. total_in' \in 0 .. U64Max /\ total_out' \in 0 .. U64Max
    BY <1>4, U64MaxAssumption
  <2>. QED  BY <1>4, <2>1, <2>2, <2>3, CopyOptsType, Zenon DEF TypeOK
<1>. QED  BY <1>1, <1>2, <1>3, <1>4 DEF New

\* The record of a process() call, named for the proofs.
CallOf(src, room, used, produced, st) ==
    [st        |-> st,
     capped    |-> Capped(opts, total_out, room),
     allowance |-> Allowance(opts, total_out, room),
     produced  |-> produced,
     left      |-> src - used,
     total_in  |-> total_in + used,
     total_out |-> total_out + produced]

\* A call of the codec keeps the counters within their width.
LEMMA ProcessKeepsTypes ==
    ASSUME TypeOK,
           NEW src \in SrcSizes, NEW room \in DstSizes, NEW flush \in Flush,
           NEW st \in Status, NEW used \in 0 .. src, NEW produced \in 0 .. room,
           Process(src, room, flush, used, produced, st)
    PROVE  TypeOK'
<1>. DEFINE status == DriverStatus(opts, CallOf(src, room, used, produced, st))
<1>1. status \in Status
  BY DriverStatusType DEF CallOf
<1>2. last' = Answer("process", status, st, src - used)
  BY DEF Process, MayAsk, Account, CallOf
<1>3. src - used \in Nat
  BY DecoderAssumption
<1>4. last' \in Answers
  <2>. HIDE DEF status
  <2>. QED  BY <1>1, <1>2, <1>3, AnswerType DEF Ops
<1>5. total_in' \in 0 .. U64Max /\ total_out' \in 0 .. U64Max
  BY DecoderAssumption, U64MaxAssumption DEF Process, MayAsk, Account, WithinCounters, TypeOK
<1>6. finished' \in BOOLEAN
  BY DEF Process, MayAsk, Account
<1>. QED  BY <1>4, <1>5, <1>6 DEF Process, MayAsk, Account, TypeOK

\* A reset, refused or not, keeps the types.
LEMMA ResetToKeepsTypes ==
    ASSUME TypeOK, NEW c \in Codecs, NEW lim \in LimitOpts, NEW st \in Status,
           ResetTo(c, lim, st)
    PROVE  TypeOK'
<1>1. CASE Refuse("reset", ZU_ERR_INVALID_ARGUMENT, NotAsked, 0)
  BY <1>1, RefuseKeepsTypes, StatusMembers DEF Ops
<1>2. CASE Refuse("reset", ZU_ERR_UNSUPPORTED, NotAsked, 0)
  BY <1>2, RefuseKeepsTypes, StatusMembers DEF Ops
<1>3. CASE Refuse("reset", st, st, 0)
  BY <1>3, RefuseKeepsTypes DEF Ops
<1>4. CASE /\ opts' = lim /\ codec' = c /\ finished' = FALSE
           /\ total_in' = 0 /\ total_out' = 0
           /\ last' = Answer("reset", ZU_OK, st, 0)
           /\ UNCHANGED <<handle, vtable>>
  <2>1. last' \in Answers
    BY <1>4, AnswerType, StatusMembers DEF Ops
  <2>2. finished' \in BOOLEAN
    BY <1>4, Zenon
  <2>3. total_in' \in 0 .. U64Max /\ total_out' \in 0 .. U64Max
    BY <1>4, U64MaxAssumption
  <2>. QED  BY <1>4, <2>1, <2>2, <2>3, Zenon DEF TypeOK
<1>. QED  BY <1>1, <1>2, <1>3, <1>4 DEF ResetTo

\* Every call of the four entry points returns a zu_status and leaves the
\* handle well-formed, whatever the codec answers.
THEOREM TypeCorrect == Spec => []TypeOK
<1>1. Init => TypeOK
  <2>. SUFFICES ASSUME Init PROVE TypeOK
    OBVIOUS
  <2>1. last \in Answers
    BY AnswerType, StatusMembers DEF Init, Ops
  <2>2. NoLimits \in LimitOpts
    BY U64MaxAssumption DEF NoLimits, LimitOpts
  <2>3. finished \in BOOLEAN
    BY Zenon DEF Init
  <2>4. total_in \in 0 .. U64Max /\ total_out \in 0 .. U64Max
    BY U64MaxAssumption DEF Init
  <2>. QED  BY <2>1, <2>2, <2>3, <2>4, Zenon DEF Init, TypeOK
<1>2. TypeOK /\ [Next]_vars => TypeOK'
  <2>. SUFFICES ASSUME TypeOK, [Next]_vars PROVE TypeOK'
    OBVIOUS
  <2>1. ASSUME NEW g \in Given, NEW st \in Status, New(g, st)
        PROVE  TypeOK'
    BY <2>1, NewKeepsTypes
  <2>2. CASE ProcessMalformed
    BY <2>2, RefuseKeepsTypes, StatusMembers DEF ProcessMalformed, Ops
  <2>3. ASSUME NEW src \in SrcSizes, ProcessFinished(src)
        PROVE  TypeOK'
    <3>1. PICK status \in Status : Refuse("process", status, NotAsked, src)
      BY <2>3, StatusMembers DEF ProcessFinished
    <3>. QED  BY <3>1, RefuseKeepsTypes, DecoderAssumption DEF Ops
  <2>4. ASSUME NEW src \in SrcSizes, NEW flush \in Flush,
               ProcessCannotFlush(src, flush)
        PROVE  TypeOK'
    BY <2>4, RefuseKeepsTypes, StatusMembers, DecoderAssumption
       DEF ProcessCannotFlush, Ops
  <2>5. ASSUME NEW src \in SrcSizes, NEW room \in DstSizes, NEW flush \in Flush,
               NEW st \in Status, NEW used \in 0 .. src, NEW produced \in 0 .. room,
               Process(src, room, flush, used, produced, st)
        PROVE  TypeOK'
    BY <2>5, ProcessKeepsTypes
  <2>6. ASSUME NEW g \in Given, NEW st \in Status, Reset(g, st)
        PROVE  TypeOK'
    <3>1. CASE ~CheckDecOpts(g)
      BY <2>6, <3>1, RefuseKeepsTypes, StatusMembers DEF Reset, Ops
    <3>2. CASE CheckDecOpts(g)
      BY <2>6, <3>2, ResetToKeepsTypes, CopyOptsType DEF Reset
    <3>. QED  BY <3>1, <3>2
  <2>7. ASSUME NEW st \in Status, ResetSame(st)
        PROVE  TypeOK'
    BY <2>7, ResetToKeepsTypes DEF ResetSame, TypeOK
  <2>8. CASE Free
    <3>1. last' \in Answers
      BY <2>8, AnswerType, StatusMembers DEF Free, Ops
    <3>. QED  BY <2>8, <3>1 DEF Free, TypeOK
  <2>9. CASE UNCHANGED vars
    BY <2>9 DEF vars, TypeOK
  <2>. QED  BY <2>1, <2>2, <2>3, <2>4, <2>5, <2>6, <2>7, <2>8, <2>9 DEF Next
<1>. QED  BY <1>1, <1>2, PTL DEF Spec

----------------------------------------------------------------------------
(***************************************************************************)
(* Safety.  The ceiling is inductive together with the types; it is what   *)
(* makes the counters trustworthy for the other invariants.                *)
(***************************************************************************)

\* The bytes written to a stream never pass either output limit, for any
\* codec that respects the window the driver shows it.
THEOREM CeilingIsHeld == Spec => []CeilingHeld
<1>1. Init => CeilingHeld
  BY DEF Init, CeilingHeld, NoLimits
<1>2. TypeOK /\ CeilingHeld /\ [Next]_vars => CeilingHeld'
  <2>. SUFFICES ASSUME TypeOK, CeilingHeld, [Next]_vars PROVE CeilingHeld'
    OBVIOUS
  <2>1. CASE UNCHANGED <<opts, total_out>>
    BY <2>1 DEF CeilingHeld
  <2>2. ASSUME opts' \in LimitOpts, total_out' = 0
        PROVE  CeilingHeld'
    BY <2>2, U64MaxAssumption DEF CeilingHeld, LimitOpts
  <2>3. ASSUME NEW g \in Given, NEW st \in Status, New(g, st)
        PROVE  CeilingHeld'
    BY <2>1, <2>2, <2>3, CopyOptsType DEF New, Refuse, stream
  <2>4. ASSUME NEW src \in SrcSizes, NEW room \in DstSizes, NEW flush \in Flush,
               NEW st \in Status, NEW used \in 0 .. src, NEW produced \in 0 .. room,
               Process(src, room, flush, used, produced, st)
        PROVE  CeilingHeld'
    <3>1. /\ opts \in LimitOpts /\ opts' = opts
          /\ total_out \in Nat /\ room \in Nat /\ produced \in Nat
          /\ produced <= Allowance(opts, total_out, room)
          /\ total_out' = total_out + produced
      BY <2>4, DecoderAssumption, U64MaxAssumption DEF Process, MayAsk, Account, TypeOK
    <3>2. HasCeiling(opts) => total_out <= Ceiling(opts)
      BY <3>1, WithinBothLimits DEF CeilingHeld
    <3>3. HasCeiling(opts) => total_out + produced <= Ceiling(opts)
      BY <3>1, <3>2, WindowKeepsCeiling
    <3>4. total_out + produced \in Nat
      BY <3>1
    <3>. QED  BY <3>1, <3>3, <3>4, WithinBothLimits DEF CeilingHeld
  <2>5. ASSUME NEW c \in Codecs, NEW lim \in LimitOpts, NEW st \in Status,
               ResetTo(c, lim, st)
        PROVE  CeilingHeld'
    BY <2>1, <2>2, <2>5 DEF ResetTo, Refuse, stream
  <2>6. ASSUME NEW g \in Given, NEW st \in Status, Reset(g, st)
        PROVE  CeilingHeld'
    BY <2>1, <2>5, <2>6, CopyOptsType DEF Reset, Refuse, stream
  <2>7. ASSUME NEW st \in Status, ResetSame(st)
        PROVE  CeilingHeld'
    BY <2>5, <2>7 DEF ResetSame, TypeOK
  <2>8. CASE \/ ProcessMalformed
             \/ \E src \in SrcSizes : ProcessFinished(src)
             \/ \E src \in SrcSizes, flush \in Flush : ProcessCannotFlush(src, flush)
             \/ Free
             \/ UNCHANGED vars
    BY <2>1, <2>8 DEF ProcessMalformed, ProcessFinished, ProcessCannotFlush, Free,
                      Refuse, stream, vars
  <2>. QED  BY <2>3, <2>4, <2>6, <2>7, <2>8 DEF Next
<1>. QED  BY <1>1, <1>2, TypeCorrect, PTL DEF Spec

\* A live handle keeps to the one codec it was opened for.
THEOREM OneCodec == Spec => []BoundToOneCodec
<1>1. Init => BoundToOneCodec
  BY DEF Init, BoundToOneCodec
<1>2. BoundToOneCodec /\ [Next]_vars => BoundToOneCodec'
  <2>. SUFFICES ASSUME BoundToOneCodec, [Next]_vars PROVE BoundToOneCodec'
    OBVIOUS
  <2>1. CASE UNCHANGED <<handle, codec, vtable>>
    BY <2>1 DEF BoundToOneCodec, Resolves
  <2>2. ASSUME NEW g \in Given, NEW st \in Status, New(g, st)
        PROVE  BoundToOneCodec'
    <3>1. CASE UNCHANGED stream
      BY <2>1, <3>1 DEF stream
    <3>2. CASE Resolves(g.codec) /\ vtable' = g.codec /\ codec' = g.codec
      BY <3>2 DEF BoundToOneCodec, Resolves
    <3>. QED  BY <2>2, <3>1, <3>2 DEF New, Refuse
  <2>3. ASSUME NEW c, NEW lim, NEW st, ResetTo(c, lim, st)
        PROVE  BoundToOneCodec'
    BY <2>1, <2>3 DEF ResetTo, Refuse, stream
  <2>4. CASE Free
    BY <2>4 DEF Free, BoundToOneCodec
  <2>5. CASE \E g \in Given, st \in Status : Reset(g, st)
    BY <2>1, <2>3, <2>5 DEF Reset, Refuse, stream
  <2>6. CASE \E st \in Status : ResetSame(st)
    BY <2>3, <2>6 DEF ResetSame
  <2>7. CASE \/ ProcessMalformed
             \/ \E src \in SrcSizes : ProcessFinished(src)
             \/ \E src \in SrcSizes, flush \in Flush : ProcessCannotFlush(src, flush)
             \/ UNCHANGED vars
    BY <2>1, <2>7 DEF ProcessMalformed, ProcessFinished, ProcessCannotFlush,
                      Refuse, stream, vars
  <2>8. ASSUME NEW src, NEW room, NEW flush, NEW st, NEW used, NEW produced,
               Process(src, room, flush, used, produced, st)
        PROVE  BoundToOneCodec'
    BY <2>1, <2>8 DEF Process, MayAsk, Account
  <2>. QED  BY <2>2, <2>4, <2>5, <2>6, <2>7, <2>8 DEF Next
<1>. QED  BY <1>1, <1>2, PTL DEF Spec

----------------------------------------------------------------------------
(***************************************************************************)
(* What the caller is told.                                                *)
(***************************************************************************)

\* Reaching the end of the chain with the codec's own ZU_STREAM_END.
LEMMA SuccessRules ==
    ASSUME NEW o, NEW c, c.st = ZU_STREAM_END, DriverStatus(o, c) = ZU_STREAM_END
    PROVE  /\ o.has_expected => c.total_out = o.expected_size
           /\ o.reject => ~(c.left > 0)
           /\ ~RatioExceeded(o, c.st, c.total_in, c.total_out)
BY DEF DriverStatus, OverStatus, ZU_STREAM_END, ZU_ERR_INVALID_DATA,
       ZU_ERR_TRAILING, ZU_ERR_OUTPUT_LIMIT, ZU_ERR_RATIO_LIMIT, ZU_NEED_OUTPUT

\* The branches that invent ZU_ERR_OUTPUT_LIMIT.
LEMMA OutputLimitRules ==
    ASSUME NEW o, NEW c, c.st # ZU_ERR_OUTPUT_LIMIT,
           DriverStatus(o, c) = ZU_ERR_OUTPUT_LIMIT
    PROVE  \/ /\ c.capped
              /\ ~ExpectedBinds(o)
              /\ c.produced = c.allowance \/ c.allowance = 0
           \/ o.max_output # 0 /\ c.total_out > o.max_output
BY DEF DriverStatus, OverStatus, ZU_STREAM_END, ZU_ERR_INVALID_DATA,
       ZU_ERR_TRAILING, ZU_ERR_OUTPUT_LIMIT, ZU_ERR_RATIO_LIMIT

\* The branch that invents ZU_ERR_RATIO_LIMIT.
LEMMA RatioLimitRules ==
    ASSUME NEW o, NEW c, c.st # ZU_ERR_RATIO_LIMIT,
           DriverStatus(o, c) = ZU_ERR_RATIO_LIMIT
    PROVE  RatioExceeded(o, c.st, c.total_in, c.total_out)
BY DEF DriverStatus, OverStatus, ZU_STREAM_END, ZU_ERR_INVALID_DATA,
       ZU_ERR_TRAILING, ZU_ERR_OUTPUT_LIMIT, ZU_ERR_RATIO_LIMIT

\* What a process() call that reached the codec leaves behind.
LEMMA ProcessEffect ==
    ASSUME TypeOK,
           NEW src \in SrcSizes, NEW room \in DstSizes, NEW flush \in Flush,
           NEW st \in Status, NEW used \in 0 .. src, NEW produced \in 0 .. room,
           Process(src, room, flush, used, produced, st)
    PROVE  /\ opts \in LimitOpts /\ opts' = opts
           /\ total_out \in Nat /\ room \in Nat /\ produced \in Nat
           /\ produced <= Allowance(opts, total_out, room)
           /\ total_out' = total_out + produced
           /\ total_in' = total_in + used
           /\ total_in' \in 0 .. U64Max /\ total_out' \in 0 .. U64Max
           /\ last'.op = "process" /\ last'.st = st
           /\ last'.left = src - used /\ src - used \in Nat
           /\ last'.status = DriverStatus(opts, CallOf(src, room, used, produced, st))
<1>1. TypeOK'
  BY ProcessKeepsTypes
<1>2. /\ opts' = opts
      /\ produced <= Allowance(opts, total_out, room)
      /\ total_out' = total_out + produced
      /\ total_in' = total_in + used
      /\ last' = Answer("process",
                        DriverStatus(opts, CallOf(src, room, used, produced, st)),
                        st, src - used)
  BY DEF Process, MayAsk, Account, CallOf
<1>3. total_out \in Nat /\ room \in Nat /\ produced \in Nat /\ src - used \in Nat
  BY DecoderAssumption, U64MaxAssumption DEF TypeOK
<1>. QED  BY <1>1, <1>2, <1>3 DEF TypeOK, Answer

\* Only Process answers for the codec.
LEMMA OnlyProcessAsks ==
    ASSUME Next, last'.op = "process", last'.st # NotAsked
    PROVE  \E src \in SrcSizes, room \in DstSizes, flush \in Flush, st \in Status :
             \E used \in 0 .. src, produced \in 0 .. room :
                Process(src, room, flush, used, produced, st)
<1>1. ASSUME NEW g, NEW st, New(g, st)
      PROVE  last'.op = "new"
  BY <1>1 DEF New, Refuse, Answer
<1>2. ProcessMalformed => last'.st = NotAsked
  BY DEF ProcessMalformed, Refuse, Answer
<1>3. ASSUME NEW src, ProcessFinished(src)
      PROVE  last'.st = NotAsked
  BY <1>3 DEF ProcessFinished, Refuse, Answer
<1>4. ASSUME NEW src, NEW flush, ProcessCannotFlush(src, flush)
      PROVE  last'.st = NotAsked
  BY <1>4 DEF ProcessCannotFlush, Refuse, Answer
<1>5. ASSUME NEW g, NEW st, Reset(g, st)
      PROVE  last'.op = "reset"
  BY <1>5 DEF Reset, ResetTo, Refuse, Answer
<1>6. ASSUME NEW st, ResetSame(st)
      PROVE  last'.op = "reset"
  BY <1>6 DEF ResetSame, ResetTo, Refuse, Answer
<1>7. Free => last'.op = "free"
  BY DEF Free, Answer
<1>. QED  BY <1>1, <1>2, <1>3, <1>4, <1>5, <1>6, <1>7 DEF Next

\* A caller told that the stream ended got exactly the promised size, within
\* the ratio in unbounded arithmetic, with nothing after it if it asked.
THEOREM SuccessEarned == Spec => []SuccessIsEarned
<1>1. Init => SuccessIsEarned
  BY DEF Init, SuccessIsEarned, Answer
<1>2. TypeOK /\ SuccessIsEarned /\ [Next]_vars => SuccessIsEarned'
  <2>. SUFFICES ASSUME TypeOK, SuccessIsEarned, [Next]_vars PROVE SuccessIsEarned'
    OBVIOUS
  <2>1. CASE UNCHANGED vars
    BY <2>1 DEF vars, SuccessIsEarned
  <2>2. CASE Next
    <3>. SUFFICES ASSUME last'.op = "process", last'.status = ZU_STREAM_END,
                         last'.st = ZU_STREAM_END
                  PROVE  /\ opts'.has_expected => total_out' = opts'.expected_size
                         /\ opts'.max_ratio # 0 => total_out' <= total_in' * opts'.max_ratio
                         /\ opts'.reject => last'.left = 0
      BY DEF SuccessIsEarned
    <3>1. PICK src \in SrcSizes, room \in DstSizes, flush \in Flush, st \in Status :
            \E used \in 0 .. src, produced \in 0 .. room :
               Process(src, room, flush, used, produced, st)
      BY <2>2, OnlyProcessAsks DEF ZU_STREAM_END, NotAsked
    <3>2. PICK used \in 0 .. src, produced \in 0 .. room :
            Process(src, room, flush, used, produced, st)
      BY <3>1
    <3>. DEFINE c == CallOf(src, room, used, produced, st)
    <3>3. /\ c.st = st /\ c.left = src - used
          /\ c.total_in = total_in + used /\ c.total_out = total_out + produced
      BY DEF CallOf
    <3>4. /\ opts \in LimitOpts /\ opts' = opts
          /\ total_out' = c.total_out /\ total_in' = c.total_in
          /\ total_in' \in 0 .. U64Max /\ total_out' \in 0 .. U64Max
          /\ last'.st = c.st /\ last'.left = c.left /\ c.left \in Nat
          /\ last'.status = DriverStatus(opts, c)
      BY <3>2, <3>3, ProcessEffect
    <3>. HIDE DEF c
    <3>5. /\ opts.has_expected => c.total_out = opts.expected_size
          /\ opts.reject => ~(c.left > 0)
          /\ ~RatioExceeded(opts, c.st, c.total_in, c.total_out)
      BY <3>4, SuccessRules
    <3>6. ASSUME opts.max_ratio # 0
          PROVE  total_out' <= total_in' * opts.max_ratio
      <4>1. opts.max_ratio \in Nat /\ total_in' \in Nat /\ total_out' \in Nat
        BY <3>4, U64MaxAssumption DEF LimitOpts
      <4>2. total_in' * opts.max_ratio \in Nat
        BY <4>1
      <4>3. total_out' = 0 \/ ~(total_out' > RatioAllowed(opts, total_in'))
        BY <3>4, <3>5, <3>6, <4>1 DEF RatioExceeded, ZU_STREAM_END, ZU_ERR_OUTPUT_LIMIT
      <4>4. total_out' = 0 \/ ~(total_out' > total_in' * opts.max_ratio)
        BY <3>4, <3>6, <4>3, RatioIsExact
      <4>. QED  BY <4>1, <4>2, <4>4
    <3>. QED  BY <3>4, <3>5, <3>6
  <2>. QED  BY <2>1, <2>2
<1>. QED  BY <1>1, <1>2, TypeCorrect, PTL DEF Spec

\* A limit the driver reports on its own account was really reached.
THEOREM FairBlame == Spec => []BlameIsFair
<1>1. Init => BlameIsFair
  BY DEF Init, BlameIsFair, Answer
<1>2. TypeOK /\ CeilingHeld /\ CeilingHeld' /\ BlameIsFair /\ [Next]_vars => BlameIsFair'
  <2>. SUFFICES ASSUME TypeOK, CeilingHeld, CeilingHeld', BlameIsFair, [Next]_vars
                PROVE  BlameIsFair'
    OBVIOUS
  <2>1. CASE UNCHANGED vars
    BY <2>1 DEF vars, BlameIsFair
  <2>2. ASSUME NEW src \in SrcSizes, NEW room \in DstSizes, NEW flush \in Flush,
               NEW st \in Status, NEW used \in 0 .. src, NEW produced \in 0 .. room,
               Process(src, room, flush, used, produced, st)
        PROVE  BlameIsFair'
    <3>. DEFINE c == CallOf(src, room, used, produced, st)
    <3>1. /\ c.st = st
          /\ c.capped = Capped(opts, total_out, room)
          /\ c.allowance = Allowance(opts, total_out, room)
          /\ c.produced = produced
          /\ c.total_in = total_in + used /\ c.total_out = total_out + produced
      BY DEF CallOf
    <3>2. /\ opts \in LimitOpts /\ opts' = opts
          /\ total_out \in Nat /\ room \in Nat /\ produced \in Nat
          /\ produced <= c.allowance
          /\ total_out' = total_out + produced
          /\ total_out' = c.total_out /\ total_in' = c.total_in
          /\ total_in' \in 0 .. U64Max /\ total_out' \in 0 .. U64Max
          /\ last'.st = c.st /\ last'.status = DriverStatus(opts, c)
      BY <2>2, <3>1, ProcessEffect
    <3>. HIDE DEF c
    <3>3. ASSUME c.st # ZU_ERR_OUTPUT_LIMIT,
                 DriverStatus(opts, c) = ZU_ERR_OUTPUT_LIMIT
          PROVE  opts.max_output # 0 /\ total_out' = opts.max_output
      <4>1. CASE opts.max_output # 0 /\ c.total_out > opts.max_output
        BY <3>2, <4>1, U64MaxAssumption DEF CeilingHeld, LimitOpts
      <4>2. CASE /\ c.capped
                 /\ ~ExpectedBinds(opts)
                 /\ c.produced = c.allowance \/ c.allowance = 0
        <5>1. HasCeiling(opts) /\ Remaining(opts, total_out) < room
          BY <3>1, <4>2 DEF Capped
        <5>2. opts.max_output # 0 /\ Ceiling(opts) = opts.max_output
          BY <4>2, <5>1 DEF HasCeiling, ExpectedBinds, Ceiling
        <5>3. total_out <= opts.max_output /\ opts.max_output \in Nat
          BY <3>2, <5>2, U64MaxAssumption DEF CeilingHeld, LimitOpts
        <5>4. Remaining(opts, total_out) = opts.max_output - total_out
          BY <3>2, <5>2, <5>3 DEF Remaining
        <5>5. c.allowance = opts.max_output - total_out
          BY <3>1, <4>2, <5>4 DEF Allowance
        <5>6. produced = c.allowance
          BY <3>1, <3>2, <4>2
        <5>. QED  BY <3>2, <5>2, <5>3, <5>5, <5>6
      <4>. QED  BY <3>3, <4>1, <4>2, OutputLimitRules
    <3>4. ASSUME c.st # ZU_ERR_RATIO_LIMIT,
                 DriverStatus(opts, c) = ZU_ERR_RATIO_LIMIT
          PROVE  opts.max_ratio # 0 /\ total_out' > total_in' * opts.max_ratio
      <4>1. opts.max_ratio # 0 /\ total_out' > RatioAllowed(opts, total_in')
        BY <3>2, <3>4, RatioLimitRules DEF RatioExceeded
      <4>. QED  BY <3>2, <4>1, RatioIsExact
    <3>. QED  BY <3>2, <3>3, <3>4 DEF BlameIsFair
  <2>3. CASE Next /\ ~(last'.op = "process" /\ last'.st # NotAsked)
    <3>. SUFFICES ASSUME last'.op = "process"
                  PROVE  last'.status \notin {ZU_ERR_OUTPUT_LIMIT, ZU_ERR_RATIO_LIMIT}
      BY DEF BlameIsFair
    <3>1. last'.status \in {ZU_ERR_INVALID_ARGUMENT, ZU_ERR_TRAILING, ZU_STREAM_END,
                            ZU_ERR_UNSUPPORTED}
      <4>1. ASSUME NEW g, NEW st, New(g, st)
            PROVE  FALSE
        BY <4>1 DEF New, Refuse, Answer
      <4>2. CASE ProcessMalformed
        BY <4>2 DEF ProcessMalformed, Refuse, Answer
      <4>3. ASSUME NEW src, ProcessFinished(src)
            PROVE  last'.status \in {ZU_ERR_TRAILING, ZU_STREAM_END}
        BY <4>3 DEF ProcessFinished, Refuse, Answer
      <4>4. ASSUME NEW src, NEW flush, ProcessCannotFlush(src, flush)
            PROVE  last'.status = ZU_ERR_UNSUPPORTED
        BY <4>4 DEF ProcessCannotFlush, Refuse, Answer
      <4>5. ASSUME NEW src \in SrcSizes, NEW room \in DstSizes, NEW flush \in Flush,
                   NEW st \in Status, NEW used \in 0 .. src, NEW produced \in 0 .. room,
                   Process(src, room, flush, used, produced, st)
            PROVE  FALSE
        <5>1. last'.st = st
          BY <4>5, ProcessEffect
        <5>. QED  BY <2>3, <5>1 DEF Status, Progress, Errors, NotAsked, ZU_OK,
             ZU_NEED_INPUT, ZU_NEED_OUTPUT, ZU_STREAM_END, ZU_ERR_INVALID_ARGUMENT,
             ZU_ERR_UNSUPPORTED, ZU_ERR_INVALID_DATA, ZU_ERR_TRUNCATED,
             ZU_ERR_CHECKSUM, ZU_ERR_TRAILING, ZU_ERR_MEMORY, ZU_ERR_OUTPUT_LIMIT,
             ZU_ERR_RATIO_LIMIT, ZU_ERR_INTERNAL
      <4>6. ASSUME NEW g, NEW st, Reset(g, st)
            PROVE  FALSE
        BY <4>6 DEF Reset, ResetTo, Refuse, Answer
      <4>7. ASSUME NEW st, ResetSame(st)
            PROVE  FALSE
        BY <4>7 DEF ResetSame, ResetTo, Refuse, Answer
      <4>8. ~Free
        BY DEF Free, Answer
      <4>. QED  BY <2>3, <4>1, <4>2, <4>3, <4>4, <4>5, <4>6, <4>7, <4>8 DEF Next
    <3>. QED  BY <3>1 DEF ZU_ERR_INVALID_ARGUMENT, ZU_ERR_TRAILING, ZU_STREAM_END,
                          ZU_ERR_UNSUPPORTED, ZU_ERR_OUTPUT_LIMIT, ZU_ERR_RATIO_LIMIT
  <2>. QED  BY <2>1, <2>2, <2>3, OnlyProcessAsks
<1>. QED  BY <1>1, <1>2, TypeCorrect, CeilingIsHeld, PTL DEF Spec

\* Once the codec has ended the stream, process() neither moves a total nor
\* asks the codec, until a reset, and answers by the trailing policy alone.
THEOREM EndFinal == Spec => EndIsFinal
<1>. DEFINE Final == /\ UNCHANGED <<total_in, total_out>>
                     /\ last'.st = NotAsked
                     /\ last'.status \notin {ZU_OK, ZU_NEED_INPUT, ZU_NEED_OUTPUT}
                     /\ (opts.reject /\ last'.left > 0) <=> last'.status = ZU_ERR_TRAILING
<1>1. ASSUME [Next]_vars, handle = "live", finished, last'.op = "process"
      PROVE  UNCHANGED vars \/ Final
  <2>1. ASSUME NEW src, NEW room, NEW flush, NEW st, NEW used, NEW produced
        PROVE  ~Process(src, room, flush, used, produced, st)
    BY <1>1 DEF Process, MayAsk, Account
  <2>2. ASSUME NEW g, NEW st PROVE ~New(g, st)
    BY <1>1 DEF New
  <2>3. ASSUME NEW g, NEW st, Reset(g, st) PROVE FALSE
    BY <1>1, <2>3 DEF Reset, ResetTo, Refuse, Answer
  <2>4. ASSUME NEW st, ResetSame(st) PROVE FALSE
    BY <1>1, <2>4 DEF ResetSame, ResetTo, Refuse, Answer
  <2>5. Free => last'.op = "free"
    BY DEF Free, Answer
  <2>6. Next => Final
    <3>1. ASSUME NEW op, NEW status, NEW st, NEW left, Refuse(op, status, st, left)
          PROVE  /\ UNCHANGED <<total_in, total_out>>
                 /\ last'.status = status /\ last'.st = st /\ last'.left = left
      BY <3>1 DEF Refuse, Answer, stream
    <3>2. Next => \/ ProcessMalformed
                  \/ \E src \in SrcSizes : ProcessFinished(src)
                  \/ \E src \in SrcSizes, flush \in Flush : ProcessCannotFlush(src, flush)
      BY <1>1, <2>1, <2>2, <2>3, <2>4, <2>5 DEF Next
    <3>3. CASE ProcessMalformed
      BY <3>1, <3>3 DEF ProcessMalformed, ZU_OK, ZU_NEED_INPUT, ZU_NEED_OUTPUT,
                         ZU_ERR_TRAILING, ZU_ERR_INVALID_ARGUMENT
    <3>4. CASE \E src \in SrcSizes : ProcessFinished(src)
      BY <3>1, <3>4 DEF ProcessFinished, ZU_OK, ZU_NEED_INPUT, ZU_NEED_OUTPUT,
                         ZU_ERR_TRAILING, ZU_STREAM_END
    <3>. QED  BY <1>1, <3>2, <3>3, <3>4 DEF ProcessCannotFlush
  <2>. QED  BY <1>1, <2>6
<1>2. [Next]_vars => [(handle = "live" /\ finished /\ last'.op = "process") => Final]_vars
  BY <1>1
<1>. QED  BY <1>2, PTL DEF Spec, EndIsFinal
=============================================================================
