------------------------ MODULE LibraryDecodersProofs ------------------------
(***************************************************************************)
(* Proofs about the decoders of LibraryDecoders, for every input, slicing, *)
(* limit and constant of the search.                                       *)
(***************************************************************************)
EXTENDS LibraryDecoders, DecodeLoopProofs

----------------------------------------------------------------------------
(***************************************************************************)
(* What the first tokens of the input decode to.                           *)
(***************************************************************************)
LEMMA DecodedIsRun ==
    ASSUME NEW n
    PROVE  Decoded(n) = FlattenSeq(Run(0, n))
<1>1. [i \in 1 .. n |-> BytesOf(i)] = Run(0, n)
  BY DEF Run
<1>. QED  BY <1>1 DEF Decoded

\* The decoded bytes are bytes, and grow by what each token adds.
LEMMA DecodedType ==
    ASSUME NEW j \in Jobs, job = j, NEW n \in Nat, n <= Len(j.input)
    PROVE  Decoded(n) \in Seq(Nat) /\ Len(Decoded(n)) \in Nat
<1>1. Run(0, n) \in Seq(Seq(Nat))
  BY RunType
<1>2. Decoded(n) \in Seq(Nat)
  BY <1>1, DecodedIsRun, FlattenType
<1>. QED  BY <1>2

\* What p + n tokens decode to is what p do, then what the next n do.
LEMMA DecodedJoins ==
    ASSUME NEW j \in Jobs, job = j, NEW p \in Nat, NEW n \in Nat, p + n <= Len(j.input)
    PROVE  Decoded(p + n) = Decoded(p) \o FlattenSeq(Run(p, n))
<1>. DEFINE P == {m \in 0 .. n : Decoded(p + m) = Decoded(p) \o FlattenSeq(Run(p, m))}
<1>0. Decoded(p) \in Seq(Nat)
  BY DecodedType, JobTypes
<1>1. 0 \in P
  <2>1. Decoded(p) = Decoded(p) \o <<>> /\ p + 0 = p /\ 0 \in 0 .. n
    BY <1>0
  <2>2. Decoded(p + 0) = Decoded(p) \o FlattenSeq(Run(p, 0))
    BY <2>1, RunEmpty
  <2>. QED  BY <2>1, <2>2
<1>2. ASSUME NEW m \in 0 .. n, m \in P, m < n
      PROVE  m + 1 \in P
  <2>0. /\ m \in Nat /\ p + m \in Nat /\ p + m <= Len(j.input) /\ p + m + 1 <= Len(j.input)
        /\ 0 + (p + m) + 1 <= Len(j.input) /\ p + m + 1 \in 1 .. Len(j.input)
        /\ p + (m + 1) = (p + m) + 1 /\ 0 + (p + m) + 1 = p + m + 1
    BY <1>2, JobTypes
  <2>1. Decoded((p + m) + 1) = Decoded(p + m) \o BytesOf(p + m + 1)
    <3>1. FlattenSeq(Run(0, (p + m) + 1)) = FlattenSeq(Run(0, p + m)) \o BytesOf(0 + (p + m) + 1)
      BY <2>0, RunNext
    <3>. QED  BY <2>0, <3>1, DecodedIsRun
  <2>2. FlattenSeq(Run(p, m + 1)) = FlattenSeq(Run(p, m)) \o BytesOf(p + m + 1)
    BY <2>0, RunNext
  <2>3. /\ FlattenSeq(Run(p, m)) \in Seq(Nat) /\ BytesOf(p + m + 1) \in Seq(Nat)
    BY <2>0, RunBytes, TokenBytes
  <2>4. (Decoded(p) \o FlattenSeq(Run(p, m))) \o BytesOf(p + m + 1)
          = Decoded(p) \o (FlattenSeq(Run(p, m)) \o BytesOf(p + m + 1))
    BY <1>0, <2>3, JoinedAgain
  <2>5. Decoded(p + m) = Decoded(p) \o FlattenSeq(Run(p, m))
    BY <1>2
  <2>6. Decoded(p + (m + 1)) = Decoded(p) \o FlattenSeq(Run(p, m + 1))
    BY <2>0, <2>1, <2>2, <2>4, <2>5
  <2>. QED  BY <1>2, <2>0, <2>6
<1>3. \A m \in 0 .. n : m \in P
  <2>1. \A m \in 0 .. n : m \in P /\ m < n => m + 1 \in P
    BY <1>2
  <2>. HIDE DEF P
  <2>. QED  BY ONLY n \in Nat, <1>1, <2>1, UpTo
<1>. QED  BY <1>3

\* No block decodes to more than the format allows ...
LEMMA DecodedIsLimited ==
    ASSUME NEW j \in Jobs, job = j, j.wrap = "lz4block", NEW n \in Nat, n <= Len(j.input)
    PROVE  Len(Decoded(n)) <= n * Expand
<1>. DEFINE P == {m \in 0 .. n : Len(Decoded(m)) <= m * Expand}
<1>0. Expand \in Nat
  BY BlockSearchAssumption
<1>1. 0 \in P
  BY <1>0, DecodedIsRun, RunEmpty
<1>2. ASSUME NEW m \in 0 .. n, m \in P, m < n
      PROVE  m + 1 \in P
  <2>0. /\ m \in Nat /\ 0 + m + 1 <= Len(j.input) /\ m + 1 \in 1 .. Len(j.input)
        /\ 0 + m + 1 = m + 1 /\ m <= Len(j.input)
    BY <1>2, JobTypes
  <2>1. Decoded(m + 1) = Decoded(m) \o BytesOf(m + 1)
    BY <2>0, RunNext, DecodedIsRun
  <2>2. /\ Decoded(m) \in Seq(Nat) /\ BytesOf(m + 1) \in Seq(Nat)
        /\ Len(BytesOf(m + 1)) = j.input[m + 1][2] /\ j.input[m + 1][2] \in Nat
    BY <2>0, DecodedType, TokenBytes
  <2>3. Len(BytesOf(m + 1)) <= Expand
    BY <2>0, <2>2, ExpansionAssumption
  <2>4. Len(Decoded(m)) <= m * Expand
    BY <1>2
  <2>5. Len(Decoded(m + 1)) = Len(Decoded(m)) + Len(BytesOf(m + 1))
    BY <2>1, <2>2
  <2>6. (m + 1) * Expand = m * Expand + Expand /\ m * Expand \in Nat
    BY <1>0, <2>0
  <2>7. Len(Decoded(m + 1)) <= (m + 1) * Expand
    BY <1>0, <2>2, <2>3, <2>4, <2>5, <2>6
  <2>. QED  BY <1>2, <2>0, <2>7
<1>3. \A m \in 0 .. n : m \in P
  <2>1. \A m \in 0 .. n : m \in P /\ m < n => m + 1 \in P
    BY <1>2
  <2>. HIDE DEF P
  <2>. QED  BY ONLY n \in Nat, <1>1, <2>1, UpTo
<1>. QED  BY <1>3

\* ... and a byte of the identity codec decodes to one.
LEMMA IdentityBytes ==
    ASSUME NEW j \in Jobs, job = j, j.wrap = "identity",
           NEW p \in Nat, NEW n \in Nat, p + n <= Len(j.input)
    PROVE  Len(FlattenSeq(Run(p, n))) = n
<1>. DEFINE P == {m \in 0 .. n : Len(FlattenSeq(Run(p, m))) = m}
<1>1. 0 \in P
  BY RunEmpty
<1>2. ASSUME NEW m \in 0 .. n, m \in P, m < n
      PROVE  m + 1 \in P
  <2>0. /\ m \in Nat /\ p + m + 1 <= Len(j.input) /\ p + m + 1 \in 1 .. Len(j.input)
        /\ p + m <= Len(j.input)
    BY <1>2, JobTypes
  <2>1. FlattenSeq(Run(p, m + 1)) = FlattenSeq(Run(p, m)) \o BytesOf(p + m + 1)
    BY <2>0, RunNext
  <2>2. /\ FlattenSeq(Run(p, m)) \in Seq(Nat) /\ BytesOf(p + m + 1) \in Seq(Nat)
        /\ Len(BytesOf(p + m + 1)) = 1
    BY <2>0, RunBytes, TokenBytes, IdentityAssumption
  <2>3. Len(FlattenSeq(Run(p, m + 1))) = Len(FlattenSeq(Run(p, m))) + 1
    <3>1. Len(FlattenSeq(Run(p, m)) \o BytesOf(p + m + 1))
            = Len(FlattenSeq(Run(p, m))) + Len(BytesOf(p + m + 1))
      BY <2>2, ConcatProperties
    <3>. QED  BY <2>1, <2>2, <3>1
  <2>. QED  BY <1>2, <2>0, <2>3
<1>3. \A m \in 0 .. n : m \in P
  <2>1. \A m \in 0 .. n : m \in P /\ m < n => m + 1 \in P
    BY <1>2
  <2>. HIDE DEF P
  <2>. QED  BY ONLY n \in Nat, <1>1, <2>1, UpTo
<1>. QED  BY <1>3

----------------------------------------------------------------------------
(***************************************************************************)
(* lz4-block.  The inductive invariant: nothing comes out while the input  *)
(* is gathered, a search runs only within one call, over all of the input  *)
(* and within its ceiling, and what is delivered is a block that fits.     *)
(***************************************************************************)
BlockRecord == [in : Nat, cap : Nat, stage_cap : Nat, stage : Seq(Nat),
                stage_pos : Nat, done : BOOLEAN]

BlockTyped == b \in BlockRecord /\ b.stage_pos <= Len(b.stage)

Gathering ==
    IsBlock /\ b.done = FALSE =>
        /\ b.in = pos /\ b.in <= MaxBlockInput
        /\ out = <<>> /\ b.stage = <<>> /\ b.stage_pos = 0

\* What a block may make the search allocate.
GrowthBound == Max({SearchFloor, 4 * Len(job.input), 4 * BlockSize})

Searching ==
    IsBlock /\ b.cap > 0 =>
        /\ pc = "codec" /\ flush = ZU_FINISH /\ b.done = FALSE
        /\ job.opts.has_expected = FALSE
        /\ pos = Len(job.input) /\ b.in > 0
        /\ b.cap <= SearchCeiling(b.in) /\ b.cap <= GrowthBound

\* The whole input is a block that every limit allows.
Allowed ==
    /\ BlockFits
    /\ job.opts.has_expected => BlockSize = job.opts.expected_size
    /\ job.opts.max_output # 0 => BlockSize <= job.opts.max_output

Undelivered(d) == SubSeq(d.stage, d.stage_pos + 1, Len(d.stage))

Delivering ==
    IsBlock /\ b.done = TRUE =>
        /\ pos = Len(job.input) /\ Allowed
        /\ out \o Undelivered(b) = Decoded(Len(job.input))

BlockInv ==
    /\ BlockTyped /\ Gathering /\ Searching /\ Delivering
    /\ StageIsBounded /\ BlockVerdictIsExact

----------------------------------------------------------------------------
(***************************************************************************)
(* The search's arithmetic.                                                *)
(***************************************************************************)
\* The greatest of two, and of three.
LEMMA MaxOfTwo ==
    ASSUME NEW m \in Nat, NEW n \in Nat
    PROVE  /\ Max({m, n}) \in {m, n} /\ m <= Max({m, n}) /\ n <= Max({m, n})
<1>1. \E x \in {m, n} : \A y \in {m, n} : x >= y
  <2>1. CASE m >= n
    BY <2>1
  <2>2. CASE n >= m
    BY <2>2
  <2>. QED  BY <2>1, <2>2
<1>2. /\ Max({m, n}) \in {m, n} /\ \A y \in {m, n} : Max({m, n}) >= y
  BY <1>1 DEF Max
<1>. QED  BY <1>2

\* The largest of three numbers is one of them and none is larger.
LEMMA MaxOfThree ==
    ASSUME NEW k \in Nat, NEW m \in Nat, NEW n \in Nat
    PROVE  /\ Max({k, m, n}) \in Nat
           /\ k <= Max({k, m, n}) /\ m <= Max({k, m, n}) /\ n <= Max({k, m, n})
<1>1. \E x \in {k, m, n} : \A y \in {k, m, n} : x >= y
  <2>1. CASE k >= m /\ k >= n
    BY <2>1
  <2>2. CASE m >= k /\ m >= n
    BY <2>2
  <2>3. CASE n >= k /\ n >= m
    BY <2>3
  <2>. QED  BY <2>1, <2>2, <2>3
<1>2. /\ Max({k, m, n}) \in {k, m, n} /\ \A y \in {k, m, n} : Max({k, m, n}) >= y
  BY <1>1 DEF Max
<1>. QED  BY <1>2

\* The constants of the search, as numbers.
LEMMA SearchConstants ==
    /\ SearchFloor \in Nat /\ SearchFloor > 0 /\ Expand \in Nat /\ Expand > 0
    /\ Slack \in Nat /\ Slack > 0 /\ IntMax \in Nat /\ IntMax > 0 /\ MaxBlockInput \in Nat
BY BlockSearchAssumption

\* What is sound of the input is a part of it.
LEMMA SoundPartRange ==
    ASSUME NEW n \in Nat
    PROVE  SoundPart(n) \in 0 .. n
<1>. DEFINE wrong == {i \in 1 .. n : ~Sound(i) \/ (job.input[i][1] = "end" /\ i < n)}
<1>1. CASE wrong = {}
  BY <1>1 DEF SoundPart
<1>2. CASE wrong # {}
  <2>1. \E x \in wrong : \A y \in wrong : x <= y
    <3>1. wrong \in SUBSET Nat
      OBVIOUS
    <3>. HIDE DEF wrong
    <3>. QED  BY <1>2, <3>1, LeastMember
  <2>2. Min(wrong) \in wrong
    <3>. HIDE DEF wrong
    <3>. QED  BY <2>1 DEF Min
  <2>3. Min(wrong) \in 1 .. n
    <3>1. wrong \subseteq 1 .. n
      OBVIOUS
    <3>. HIDE DEF wrong
    <3>. QED  BY <2>2, <3>1
  <2>4. SoundPart(n) = IF Sound(Min(wrong)) THEN Min(wrong) ELSE Min(wrong) - 1
    BY <1>2 DEF SoundPart
  <2>. HIDE DEF wrong
  <2>. QED  BY <2>3, <2>4
<1>. QED  BY <1>1, <1>2

\* The ceiling is within an int and within the caller's limit.
LEMMA SearchCeilingFits ==
    ASSUME LoopInv, NEW n \in Nat
    PROVE  /\ FormatCeiling(n) \in Nat /\ FormatCeiling(n) > 0 /\ FormatCeiling(n) <= IntMax
           /\ SearchCeiling(n) \in Nat /\ SearchCeiling(n) > 0
           /\ SearchCeiling(n) <= FormatCeiling(n)
           /\ job.opts.max_output \in Nat
           /\ job.opts.max_output # 0 => SearchCeiling(n) <= job.opts.max_output
<1>1. n * Expand \in Nat
  BY SearchConstants
<1>2. FormatCeiling(n) \in Nat /\ FormatCeiling(n) > 0 /\ FormatCeiling(n) <= IntMax
  BY <1>1, SearchConstants DEF FormatCeiling, LeastOf
<1>3. job.opts.max_output \in Nat
  BY LoopFacts DEF LimitOpts
<1>. QED  BY <1>2, <1>3 DEF SearchCeiling, Limited

\* The first capacity, and each next one, is within the ceiling; the first
\* is within the floor or four times the input, the next within four times
\* the last.
LEMMA FirstCapFits ==
    ASSUME LoopInv, NEW n \in Nat
    PROVE  /\ FirstCap(n) \in Nat /\ FirstCap(n) > 0 /\ FirstCap(n) <= SearchCeiling(n)
           /\ FirstCap(n) <= n * 4 \/ FirstCap(n) <= SearchFloor
<1>1. n * 4 \in Nat
  OBVIOUS
<1>2. Max({n * 4, SearchFloor}) \in {n * 4, SearchFloor} /\ SearchFloor <= Max({n * 4, SearchFloor})
  BY <1>1, MaxOfTwo, SearchConstants
<1>3. SearchCeiling(n) \in Nat /\ SearchCeiling(n) > 0
  BY SearchCeilingFits
<1>. HIDE DEF Max
<1>. QED  BY <1>1, <1>2, <1>3, SearchConstants DEF FirstCap, LeastOf

\* The next size tried is at most four times the last and below the ceiling.
LEMMA NextCapFits ==
    ASSUME LoopInv, NEW n \in Nat, NEW cap \in Nat, cap > 0, cap <= SearchCeiling(n)
    PROVE  /\ NextCap(n, cap) \in Nat /\ NextCap(n, cap) > 0
           /\ NextCap(n, cap) <= SearchCeiling(n) /\ NextCap(n, cap) <= 4 * cap
<1>1. SearchCeiling(n) \in Nat /\ SearchCeiling(n) > 0
  BY SearchCeilingFits
<1>2. cap > SearchCeiling(n) \div 4 => SearchCeiling(n) <= 4 * cap
  BY <1>1
<1>3. cap <= SearchCeiling(n) \div 4 => cap * 4 <= SearchCeiling(n)
  BY <1>1
<1>. QED  BY <1>1, <1>2, <1>3 DEF NextCap

----------------------------------------------------------------------------
(***************************************************************************)
(* What the whole input means, and what the library says of it.            *)
(***************************************************************************)
LEMMA WholeBlock ==
    ASSUME LoopInv, IsBlock, NEW n, n = Len(job.input)
    PROVE  /\ n \in Nat /\ BlockSize \in Nat /\ BlockSize <= n * Expand
           /\ Decoded(n) \in Seq(Nat)
           /\ SoundBlock(n) => Len(Decoded(n)) = BlockSize
           /\ \A cap \in Nat : DecompressSafe(n, cap) >= 0 =>
                  SoundBlock(n) /\ BlockSize <= cap /\ DecompressSafe(n, cap) = BlockSize
           /\ \A cap \in Nat : SoundBlock(n) /\ BlockSize <= cap =>
                  DecompressSafe(n, cap) = BlockSize
           /\ \A cap \in Nat : cap > 0 => (WorthMore(n, cap) <=> BlockSize >= cap)
<1>0. n \in Nat /\ job \in Jobs /\ job.wrap = "lz4block"
  BY LoopFacts DEF IsBlock
<1>1. SoundPart(n) \in Nat /\ SoundPart(n) <= n
  BY <1>0, SoundPartRange
<1>2. /\ Decoded(n) \in Seq(Nat) /\ Decoded(SoundPart(n)) \in Seq(Nat)
      /\ Len(Decoded(SoundPart(n))) <= SoundPart(n) * Expand
  <2>1. n <= Len(job.input) /\ SoundPart(n) <= Len(job.input)
    BY <1>0, <1>1
  <2>. QED  BY <1>0, <1>1, <2>1, DecodedType, DecodedIsLimited
<1>3. SoundPart(n) * Expand <= n * Expand /\ n * Expand \in Nat /\ SoundPart(n) * Expand \in Nat
  BY <1>0, <1>1, SearchConstants
<1>4. BlockSize = Len(Decoded(SoundPart(n)))
  BY DEF BlockSize
<1>5. BlockSize \in Nat /\ BlockSize <= n * Expand
  <2>1. Len(Decoded(SoundPart(n))) \in Nat
    BY <1>2
  <2>. QED  BY <1>2, <1>3, <1>4, <2>1
<1>6. SoundBlock(n) => SoundPart(n) = n
  BY DEF SoundBlock
<1>7. \A cap \in Nat : DecompressSafe(n, cap) =
          IF SoundBlock(n) /\ BlockSize <= cap THEN BlockSize ELSE -1
  BY <1>4 DEF DecompressSafe
<1>8. \A cap \in Nat : DecompressPartial(n, cap) =
          IF BlockSize >= cap THEN cap ELSE IF SoundBlock(n) THEN BlockSize ELSE -1
  BY <1>4 DEF DecompressPartial
<1>9. \A cap \in Nat : cap > 0 => (WorthMore(n, cap) <=> BlockSize >= cap)
  BY <1>5, <1>8 DEF WorthMore
<1>10. \A cap \in Nat : DecompressSafe(n, cap) >= 0 =>
          SoundBlock(n) /\ BlockSize <= cap /\ DecompressSafe(n, cap) = BlockSize
  BY <1>5, <1>7
<1>11. \A cap \in Nat : SoundBlock(n) /\ BlockSize <= cap => DecompressSafe(n, cap) = BlockSize
  BY <1>7
<1>12. SoundBlock(n) => Len(Decoded(n)) = BlockSize
  BY <1>4, <1>6
<1>. QED  BY <1>0, <1>2, <1>5, <1>9, <1>10, <1>11, <1>12

\* The bound on the stage covers the floor, the input and the block.
LEMMA GrowthBoundFits ==
    ASSUME LoopInv, IsBlock
    PROVE  /\ GrowthBound \in Nat /\ SearchFloor <= GrowthBound
           /\ 4 * Len(job.input) <= GrowthBound /\ 4 * BlockSize <= GrowthBound
<1>1. Len(job.input) \in Nat /\ BlockSize \in Nat
  BY WholeBlock
<1>2. 4 * Len(job.input) \in Nat /\ 4 * BlockSize \in Nat /\ SearchFloor \in Nat
  BY <1>1, SearchConstants
<1>. QED  BY <1>2, MaxOfThree DEF GrowthBound

\* The numbers a block's verdict depends on.
LEMMA BlockNumbers ==
    ASSUME LoopInv, IsBlock
    PROVE  /\ BlockSize \in Nat /\ Len(job.input) \in Nat
           /\ job.opts.max_output \in Nat /\ job.opts.expected_size \in Nat
<1>1. Len(job.input) \in Nat /\ BlockSize \in Nat
  BY WholeBlock
<1>2. job.opts.max_output \in Nat /\ job.opts.expected_size \in Nat
  <2>1. job.opts \in LimitOpts /\ U64Max \in Nat
    BY LoopFacts
  <2>. QED  BY ONLY <2>1 DEF LimitOpts
<1>. QED  BY <1>1, <1>2

\* A block that is allowed is to be accepted.
LEMMA AllowedIsAccepted ==
    ASSUME LoopInv, IsBlock
    PROVE  /\ Allowed => BlockVerdict = {ZU_STREAM_END}
           /\ ZU_STREAM_END \in BlockVerdict => Allowed
<1>1. BlockSize \in Nat /\ job.opts.max_output \in Nat /\ job.opts.expected_size \in Nat
  BY BlockNumbers
<1>2. Allowed => ~(job.opts.has_expected /\ job.opts.max_output # 0
                     /\ job.opts.expected_size > job.opts.max_output)
  BY <1>1 DEF Allowed
<1>. QED  BY <1>2 DEF BlockVerdict, Allowed, ZU_STREAM_END, ZU_ERR_OUTPUT_LIMIT,
                      ZU_ERR_INVALID_DATA

\* zu_int_lz4_drain moves bytes from the stage to the window: it finishes, or
\* fills the window.
LEMMA DrainMoves ==
    ASSUME LoopInv, pc = "codec", NEW p \in pos .. fed,
           NEW d \in BlockRecord, d.stage_pos <= Len(d.stage), DrainAndReturn(p, d)
    PROVE  \E st \in {ZU_STREAM_END, ZU_NEED_OUTPUT}, o \in Seq(Nat) :
             /\ Return(st, p, o) /\ Advance(p, o)
             /\ b' \in BlockRecord /\ b'.stage_pos <= Len(b'.stage)
             /\ b'.in = d.in /\ b'.cap = d.cap /\ b'.stage_cap = d.stage_cap /\ b'.done = d.done
             /\ st = ZU_STREAM_END => o = out \o Undelivered(d) /\ Undelivered(b') = <<>>
             /\ st = ZU_NEED_OUTPUT =>
                  /\ Len(o) = call.out + call.allowance
                  /\ o \o Undelivered(b') = out \o Undelivered(d)
                  /\ Len(o) < Len(out) + Len(Undelivered(d))
<1>. DEFINE n    == LeastOf(Len(d.stage) - d.stage_pos, AvailOut)
            done == d.stage_pos + n = Len(d.stage)
            sent == SubSeq(d.stage, d.stage_pos + 1, d.stage_pos + n)
            st   == IF done THEN ZU_STREAM_END ELSE ZU_NEED_OUTPUT
<1>0. /\ d.in \in Nat /\ d.cap \in Nat /\ d.stage_cap \in Nat /\ d.stage \in Seq(Nat)
      /\ d.stage_pos \in Nat /\ d.done \in BOOLEAN /\ Len(d.stage) \in Nat
  BY DEF BlockRecord
<1>1. /\ out \in Seq(Nat) /\ Len(out) \in Nat /\ call.out \in Nat /\ call.allowance \in Nat
      /\ call.out <= Len(out) /\ Len(out) <= call.out + call.allowance
      /\ AvailOut \in Nat /\ Len(out) + AvailOut = call.out + call.allowance
  <2>1. /\ call.out = total_out /\ call.allowance \in Nat
        /\ call.out <= Len(out) /\ Len(out) <= call.out + call.allowance
    BY DEF LoopInv, CallInProgress
  <2>. QED  BY <2>1, LoopFacts DEF AvailOut
<1>2. /\ n \in Nat /\ n <= AvailOut /\ d.stage_pos + n <= Len(d.stage)
      /\ ~done => n = AvailOut /\ d.stage_pos + n < Len(d.stage)
  BY <1>0, <1>1 DEF LeastOf
<1>3. Return(st, p, out \o sent)
  BY DEF DrainAndReturn
<1>4. b' = [d EXCEPT !.stage     = IF done THEN <<>> ELSE d.stage,
                     !.stage_pos = IF done THEN 0 ELSE d.stage_pos + n]
  BY DEF DrainAndReturn
<1>. HIDE DEF n
<1>5. sent \in Seq(Nat) /\ Len(sent) = n
  BY <1>0, <1>2, Slice
<1>6. out \o sent \in Seq(Nat) /\ Len(out \o sent) = Len(out) + n
  BY <1>1, <1>5
<1>7. Advance(p, out \o sent)
  BY <1>1, <1>2, <1>6 DEF Advance
<1>8. /\ b'.in = d.in /\ b'.cap = d.cap /\ b'.stage_cap = d.stage_cap /\ b'.done = d.done
      /\ b'.stage = IF done THEN <<>> ELSE d.stage
      /\ b'.stage_pos = IF done THEN 0 ELSE d.stage_pos + n
  BY <1>4 DEF BlockRecord
<1>9. b' \in BlockRecord
  <2>. DEFINE stage == IF done THEN <<>> ELSE d.stage
              at    == IF done THEN 0 ELSE d.stage_pos + n
  <2>1. stage \in Seq(Nat) /\ at \in Nat
    BY <1>0, <1>2
  <2>2. b' = [d EXCEPT !.stage = stage, !.stage_pos = at]
    BY <1>4
  <2>. HIDE DEF stage, at
  <2>. QED  BY <2>1, <2>2 DEF BlockRecord
<1>10. b'.stage_pos <= Len(b'.stage)
  BY <1>0, <1>2, <1>8
<1>11. CASE done
  <2>1. st = ZU_STREAM_END /\ st # ZU_NEED_OUTPUT
    BY <1>11 DEF ZU_STREAM_END, ZU_NEED_OUTPUT
  <2>2. sent = Undelivered(d)
    BY <1>11 DEF Undelivered
  <2>3. Undelivered(b') = <<>>
    <3>1. b'.stage = <<>> /\ b'.stage_pos = 0
      BY <1>8, <1>11
    <3>. QED  BY <3>1 DEF Undelivered
  <2>. HIDE DEF st, sent, done
  <2>. QED  BY <1>3, <1>6, <1>7, <1>8, <1>9, <1>10, <2>1, <2>2, <2>3
<1>12. CASE ~done
  <2>1. st # ZU_STREAM_END /\ st = ZU_NEED_OUTPUT
    BY <1>12 DEF ZU_STREAM_END, ZU_NEED_OUTPUT
  <2>2. b'.stage = d.stage /\ b'.stage_pos = d.stage_pos + n
    BY <1>8, <1>12
  <2>3. sent \o Undelivered(b') = Undelivered(d)
    <3>1. Undelivered(b') = SubSeq(d.stage, d.stage_pos + n + 1, Len(d.stage))
      BY <2>2 DEF Undelivered
    <3>2. /\ d.stage_pos + 1 \in 1 .. Len(d.stage) + 1
          /\ d.stage_pos + n \in (d.stage_pos + 1) - 1 .. Len(d.stage)
          /\ Len(d.stage) \in d.stage_pos + n .. Len(d.stage)
      BY <1>0, <1>2
    <3>3. SubSeq(d.stage, d.stage_pos + 1, d.stage_pos + n)
            \o SubSeq(d.stage, d.stage_pos + n + 1, Len(d.stage))
            = SubSeq(d.stage, d.stage_pos + 1, Len(d.stage))
      BY <1>0, <3>2, ConcatAdjacentSubSeq
    <3>. QED  BY <3>1, <3>3 DEF Undelivered
  <2>4. Undelivered(b') \in Seq(Nat) /\ Undelivered(d) \in Seq(Nat)
        /\ Len(Undelivered(d)) = Len(d.stage) - d.stage_pos
    <3>1. /\ d.stage_pos + n \in Nat /\ (d.stage_pos + n) + 0 <= Len(d.stage)
          /\ d.stage_pos + 0 <= Len(d.stage)
      BY <1>0, <1>2
    <3>2. SubSeq(d.stage, (d.stage_pos + n) + 1, Len(d.stage)) \in Seq(Nat)
      BY <1>0, <3>1, Slice
    <3>3. /\ SubSeq(d.stage, d.stage_pos + 1, Len(d.stage)) \in Seq(Nat)
          /\ Len(SubSeq(d.stage, d.stage_pos + 1, Len(d.stage))) = Len(d.stage) - d.stage_pos
      BY <1>0, <3>1, Slice
    <3>. QED  BY <2>2, <3>2, <3>3 DEF Undelivered
  <2>. HIDE DEF sent
  <2>5. (out \o sent) \o Undelivered(b') = out \o Undelivered(d)
    <3>. DEFINE rest == Undelivered(b')
    <3>1. out \in Seq(Nat) /\ sent \in Seq(Nat) /\ rest \in Seq(Nat)
      BY <1>1, <1>5, <2>4
    <3>2. sent \o rest = Undelivered(d)
      BY <2>3
    <3>. HIDE DEF rest
    <3>3. (out \o sent) \o rest = out \o (sent \o rest)
      BY ONLY <3>1, JoinedAgain
    <3>4. (out \o sent) \o rest = out \o Undelivered(d)
      BY <3>2, <3>3
    <3>. QED  BY <3>4 DEF rest
  <2>6. Len(out \o sent) = call.out + call.allowance
        /\ Len(out \o sent) < Len(out) + Len(Undelivered(d))
    BY <1>0, <1>1, <1>2, <1>6, <1>12, <2>4
  <2>. HIDE DEF st, done
  <2>. QED  BY <1>3, <1>6, <1>7, <1>8, <1>9, <1>10, <2>1, <2>5, <2>6
<1>. QED  BY <1>11, <1>12

----------------------------------------------------------------------------
(***************************************************************************)
(* The steps of lz4-block.                                                 *)
(***************************************************************************)
\* What StageIsBounded says of a capacity.
StageMayBe(cap) ==
    /\ cap \in Nat
    /\ job.opts.max_output # 0 => cap <= job.opts.max_output
    /\ ~job.opts.has_expected => cap <= GrowthBound

\* Everything said of a block is said of the job.
LEMMA SameJob ==
    ASSUME job' = job
    PROVE  /\ IsBlock' = IsBlock /\ Whole' = Whole /\ BlockSize' = BlockSize
           /\ GrowthBound' = GrowthBound /\ BlockVerdict' = BlockVerdict
           /\ Allowed' = Allowed
           /\ Decoded(Len(job.input))' = Decoded(Len(job.input))
<1>1. IsBlock' = IsBlock /\ Whole' = Whole
  BY DEF IsBlock, Whole
<1>2. BlockSize' = BlockSize /\ Decoded(Len(job.input))' = Decoded(Len(job.input))
  BY DEF BlockSize, Decoded, SoundPart, Sound, BytesOf, BytesAt
<1>3. BlockFits' = BlockFits
  BY <1>2 DEF BlockFits, SoundBlock, SoundPart, Sound
<1>4. GrowthBound' = GrowthBound
  BY <1>2 DEF GrowthBound
<1>5. Allowed' = Allowed
  BY <1>2, <1>3 DEF Allowed
<1>6. BlockVerdict' = BlockVerdict
  BY <1>2, <1>3 DEF BlockVerdict
<1>. QED  BY <1>1, <1>2, <1>4, <1>5, <1>6

\* The lz4-block decoder's fields, and the bound on its stage.
LEMMA BlockStage ==
    ASSUME LoopInv, BlockInv, IsBlock
    PROVE  /\ b.in \in Nat /\ b.cap \in Nat /\ b.stage_cap \in Nat /\ b.stage \in Seq(Nat)
           /\ b.stage_pos \in Nat /\ b.done \in BOOLEAN
           /\ StageMayBe(b.stage_cap)
BY DEF BlockInv, BlockTyped, BlockRecord, StageIsBounded, StageMayBe, GrowthBound

\* A call that ends before anything is delivered: it failed for lack of
\* memory or with the verdict the block deserves, or wants the rest of the
\* input.
LEMMA BlockReturns ==
    ASSUME LoopInv, BlockInv, pc = "codec", IsBlock, b.done = FALSE,
           NEW p \in pos .. fed, NEW st \in Errors \cup {ZU_NEED_INPUT}, Return(st, p, out),
           st = ZU_NEED_INPUT => fed < Len(job.input) /\ p = fed,
           st \in {ZU_NEED_INPUT, ZU_ERR_MEMORY} \/ st \in BlockVerdict,
           b' \in BlockRecord, b'.in = p, b'.in <= MaxBlockInput, b'.cap = 0,
           b'.done = FALSE, b'.stage = <<>>, b'.stage_pos = 0, StageMayBe(b'.stage_cap)
    PROVE  CodecMoves /\ BlockInv'
<1>1. out = <<>>
  BY DEF BlockInv, Gathering
<1>2. /\ call.out \in Nat /\ call.allowance \in Nat /\ call.out <= Len(out)
      /\ Len(out) <= call.out + call.allowance /\ call.out = total_out
      /\ call.capped = Capped(job.opts, total_out, Window)
      /\ call.allowance = Allowance(job.opts, total_out, Window) /\ Window \in Nat
  BY LoopFacts DEF LoopInv, CallInProgress
<1>3. Advance(p, out)
  BY <1>2, LoopFacts DEF Advance
<1>4. st \in Status
  BY DEF Status, Progress
<1>5. CodecMoves
  BY <1>3, <1>4 DEF CodecMoves
<1>6. /\ pos' = p /\ out' = out /\ job' = job /\ fed' = fed /\ last'.st = st
      /\ pc' = IF result' = Running THEN "call" ELSE "close"
  BY <1>3, ReturnGives
<1>7. PICK status :
        /\ status = DriverStatus(job.opts,
             [st |-> st, capped |-> call.capped, allowance |-> call.allowance,
              produced |-> Len(out) - call.out, left |-> fed - p,
              total_in |-> p, total_out |-> Len(out)])
        /\ result' = IF Whole THEN WholeResult(status, out) ELSE OneShotResult(status, p, out)
  BY <1>3, ReturnGives
<1>8. /\ b'.stage_cap \in Nat /\ b'.in \in Nat
  BY DEF StageMayBe, BlockRecord
<1>9. StageIsBounded'
  BY <1>6, SameJob DEF StageIsBounded, StageMayBe, GrowthBound
<1>10. BlockVerdictIsExact'
  <2>. SUFFICES ASSUME Whole, job.opts.max_ratio = 0, pc' = "close",
                       st # ZU_ERR_MEMORY, result' # ZU_ERR_MEMORY
                PROVE  result' \in BlockVerdict /\ result' # ZU_STREAM_END
    BY <1>6, SameJob DEF BlockVerdictIsExact, BlockSettled
  <2>. DEFINE c == [st |-> st, capped |-> call.capped, allowance |-> call.allowance,
                    produced |-> Len(out) - call.out, left |-> fed - p,
                    total_in |-> p, total_out |-> Len(out)]
  <2>0. /\ c.st = st /\ c.total_out = 0 /\ c.capped = call.capped
        /\ c.allowance = call.allowance /\ c.left = fed - p
    BY <1>1
  <2>1. status = DriverStatus(job.opts, c)
    BY <1>7
  <2>2. c.st \notin {ZU_STREAM_END, ZU_NEED_OUTPUT}
    BY <2>0 DEF Errors, ZU_NEED_INPUT, ZU_STREAM_END, ZU_NEED_OUTPUT, ZU_ERR_INVALID_ARGUMENT,
           ZU_ERR_UNSUPPORTED, ZU_ERR_INVALID_DATA, ZU_ERR_TRUNCATED, ZU_ERR_CHECKSUM,
           ZU_ERR_TRAILING, ZU_ERR_MEMORY, ZU_ERR_OUTPUT_LIMIT, ZU_ERR_RATIO_LIMIT, ZU_ERR_INTERNAL
  <2>. HIDE DEF c
  <2>3. \/ status = st
        \/ status = OverStatus(job.opts) /\ call.capped /\ call.allowance = 0 /\ fed - p > 0
    BY <2>0, <2>1, <2>2, LoopFacts, StatusBeforeOutput
  <2>4. CASE st = ZU_NEED_INPUT
    <3>1. fed - p = 0 /\ fed < Len(job.input) /\ ~(fed >= Len(job.input))
      BY <2>4, LoopFacts
    <3>2. status = ZU_NEED_INPUT
      BY <2>3, <2>4, <3>1
    <3>3. result' = Running
      BY <1>7, <3>1, <3>2 DEF WholeResult, Progress, ZU_NEED_INPUT, ZU_STREAM_END
    <3>. QED  BY <1>6, <3>3
  <2>5. CASE st # ZU_NEED_INPUT /\ status = st
    <3>1. st \in Errors /\ st \notin Progress /\ st # ZU_STREAM_END
      BY <2>5 DEF Errors, Progress, ZU_OK, ZU_NEED_INPUT, ZU_STREAM_END, ZU_NEED_OUTPUT,
           ZU_ERR_INVALID_ARGUMENT,
           ZU_ERR_UNSUPPORTED, ZU_ERR_INVALID_DATA, ZU_ERR_TRUNCATED, ZU_ERR_CHECKSUM,
           ZU_ERR_TRAILING, ZU_ERR_MEMORY, ZU_ERR_OUTPUT_LIMIT, ZU_ERR_RATIO_LIMIT, ZU_ERR_INTERNAL
    <3>2. result' = st
      BY <1>7, <2>5, <3>1 DEF WholeResult
    <3>. QED  BY <2>5, <3>1, <3>2
  <2>6. CASE st # ZU_NEED_INPUT /\ status = OverStatus(job.opts) /\ call.capped /\ call.allowance = 0
    <3>1. total_out = 0
      BY <1>1, <1>2
    <3>2. Capped(job.opts, 0, Window) /\ Allowance(job.opts, 0, Window) = 0
      BY <1>2, <2>6, <3>1
    <3>3. /\ job.opts.has_expected /\ job.opts.expected_size = 0
          /\ OverStatus(job.opts) = ZU_ERR_INVALID_DATA
      BY <1>2, <3>2, LoopFacts, NothingAllowed
    <3>4. job.opts.max_output \in Nat
      BY LoopFacts DEF LimitOpts
    <3>5. BlockVerdict = {ZU_STREAM_END} \/ BlockVerdict = {ZU_ERR_INVALID_DATA}
      BY <3>3, <3>4 DEF BlockVerdict
    <3>6. st \in BlockVerdict /\ st # ZU_STREAM_END
      BY <2>0, <2>2, <2>6
    <3>7. result' = ZU_ERR_INVALID_DATA
      BY <1>7, <2>6, <3>3 DEF WholeResult, Progress, ZU_ERR_INVALID_DATA, ZU_OK, ZU_NEED_INPUT,
           ZU_NEED_OUTPUT, ZU_STREAM_END
    <3>. QED  BY <3>5, <3>6, <3>7 DEF ZU_ERR_INVALID_DATA, ZU_STREAM_END
  <2>. QED  BY <2>3, <2>4, <2>5, <2>6
<1>11. BlockTyped'
  BY DEF BlockTyped
<1>12. Gathering' /\ Searching' /\ Delivering'
  BY <1>1, <1>6, <1>8, SameJob DEF Gathering, Searching, Delivering
<1>. QED  BY <1>5, <1>9, <1>10, <1>11, <1>12 DEF BlockInv

\* A stream that ends with all of an allowed block delivered is accepted.
LEMMA BlockEnds ==
    ASSUME LoopInv, pc = "codec", IsBlock, Allowed, fed = Len(job.input),
           NEW o, o = Decoded(Len(job.input)), Advance(fed, o),
           Return(ZU_STREAM_END, fed, o)
    PROVE  BlockVerdictIsExact'
<1>1. /\ pos' = fed /\ out' = o /\ job' = job /\ fed' = fed
  BY ReturnGives
<1>2. PICK status :
        /\ status = DriverStatus(job.opts,
             [st |-> ZU_STREAM_END, capped |-> call.capped, allowance |-> call.allowance,
              produced |-> Len(o) - call.out, left |-> fed - fed,
              total_in |-> fed, total_out |-> Len(o)])
        /\ result' = IF Whole THEN WholeResult(status, o) ELSE OneShotResult(status, fed, o)
  BY ReturnGives
<1>. SUFFICES ASSUME Whole, job.opts.max_ratio = 0
              PROVE  result' \in BlockVerdict
  BY <1>1, SameJob DEF BlockVerdictIsExact, BlockSettled
<1>. DEFINE c == [st |-> ZU_STREAM_END, capped |-> call.capped, allowance |-> call.allowance,
                  produced |-> Len(o) - call.out, left |-> fed - fed,
                  total_in |-> fed, total_out |-> Len(o)]
<1>3. BlockSize \in Nat /\ Len(o) = BlockSize
  BY WholeBlock DEF Allowed, BlockFits
<1>4. /\ c.st = ZU_STREAM_END /\ c.left = 0 /\ c.total_out = BlockSize
  BY <1>3, LoopFacts
<1>5. status = DriverStatus(job.opts, c)
  BY <1>2
<1>. HIDE DEF c
<1>6. /\ job.opts.has_expected => c.total_out = job.opts.expected_size
      /\ job.opts.max_output # 0 => c.total_out <= job.opts.max_output
  BY <1>4 DEF Allowed
<1>7. status = ZU_STREAM_END
  BY <1>3, <1>4, <1>5, <1>6, LoopFacts, EndWithinLimits
<1>8. result' = ZU_STREAM_END
  BY <1>2, <1>7 DEF WholeResult
<1>. QED  BY <1>8, AllowedIsAccepted

\* The caller's room is never shrunk below an allowed block.
LEMMA BlockWantsRoom ==
    ASSUME LoopInv, pc = "codec", IsBlock, Allowed, fed = Len(job.input),
           NEW o, Advance(fed, o), Return(ZU_NEED_OUTPUT, fed, o),
           Len(o) = call.out + call.allowance, Len(o) < BlockSize
    PROVE  BlockVerdictIsExact'
<1>1. /\ pos' = fed /\ out' = o /\ job' = job /\ fed' = fed
      /\ pc' = IF result' = Running THEN "call" ELSE "close"
  BY ReturnGives
<1>2. PICK status :
        /\ status = DriverStatus(job.opts,
             [st |-> ZU_NEED_OUTPUT, capped |-> call.capped, allowance |-> call.allowance,
              produced |-> Len(o) - call.out, left |-> fed - fed,
              total_in |-> fed, total_out |-> Len(o)])
        /\ result' = IF Whole THEN WholeResult(status, o) ELSE OneShotResult(status, fed, o)
  BY ReturnGives
<1>. SUFFICES ASSUME Whole, job.opts.max_ratio = 0
              PROVE  result' = Running
  BY <1>1, SameJob DEF BlockVerdictIsExact, BlockSettled
<1>. DEFINE c == [st |-> ZU_NEED_OUTPUT, capped |-> call.capped, allowance |-> call.allowance,
                  produced |-> Len(o) - call.out, left |-> fed - fed,
                  total_in |-> fed, total_out |-> Len(o)]
<1>3. BlockSize \in Nat /\ Len(o) \in Nat
  BY WholeBlock DEF Advance
<1>4. /\ call.out = total_out /\ total_out \in Nat /\ call.allowance \in Nat /\ Window \in Nat
      /\ call.capped = Capped(job.opts, total_out, Window)
      /\ call.allowance = Allowance(job.opts, total_out, Window)
  BY DEF LoopInv, CallInProgress, CountersAreCursors
<1>5. job.opts.max_output \in Nat /\ job.opts.expected_size \in Nat
  BY LoopFacts DEF LimitOpts
<1>6. HasCeiling(job.opts) => Ceiling(job.opts) \in Nat /\ BlockSize <= Ceiling(job.opts)
  BY <1>3, <1>5 DEF Allowed, HasCeiling, Ceiling, ExpectedBinds
<1>7. ~Capped(job.opts, total_out, Window)
  <2>. SUFFICES ASSUME Capped(job.opts, total_out, Window) PROVE FALSE
    OBVIOUS
  <2>1. call.allowance = Remaining(job.opts, total_out) /\ HasCeiling(job.opts)
    BY <1>4 DEF Allowance, Capped
  <2>2. total_out + call.allowance >= Ceiling(job.opts)
    BY <1>4, <1>6, <2>1 DEF Remaining
  <2>. QED  BY <1>3, <1>4, <1>6, <2>1, <2>2
<1>8. call.capped = FALSE
  BY <1>4, <1>7
<1>9. /\ c.st = ZU_NEED_OUTPUT /\ c.capped = FALSE /\ c.total_out = Len(o)
  BY <1>8
<1>10. status = DriverStatus(job.opts, c)
  BY <1>2
<1>. HIDE DEF c
<1>11. /\ job.opts.has_expected => c.total_out <= job.opts.expected_size
       /\ job.opts.max_output # 0 => c.total_out <= job.opts.max_output
  BY <1>3, <1>5, <1>9 DEF Allowed
<1>12. status = ZU_NEED_OUTPUT
  BY <1>3, <1>9, <1>10, <1>11, LoopFacts, RoomWithinLimits
<1>. QED  BY <1>2, <1>12 DEF WholeResult, Progress, ZU_NEED_OUTPUT, ZU_NEED_INPUT, ZU_STREAM_END

\* Delivering an allowed block from the stage.
LEMMA BlockDelivers ==
    ASSUME LoopInv, pc = "codec", IsBlock, Allowed, fed = Len(job.input),
           NEW d \in BlockRecord, d.stage_pos <= Len(d.stage), d.cap = 0, d.done = TRUE,
           StageMayBe(d.stage_cap),
           out \o Undelivered(d) = Decoded(Len(job.input)),
           DrainAndReturn(fed, d)
    PROVE  CodecMoves /\ BlockInv'
<1>1. fed \in pos .. fed
  BY LoopFacts
<1>2. PICK st \in {ZU_STREAM_END, ZU_NEED_OUTPUT}, o \in Seq(Nat) :
        /\ Return(st, fed, o) /\ Advance(fed, o)
        /\ b' \in BlockRecord /\ b'.stage_pos <= Len(b'.stage)
        /\ b'.in = d.in /\ b'.cap = d.cap /\ b'.stage_cap = d.stage_cap /\ b'.done = d.done
        /\ st = ZU_STREAM_END => o = out \o Undelivered(d) /\ Undelivered(b') = <<>>
        /\ st = ZU_NEED_OUTPUT =>
             /\ Len(o) = call.out + call.allowance
             /\ o \o Undelivered(b') = out \o Undelivered(d)
             /\ Len(o) < Len(out) + Len(Undelivered(d))
  BY <1>1, DrainMoves
<1>3. CodecMoves
  <2>1. st \in Status
    BY DEF Status, Progress
  <2>. QED  BY <1>2, <2>1 DEF CodecMoves
<1>4. pos' = fed /\ out' = o /\ job' = job /\ fed' = fed
  BY <1>2, ReturnGives
<1>5. b'.done = TRUE /\ b'.cap = 0 /\ b'.stage_cap = d.stage_cap
  BY <1>2
<1>6. StageIsBounded'
  BY <1>4, <1>5, SameJob DEF StageIsBounded, StageMayBe, GrowthBound
<1>7. BlockTyped'
  BY <1>2 DEF BlockTyped
<1>8. /\ out \in Seq(Nat) /\ Undelivered(d) \in Seq(Nat) /\ Decoded(Len(job.input)) \in Seq(Nat)
      /\ Len(Decoded(Len(job.input))) = BlockSize
      /\ Len(Decoded(Len(job.input))) = Len(out) + Len(Undelivered(d))
  <2>1. d.stage \in Seq(Nat) /\ d.stage_pos \in Nat /\ d.stage_pos + 0 <= Len(d.stage)
    BY DEF BlockRecord
  <2>2. Undelivered(d) \in Seq(Nat) /\ out \in Seq(Nat)
    BY <2>1, Slice, LoopFacts DEF Undelivered
  <2>3. Len(out \o Undelivered(d)) = Len(out) + Len(Undelivered(d))
    BY <2>2, Joined
  <2>. QED  BY <2>2, <2>3, WholeBlock DEF Allowed, BlockFits
<1>9. o \o Undelivered(b') = Decoded(Len(job.input))
  <2>1. CASE st = ZU_STREAM_END
    <3>1. o \o <<>> = o
      BY <1>2
    <3>. QED  BY <1>2, <2>1, <3>1
  <2>2. CASE st = ZU_NEED_OUTPUT
    BY <1>2, <2>2
  <2>. QED  BY <2>1, <2>2
<1>10. Delivering'
  <2>1. /\ pos' = Len(job'.input) /\ Allowed'
        /\ Decoded(Len(job.input))' = Decoded(Len(job.input))
    BY <1>4, SameJob
  <2>2. Undelivered(b)' = Undelivered(b')
    BY DEF Undelivered
  <2>3. (out \o Undelivered(b))' = o \o Undelivered(b')
    BY <1>4, <2>2
  <2>. QED  BY <1>9, <2>1, <2>3 DEF Delivering
<1>11. Gathering' /\ Searching'
  BY <1>5 DEF Gathering, Searching
<1>12. BlockVerdictIsExact'
  <2>1. CASE st = ZU_STREAM_END
    <3>1. o = Decoded(Len(job.input))
      BY <1>2, <2>1
    <3>. QED  BY <1>2, <2>1, <3>1, BlockEnds
  <2>2. CASE st = ZU_NEED_OUTPUT
    <3>1. Len(o) = call.out + call.allowance /\ Len(o) < BlockSize
      BY <1>2, <1>8, <2>2
    <3>. QED  BY <1>2, <2>2, <3>1, BlockWantsRoom
  <2>. QED  BY <2>1, <2>2
<1>. QED  BY <1>3, <1>6, <1>7, <1>10, <1>11, <1>12 DEF BlockInv

\* An input too large for a block may always be called invalid; an input that
\* is no allowed block is, unless a limit is to blame.
LEMMA InvalidBlocks ==
    ASSUME LoopInv, IsBlock
    PROVE  /\ Len(job.input) > MaxBlockInput => ZU_ERR_INVALID_DATA \in BlockVerdict
           /\ /\ ~Allowed
              /\ job.opts.has_expected /\ job.opts.max_output # 0 =>
                   job.opts.expected_size <= job.opts.max_output
              /\ job.opts.has_expected \/ job.opts.max_output \notin 1 .. IntMax - 1
                   \/ BlockSize < job.opts.max_output
              => BlockVerdict = {ZU_ERR_INVALID_DATA}
           /\ /\ job.opts.has_expected /\ job.opts.max_output # 0
              /\ job.opts.expected_size > job.opts.max_output
              => ZU_ERR_OUTPUT_LIMIT \in BlockVerdict
           /\ /\ ~Allowed /\ ~job.opts.has_expected /\ Len(job.input) <= MaxBlockInput
              /\ job.opts.max_output \in 1 .. IntMax - 1 /\ BlockSize >= job.opts.max_output
              => BlockVerdict = {ZU_ERR_OUTPUT_LIMIT}
<1>1. /\ BlockSize \in Nat /\ job.opts.max_output \in Nat /\ job.opts.expected_size \in Nat
      /\ Len(job.input) \in Nat /\ MaxBlockInput \in Nat
  BY BlockNumbers, SearchConstants
<1>2. Allowed <=> /\ BlockFits
                  /\ job.opts.has_expected => BlockSize = job.opts.expected_size
                  /\ job.opts.max_output # 0 => BlockSize <= job.opts.max_output
  BY DEF Allowed
<1>3. Allowed => Len(job.input) <= MaxBlockInput
  BY DEF Allowed, BlockFits
<1>4. Len(job.input) > MaxBlockInput => ZU_ERR_INVALID_DATA \in BlockVerdict
  BY <1>1, <1>2, <1>3 DEF BlockVerdict
<1>5. /\ ~Allowed
      /\ job.opts.has_expected /\ job.opts.max_output # 0 =>
           job.opts.expected_size <= job.opts.max_output
      /\ job.opts.has_expected \/ job.opts.max_output \notin 1 .. IntMax - 1
           \/ BlockSize < job.opts.max_output
      => BlockVerdict = {ZU_ERR_INVALID_DATA}
  BY <1>1, <1>2 DEF BlockVerdict
<1>6. /\ job.opts.has_expected /\ job.opts.max_output # 0
      /\ job.opts.expected_size > job.opts.max_output
      => ZU_ERR_OUTPUT_LIMIT \in BlockVerdict
  BY <1>1 DEF BlockVerdict
<1>7. /\ ~Allowed /\ ~job.opts.has_expected /\ Len(job.input) <= MaxBlockInput
      /\ job.opts.max_output \in 1 .. IntMax - 1 /\ BlockSize >= job.opts.max_output
      => BlockVerdict = {ZU_ERR_OUTPUT_LIMIT}
  BY <1>1, <1>2 DEF BlockVerdict
<1>. QED  BY <1>4, <1>5, <1>6, <1>7

\* zu_int_lz4b_gather takes all of the window or, failing, none.
LEMMA GatherTakes ==
    ASSUME LoopInv, BlockInv, IsBlock, b.done = FALSE, NEW g \in Gather
    PROVE  /\ g[1] \in {ZU_OK, ZU_ERR_INVALID_DATA, ZU_ERR_MEMORY}
           /\ g[2] \in Nat /\ g[2] <= MaxBlockInput
           /\ Gathered(g) = g[2] /\ Gathered(g) \in pos .. fed
           /\ g[1] = ZU_OK => Gathered(g) = fed
           /\ g[1] = ZU_ERR_INVALID_DATA => ZU_ERR_INVALID_DATA \in BlockVerdict
<1>1. /\ b.in = pos /\ b.in <= MaxBlockInput /\ b.in \in Nat
      /\ pos \in Nat /\ fed \in Nat /\ pos <= fed /\ fed <= Len(job.input)
      /\ Len(job.input) \in Nat /\ MaxBlockInput \in Nat
  BY LoopFacts, SearchConstants DEF BlockInv, Gathering
<1>2. CASE AvailIn = 0
  BY <1>1, <1>2 DEF Gather, Gathered, AvailIn, ZU_OK, ZU_ERR_INVALID_DATA
<1>3. CASE AvailIn # 0 /\ b.in + AvailIn > MaxBlockInput
  <2>1. ZU_ERR_INVALID_DATA \in BlockVerdict
    BY <1>1, <1>3, InvalidBlocks DEF AvailIn
  <2>2. g = <<ZU_ERR_INVALID_DATA, b.in>>
    BY <1>3 DEF Gather
  <2>. QED  BY <1>1, <2>1, <2>2 DEF Gathered, ZU_OK, ZU_ERR_INVALID_DATA
<1>4. CASE AvailIn # 0 /\ ~(b.in + AvailIn > MaxBlockInput)
  <2>1. g = <<ZU_OK, b.in + AvailIn>> \/ g = <<ZU_ERR_MEMORY, b.in>>
    BY <1>4 DEF Gather
  <2>2. CASE g = <<ZU_OK, b.in + AvailIn>>
    BY <1>1, <1>4, <2>2 DEF Gathered, AvailIn, ZU_OK, ZU_ERR_INVALID_DATA
  <2>3. CASE g = <<ZU_ERR_MEMORY, b.in>>
    BY <1>1, <1>4, <2>3 DEF Gathered, AvailIn, ZU_OK, ZU_ERR_INVALID_DATA, ZU_ERR_MEMORY
  <2>. QED  BY <2>1, <2>2, <2>3
<1>. QED  BY <1>2, <1>3, <1>4

\* The record e is d with these fields.
IsBlockWith(e, d, n, c, sc, done) ==
    /\ e \in BlockRecord /\ e.in = n /\ e.cap = c /\ e.stage_cap = sc /\ e.stage = d.stage
    /\ e.stage_pos = d.stage_pos /\ e.done = done

\* What each update of the lz4-block decoder leaves of its fields.
LEMMA BlockWith ==
    ASSUME NEW d \in BlockRecord, NEW n \in Nat, NEW c \in Nat, NEW sc \in Nat
    PROVE  /\ IsBlockWith([d EXCEPT !.in = n], d, n, d.cap, d.stage_cap, d.done)
           /\ IsBlockWith([d EXCEPT !.in = n, !.cap = c], d, n, c, d.stage_cap, d.done)
           /\ IsBlockWith([d EXCEPT !.in = n, !.stage_cap = sc], d, n, d.cap, sc, d.done)
           /\ IsBlockWith([d EXCEPT !.cap = c, !.stage_cap = sc], d, d.in, c, sc, d.done)
           /\ IsBlockWith([d EXCEPT !.stage_cap = sc, !.cap = c], d, d.in, c, sc, d.done)
           /\ IsBlockWith([d EXCEPT !.done = TRUE], d, d.in, d.cap, d.stage_cap, TRUE)
<1>1. IsBlockWith([d EXCEPT !.in = n], d, n, d.cap, d.stage_cap, d.done)
  <2>1. [d EXCEPT !.in = n] \in BlockRecord
    BY DEF BlockRecord
  <2>2. [d EXCEPT !.in = n].in = n
    BY DEF BlockRecord
  <2>3. [d EXCEPT !.in = n].cap = d.cap
    BY DEF BlockRecord
  <2>4. [d EXCEPT !.in = n].stage_cap = d.stage_cap
    BY DEF BlockRecord
  <2>5. [d EXCEPT !.in = n].stage = d.stage
    BY DEF BlockRecord
  <2>6. [d EXCEPT !.in = n].stage_pos = d.stage_pos
    BY DEF BlockRecord
  <2>7. [d EXCEPT !.in = n].done = d.done
    BY DEF BlockRecord
  <2>. QED  BY <2>1, <2>2, <2>3, <2>4, <2>5, <2>6, <2>7, Zenon DEF IsBlockWith
<1>2. IsBlockWith([d EXCEPT !.in = n, !.cap = c], d, n, c, d.stage_cap, d.done)
  <2>1. [d EXCEPT !.in = n, !.cap = c] \in BlockRecord
    BY DEF BlockRecord
  <2>2. [d EXCEPT !.in = n, !.cap = c].in = n
    BY DEF BlockRecord
  <2>3. [d EXCEPT !.in = n, !.cap = c].cap = c
    BY DEF BlockRecord
  <2>4. [d EXCEPT !.in = n, !.cap = c].stage_cap = d.stage_cap
    BY DEF BlockRecord
  <2>5. [d EXCEPT !.in = n, !.cap = c].stage = d.stage
    BY DEF BlockRecord
  <2>6. [d EXCEPT !.in = n, !.cap = c].stage_pos = d.stage_pos
    BY DEF BlockRecord
  <2>7. [d EXCEPT !.in = n, !.cap = c].done = d.done
    BY DEF BlockRecord
  <2>. QED  BY <2>1, <2>2, <2>3, <2>4, <2>5, <2>6, <2>7, Zenon DEF IsBlockWith
<1>3. IsBlockWith([d EXCEPT !.in = n, !.stage_cap = sc], d, n, d.cap, sc, d.done)
  <2>1. [d EXCEPT !.in = n, !.stage_cap = sc] \in BlockRecord
    BY DEF BlockRecord
  <2>2. [d EXCEPT !.in = n, !.stage_cap = sc].in = n
    BY DEF BlockRecord
  <2>3. [d EXCEPT !.in = n, !.stage_cap = sc].cap = d.cap
    BY DEF BlockRecord
  <2>4. [d EXCEPT !.in = n, !.stage_cap = sc].stage_cap = sc
    BY DEF BlockRecord
  <2>5. [d EXCEPT !.in = n, !.stage_cap = sc].stage = d.stage
    BY DEF BlockRecord
  <2>6. [d EXCEPT !.in = n, !.stage_cap = sc].stage_pos = d.stage_pos
    BY DEF BlockRecord
  <2>7. [d EXCEPT !.in = n, !.stage_cap = sc].done = d.done
    BY DEF BlockRecord
  <2>. QED  BY <2>1, <2>2, <2>3, <2>4, <2>5, <2>6, <2>7, Zenon DEF IsBlockWith
<1>4. IsBlockWith([d EXCEPT !.cap = c, !.stage_cap = sc], d, d.in, c, sc, d.done)
  <2>1. [d EXCEPT !.cap = c, !.stage_cap = sc] \in BlockRecord
    BY DEF BlockRecord
  <2>2. [d EXCEPT !.cap = c, !.stage_cap = sc].in = d.in
    BY DEF BlockRecord
  <2>3. [d EXCEPT !.cap = c, !.stage_cap = sc].cap = c
    BY DEF BlockRecord
  <2>4. [d EXCEPT !.cap = c, !.stage_cap = sc].stage_cap = sc
    BY DEF BlockRecord
  <2>5. [d EXCEPT !.cap = c, !.stage_cap = sc].stage = d.stage
    BY DEF BlockRecord
  <2>6. [d EXCEPT !.cap = c, !.stage_cap = sc].stage_pos = d.stage_pos
    BY DEF BlockRecord
  <2>7. [d EXCEPT !.cap = c, !.stage_cap = sc].done = d.done
    BY DEF BlockRecord
  <2>. QED  BY <2>1, <2>2, <2>3, <2>4, <2>5, <2>6, <2>7, Zenon DEF IsBlockWith
<1>5. IsBlockWith([d EXCEPT !.stage_cap = sc, !.cap = c], d, d.in, c, sc, d.done)
  <2>1. [d EXCEPT !.stage_cap = sc, !.cap = c] \in BlockRecord
    BY DEF BlockRecord
  <2>2. [d EXCEPT !.stage_cap = sc, !.cap = c].in = d.in
    BY DEF BlockRecord
  <2>3. [d EXCEPT !.stage_cap = sc, !.cap = c].cap = c
    BY DEF BlockRecord
  <2>4. [d EXCEPT !.stage_cap = sc, !.cap = c].stage_cap = sc
    BY DEF BlockRecord
  <2>5. [d EXCEPT !.stage_cap = sc, !.cap = c].stage = d.stage
    BY DEF BlockRecord
  <2>6. [d EXCEPT !.stage_cap = sc, !.cap = c].stage_pos = d.stage_pos
    BY DEF BlockRecord
  <2>7. [d EXCEPT !.stage_cap = sc, !.cap = c].done = d.done
    BY DEF BlockRecord
  <2>. QED  BY <2>1, <2>2, <2>3, <2>4, <2>5, <2>6, <2>7, Zenon DEF IsBlockWith
<1>6. IsBlockWith([d EXCEPT !.done = TRUE], d, d.in, d.cap, d.stage_cap, TRUE)
  <2>1. [d EXCEPT !.done = TRUE] \in BlockRecord
    BY DEF BlockRecord
  <2>2. [d EXCEPT !.done = TRUE].in = d.in
    BY DEF BlockRecord
  <2>3. [d EXCEPT !.done = TRUE].cap = d.cap
    BY DEF BlockRecord
  <2>4. [d EXCEPT !.done = TRUE].stage_cap = d.stage_cap
    BY DEF BlockRecord
  <2>5. [d EXCEPT !.done = TRUE].stage = d.stage
    BY DEF BlockRecord
  <2>6. [d EXCEPT !.done = TRUE].stage_pos = d.stage_pos
    BY DEF BlockRecord
  <2>7. [d EXCEPT !.done = TRUE].done = TRUE
    BY DEF BlockRecord
  <2>. QED  BY <2>1, <2>2, <2>3, <2>4, <2>5, <2>6, <2>7, Zenon DEF IsBlockWith
<1>. QED  BY <1>1, <1>2, <1>3, <1>4, <1>5, <1>6

\* Gathering the block (zu_int_lz4b_gather) keeps the contract.
LEMMA BlockGatherStep ==
    ASSUME LoopInv, BlockInv, BlockGather
    PROVE  CodecMoves /\ BlockInv'
<1>1. pc = "codec" /\ IsBlock /\ flush # ZU_FINISH
  BY DEF BlockGather
<1>2. b.done = FALSE
  <2>1. ~b.done
    BY DEF BlockGather
  <2>. QED  BY <1>1, <2>1, BlockStage
<1>3. PICK g \in Gather :
        /\ Return(IF g[1] = ZU_OK THEN ZU_NEED_INPUT ELSE g[1], Gathered(g), out)
        /\ b' = [b EXCEPT !.in = g[2]]
  BY DEF BlockGather
<1>. DEFINE st == IF g[1] = ZU_OK THEN ZU_NEED_INPUT ELSE g[1]
<1>4. /\ g[1] \in {ZU_OK, ZU_ERR_INVALID_DATA, ZU_ERR_MEMORY}
      /\ g[2] \in Nat /\ g[2] <= MaxBlockInput
      /\ Gathered(g) = g[2] /\ Gathered(g) \in pos .. fed
      /\ g[1] = ZU_OK => Gathered(g) = fed
      /\ g[1] = ZU_ERR_INVALID_DATA => ZU_ERR_INVALID_DATA \in BlockVerdict
  BY <1>1, <1>2, <1>3, GatherTakes
<1>5. fed < Len(job.input)
  BY <1>1, LoopFacts DEF LoopInv, CallInProgress
<1>6. b.cap = 0 /\ b.stage = <<>> /\ b.stage_pos = 0 /\ b \in BlockRecord
  <2>1. ~(b.cap > 0) /\ b.stage = <<>> /\ b.stage_pos = 0 /\ b \in BlockRecord
    BY <1>1, <1>2 DEF BlockInv, Gathering, Searching, BlockTyped
  <2>2. b.cap = 0
    BY <1>1, <2>1, BlockStage
  <2>. QED  BY <2>1, <2>2
<1>7. /\ b' \in BlockRecord /\ b'.in = g[2] /\ b'.cap = 0 /\ b'.stage_cap = b.stage_cap
      /\ b'.stage = <<>> /\ b'.stage_pos = 0 /\ b'.done = FALSE
  <2>1. IsBlockWith(b', b, g[2], b.cap, b.stage_cap, b.done)
    BY <1>3, <1>4, <1>6, BlockWith
  <2>. QED  BY <1>2, <1>6, <2>1 DEF IsBlockWith
<1>8. /\ st \in Errors \cup {ZU_NEED_INPUT}
      /\ st = ZU_NEED_INPUT => g[1] = ZU_OK
      /\ st \in {ZU_NEED_INPUT, ZU_ERR_MEMORY} \/ st \in BlockVerdict
  BY <1>4 DEF Errors, ZU_NEED_INPUT, ZU_ERR_INVALID_DATA, ZU_ERR_MEMORY, ZU_OK
<1>9. Return(st, Gathered(g), out)
  BY <1>3
<1>10. StageMayBe(b'.stage_cap)
  BY <1>1, <1>7, BlockStage
<1>. HIDE DEF st
<1>. QED  BY <1>1, <1>2, <1>4, <1>5, <1>7, <1>8, <1>9, <1>10, BlockReturns

\* Copying the stage out (zu_int_lz4_drain) keeps the contract.
LEMMA BlockDrainStep ==
    ASSUME LoopInv, BlockInv, BlockDrain
    PROVE  CodecMoves /\ BlockInv'
<1>1. pc = "codec" /\ IsBlock /\ DrainAndReturn(pos, b)
  BY DEF BlockDrain
<1>2. b.done = TRUE
  <2>1. b.done
    BY DEF BlockDrain
  <2>. QED  BY <1>1, <2>1, BlockStage
<1>3. /\ pos = Len(job.input) /\ Allowed /\ out \o Undelivered(b) = Decoded(Len(job.input))
  BY <1>1, <1>2 DEF BlockInv, Delivering
<1>4. b \in BlockRecord /\ b.stage_pos <= Len(b.stage) /\ b.cap = 0
  <2>1. b \in BlockRecord /\ b.stage_pos <= Len(b.stage) /\ ~(b.cap > 0)
    BY <1>1, <1>2 DEF BlockInv, BlockTyped, Searching
  <2>2. b.cap = 0
    BY <1>1, <2>1, BlockStage
  <2>. QED  BY <2>1, <2>2
<1>5. fed = Len(job.input) /\ pos = fed
  BY <1>3, LoopFacts
<1>6. StageMayBe(b.stage_cap) /\ DrainAndReturn(fed, b)
  BY <1>1, <1>5, BlockStage
<1>. QED  BY <1>1, <1>2, <1>3, <1>4, <1>5, <1>6, BlockDelivers

\* Staged gives up the input and keeps the block.
LEMMA StagedIs ==
    ASSUME LoopInv, BlockInv, IsBlock, NEW bytes \in Seq(Nat), NEW cap \in Nat
    PROVE  /\ Staged(bytes, cap) \in BlockRecord /\ Staged(bytes, cap).cap = 0
           /\ Staged(bytes, cap).done = TRUE /\ Staged(bytes, cap).stage_cap = cap
           /\ Staged(bytes, cap).stage_pos = 0 /\ Staged(bytes, cap).stage = bytes
<1>1. b \in BlockRecord
  BY DEF BlockInv, BlockTyped
<1>. DEFINE e == [b EXCEPT !.in = 0, !.cap = 0, !.done = TRUE, !.stage_cap = cap,
                           !.stage_pos = 0, !.stage = bytes]
<1>2. e \in BlockRecord
  BY <1>1 DEF BlockRecord
<1>3. e.cap = 0
  BY <1>1 DEF BlockRecord
<1>4. e.done = TRUE
  BY <1>1 DEF BlockRecord
<1>5. e.stage_cap = cap
  BY <1>1 DEF BlockRecord
<1>6. e.stage_pos = 0
  BY <1>1 DEF BlockRecord
<1>7. e.stage = bytes
  BY <1>1 DEF BlockRecord
<1>8. Staged(bytes, cap) = e
  BY DEF Staged
<1>. HIDE DEF e
<1>. QED  BY <1>2, <1>3, <1>4, <1>5, <1>6, <1>7, <1>8

\* At the end of the input nothing has come out, and what is still to be
\* gathered is all there is.
LEMMA AtEndFacts ==
    ASSUME LoopInv, BlockInv, AtEnd
    PROVE  /\ pc = "codec" /\ IsBlock /\ b.done = FALSE /\ flush = ZU_FINISH
           /\ fed = Len(job.input) /\ b \in BlockRecord
           /\ b.in = pos /\ b.in <= MaxBlockInput /\ out = <<>>
           /\ b.stage = <<>> /\ b.stage_pos = 0
           /\ AvailOut \in Nat /\ AvailOut = call.out + call.allowance /\ call.out \in Nat
           /\ call.allowance \in Nat
<1>1. pc = "codec" /\ IsBlock /\ flush = ZU_FINISH /\ ~b.done
  BY DEF AtEnd
<1>2. b.done = FALSE
  BY <1>1, BlockStage
<1>3. fed = Len(job.input)
  BY <1>1 DEF LoopInv, CallInProgress
<1>4. /\ b \in BlockRecord /\ b.in = pos /\ b.in <= MaxBlockInput /\ out = <<>>
      /\ b.stage = <<>> /\ b.stage_pos = 0
  BY <1>1, <1>2 DEF BlockInv, BlockTyped, Gathering
<1>5. /\ call.out = total_out /\ call.allowance \in Nat /\ total_out \in Nat
      /\ Len(out) <= call.out + call.allowance
  BY <1>1 DEF LoopInv, CallInProgress, CountersAreCursors
<1>6. Len(out) = 0
  BY <1>4
<1>7. AvailOut \in Nat /\ AvailOut = call.out + call.allowance
  BY <1>5, <1>6 DEF AvailOut
<1>. QED  BY <1>1, <1>2, <1>3, <1>4, <1>5, <1>7

\* A whole block decoded into an empty stage is delivered from it.
LEMMA BlockStages ==
    ASSUME LoopInv, BlockInv, AtEnd, Allowed, NEW cap, StageMayBe(cap),
           NEW n, n = Len(job.input), NEW p, p = fed,
           DrainAndReturn(p, Staged(Decoded(n), cap))
    PROVE  CodecMoves /\ BlockInv'
<1>1. pc = "codec" /\ IsBlock /\ fed = Len(job.input) /\ out = <<>>
  BY AtEndFacts
<1>2. Decoded(n) \in Seq(Nat) /\ cap \in Nat
  BY <1>1, WholeBlock DEF StageMayBe
<1>. DEFINE d == Staged(Decoded(n), cap)
<1>3. /\ d \in BlockRecord /\ d.cap = 0 /\ d.done = TRUE /\ d.stage_cap = cap
      /\ d.stage_pos = 0 /\ d.stage = Decoded(n)
  BY <1>1, <1>2, StagedIs
<1>4. DrainAndReturn(fed, d)
  OBVIOUS
<1>. HIDE DEF d
<1>5. d.stage_pos <= Len(d.stage) /\ out \o Undelivered(d) = Decoded(Len(job.input))
  <2>1. Undelivered(d) = Decoded(n)
    BY <1>2, <1>3 DEF Undelivered
  <2>2. <<>> \o Decoded(n) = Decoded(n) /\ 0 <= Len(Decoded(n))
    BY <1>2
  <2>. QED  BY <1>1, <1>3, <2>1, <2>2
<1>6. StageMayBe(d.stage_cap)
  BY <1>3
<1>. QED  BY <1>1, <1>3, <1>4, <1>5, <1>6, BlockDelivers

\* A call that fails at the end with b' like b but for the gathered length
\* and the stage's capacity.
LEMMA BlockFails ==
    ASSUME LoopInv, BlockInv, AtEnd, NEW p \in pos .. fed, NEW st \in Errors, Return(st, p, out),
           st = ZU_ERR_MEMORY \/ st \in BlockVerdict,
           p \in Nat, p <= MaxBlockInput, NEW sc, StageMayBe(sc),
           IsBlockWith(b', b, p, 0, sc, FALSE)
    PROVE  CodecMoves /\ BlockInv'
<1>1. pc = "codec" /\ IsBlock /\ b.done = FALSE /\ b.stage = <<>> /\ b.stage_pos = 0
  BY AtEndFacts
<1>2. /\ b' \in BlockRecord /\ b'.in = p /\ b'.cap = 0 /\ b'.stage_cap = sc
      /\ b'.stage = <<>> /\ b'.stage_pos = 0 /\ b'.done = FALSE
  BY <1>1 DEF IsBlockWith
<1>3. st # ZU_NEED_INPUT
  BY DEF Errors, ZU_NEED_INPUT, ZU_ERR_INVALID_ARGUMENT,
         ZU_ERR_UNSUPPORTED, ZU_ERR_INVALID_DATA, ZU_ERR_TRUNCATED, ZU_ERR_CHECKSUM,
         ZU_ERR_TRAILING, ZU_ERR_MEMORY, ZU_ERR_OUTPUT_LIMIT, ZU_ERR_RATIO_LIMIT, ZU_ERR_INTERNAL
<1>4. st \in Errors \cup {ZU_NEED_INPUT} /\ (st \in {ZU_NEED_INPUT, ZU_ERR_MEMORY} \/ st \in BlockVerdict)
  OBVIOUS
<1>5. b'.in <= MaxBlockInput /\ StageMayBe(b'.stage_cap)
  BY <1>2
<1>. QED  BY <1>1, <1>2, <1>3, <1>4, <1>5, BlockReturns

\* Choosing the first size to try keeps the contract.
LEMMA SearchBeginsStep ==
    ASSUME LoopInv, BlockInv, SearchBegins
    PROVE  CodecMoves /\ BlockInv'
<1>0. AtEnd /\ ~job.opts.has_expected /\ b.cap = 0
  BY DEF SearchBegins
<1>1. /\ pc = "codec" /\ IsBlock /\ b.done = FALSE /\ flush = ZU_FINISH
      /\ fed = Len(job.input) /\ b \in BlockRecord /\ out = <<>>
      /\ b.stage = <<>> /\ b.stage_pos = 0
  BY <1>0, AtEndFacts
<1>2. PICK g \in Gather :
         IF g[1] = ZU_OK /\ g[2] > 0
           THEN /\ Continue(Gathered(g), out)
                /\ b' = [b EXCEPT !.in = g[2], !.cap = FirstCap(g[2])]
           ELSE /\ Return(IF g[1] = ZU_OK THEN ZU_ERR_INVALID_DATA ELSE g[1],
                          Gathered(g), out)
                /\ b' = [b EXCEPT !.in = g[2]]
  BY DEF SearchBegins
<1>3. /\ g[1] \in {ZU_OK, ZU_ERR_INVALID_DATA, ZU_ERR_MEMORY}
      /\ g[2] \in Nat /\ g[2] <= MaxBlockInput
      /\ Gathered(g) = g[2] /\ Gathered(g) \in pos .. fed
      /\ g[1] = ZU_OK => Gathered(g) = fed
      /\ g[1] = ZU_ERR_INVALID_DATA => ZU_ERR_INVALID_DATA \in BlockVerdict
  BY <1>1, GatherTakes
<1>4. StageMayBe(b.stage_cap) /\ b.stage_cap \in Nat /\ b.stage_cap <= GrowthBound
  BY <1>0, <1>1, BlockStage DEF StageMayBe
<1>5. CASE g[1] = ZU_OK /\ g[2] > 0
  <2>1. Continue(fed, out) /\ b' = [b EXCEPT !.in = g[2], !.cap = FirstCap(g[2])]
    BY <1>2, <1>3, <1>5
  <2>2. g[2] = Len(job.input)
    BY <1>1, <1>3, <1>5
  <2>3. /\ FirstCap(g[2]) \in Nat /\ FirstCap(g[2]) > 0 /\ FirstCap(g[2]) <= SearchCeiling(g[2])
        /\ FirstCap(g[2]) <= g[2] * 4 \/ FirstCap(g[2]) <= SearchFloor
    BY <1>3, FirstCapFits
  <2>4. FirstCap(g[2]) <= GrowthBound
    <3>1. /\ GrowthBound \in Nat /\ SearchFloor <= GrowthBound
          /\ 4 * Len(job.input) <= GrowthBound
      BY <1>1, GrowthBoundFits
    <3>. QED  BY <1>3, <2>2, <2>3, <3>1, SearchConstants
  <2>5. IsBlockWith(b', b, g[2], FirstCap(g[2]), b.stage_cap, b.done)
    BY <1>1, <1>3, <2>1, <2>3, BlockWith, BlockStage
  <2>6. /\ pos' = fed /\ out' = out /\ job' = job /\ pc' = pc /\ fed' = fed /\ flush' = flush
    BY <2>1 DEF Continue
  <2>7. Advance(fed, out)
    BY <1>1, LoopFacts DEF Advance, LoopInv, CallInProgress
  <2>8. CodecMoves
    BY <1>1, <2>1, <2>7 DEF CodecMoves
  <2>9. SearchCeiling(g[2])' = SearchCeiling(g[2])
    BY <2>6 DEF SearchCeiling, Limited, FormatCeiling
  <2>10. /\ b' \in BlockRecord /\ b'.in = g[2] /\ b'.cap = FirstCap(g[2])
         /\ b'.stage_cap = b.stage_cap /\ b'.stage = <<>> /\ b'.stage_pos = 0 /\ b'.done = FALSE
    BY <1>1, <2>5 DEF IsBlockWith
  <2>11. BlockTyped' /\ Gathering' /\ Delivering'
    BY <1>1, <1>3, <2>2, <2>6, <2>10, SameJob DEF BlockTyped, Gathering, Delivering
  <2>12. Searching'
    <3>1. SearchCeiling(b.in)' = SearchCeiling(g[2])
      BY <2>6, <2>10 DEF SearchCeiling, Limited, FormatCeiling
    <3>2. job'.opts.has_expected = FALSE
      <4>1. job.opts.has_expected \in BOOLEAN
        BY LoopFacts DEF LimitOpts
      <4>. QED  BY <1>0, <2>6, <4>1
    <3>. QED  BY <1>1, <1>5, <2>2, <2>3, <2>4, <2>6, <2>10, <3>1, <3>2, SameJob DEF Searching
  <2>13. StageIsBounded' /\ BlockVerdictIsExact'
    BY <1>1, <1>4, <2>6, <2>10, SameJob
    DEF StageIsBounded, StageMayBe, GrowthBound, BlockVerdictIsExact, BlockSettled
  <2>. QED  BY <2>8, <2>11, <2>12, <2>13 DEF BlockInv
<1>6. CASE ~(g[1] = ZU_OK /\ g[2] > 0)
  <2>. DEFINE st == IF g[1] = ZU_OK THEN ZU_ERR_INVALID_DATA ELSE g[1]
  <2>1. Return(st, Gathered(g), out) /\ b' = [b EXCEPT !.in = g[2]]
    BY <1>2, <1>6
  <2>2. st \in Errors /\ (st = ZU_ERR_MEMORY \/ st \in BlockVerdict)
    <3>1. CASE g[1] = ZU_OK
      <4>1. Len(job.input) = 0 /\ ~SoundBlock(Len(job.input))
        BY <1>1, <1>3, <1>6, <3>1 DEF SoundBlock
      <4>2. ~Allowed
        BY <4>1 DEF Allowed, BlockFits
      <4>3. BlockSize = 0
        <5>1. BlockSize \in Nat /\ BlockSize <= 0 * Expand
          BY <1>1, <4>1, WholeBlock
        <5>. QED  BY <5>1, SearchConstants
      <4>4. job.opts.max_output \notin 1 .. IntMax - 1 \/ BlockSize < job.opts.max_output
        BY <4>3
      <4>5. ZU_ERR_INVALID_DATA \in BlockVerdict
        BY <1>0, <1>1, <4>2, <4>4, InvalidBlocks
      <4>. QED  BY <3>1, <4>5 DEF Errors
    <3>2. CASE g[1] # ZU_OK
      BY <1>3, <3>2 DEF Errors
    <3>. QED  BY <3>1, <3>2
  <2>3. IsBlockWith(b', b, Gathered(g), 0, b.stage_cap, FALSE)
    BY <1>0, <1>1, <1>3, <1>4, <2>1, BlockWith
  <2>. HIDE DEF st
  <2>. QED  BY <1>0, <1>3, <1>4, <2>1, <2>2, <2>3, BlockFails
<1>. QED  BY <1>5, <1>6

\* What the search knows of its block.
LEMMA SearchFacts ==
    ASSUME LoopInv, BlockInv, AtEnd, b.cap > 0
    PROVE  /\ b.in = Len(job.input) /\ pos = Len(job.input) /\ b.in > 0 /\ b.in \in Nat
           /\ b.cap \in Nat /\ b.cap <= SearchCeiling(b.in) /\ b.cap <= GrowthBound
           /\ job.opts.has_expected = FALSE
<1>1. IsBlock /\ b.in = pos
  BY AtEndFacts
<1>2. /\ pos = Len(job.input) /\ b.in > 0 /\ job.opts.has_expected = FALSE
      /\ b.cap <= SearchCeiling(b.in) /\ b.cap <= GrowthBound
  BY <1>1 DEF BlockInv, Searching
<1>. QED  BY <1>1, <1>2, BlockStage

\* A capacity within the ceiling and the growth bound may be allocated.
LEMMA RoomMayBe ==
    ASSUME LoopInv, BlockInv, AtEnd, b.cap > 0
    PROVE  StageMayBe(Max({b.stage_cap, b.cap}))
<1>1. /\ b.in \in Nat /\ b.cap \in Nat /\ b.cap <= SearchCeiling(b.in) /\ b.cap <= GrowthBound
  BY SearchFacts
<1>2. IsBlock
  BY AtEndFacts
<1>3. b.stage_cap \in Nat /\ StageMayBe(b.stage_cap)
  BY <1>2, BlockStage
<1>4. /\ SearchCeiling(b.in) \in Nat /\ job.opts.max_output \in Nat
      /\ job.opts.max_output # 0 => SearchCeiling(b.in) <= job.opts.max_output
  BY <1>1, SearchCeilingFits
<1>5. StageMayBe(b.cap)
  BY <1>1, <1>4 DEF StageMayBe
<1>6. Max({b.stage_cap, b.cap}) \in {b.stage_cap, b.cap}
  BY <1>1, <1>3, MaxOfTwo
<1>. HIDE DEF Max
<1>. QED  BY <1>3, <1>5, <1>6

\* The verdict a failed search gives is the block's.
LEMMA SearchVerdict ==
    ASSUME LoopInv, BlockInv, AtEnd, b.cap > 0, ~(DecompressSafe(b.in, b.cap) >= 0)
    PROVE  /\ ~WorthMore(b.in, b.cap) => ZU_ERR_INVALID_DATA \in BlockVerdict
           /\ WorthMore(b.in, b.cap) /\ b.cap >= SearchCeiling(b.in) =>
                (IF Limited(b.in) THEN ZU_ERR_OUTPUT_LIMIT ELSE ZU_ERR_INVALID_DATA)
                  \in BlockVerdict
<1>. DEFINE n == b.in
<1>1. /\ n = Len(job.input) /\ n > 0 /\ n \in Nat /\ b.cap \in Nat /\ b.cap <= SearchCeiling(n)
      /\ ~job.opts.has_expected
  BY SearchFacts
<1>2. IsBlock /\ n <= MaxBlockInput
  BY AtEndFacts
<1>3. /\ BlockSize \in Nat /\ BlockSize <= n * Expand /\ n * Expand \in Nat
      /\ ~(SoundBlock(n) /\ BlockSize <= b.cap)
      /\ WorthMore(n, b.cap) <=> BlockSize >= b.cap
  <2>1. /\ BlockSize \in Nat /\ BlockSize <= n * Expand
        /\ \A cap \in Nat : SoundBlock(n) /\ BlockSize <= cap =>
               DecompressSafe(n, cap) = BlockSize
        /\ \A cap \in Nat : cap > 0 => (WorthMore(n, cap) <=> BlockSize >= cap)
    BY <1>1, <1>2, WholeBlock
  <2>2. n * Expand \in Nat
    BY <1>1, SearchConstants
  <2>3. SoundBlock(n) /\ BlockSize <= b.cap => DecompressSafe(n, b.cap) >= 0
    BY <1>1, <2>1
  <2>. QED  BY <1>1, <2>1, <2>2, <2>3
<1>4. /\ FormatCeiling(n) \in Nat /\ FormatCeiling(n) <= IntMax /\ SearchCeiling(n) \in Nat
      /\ job.opts.max_output \in Nat
      /\ job.opts.max_output # 0 => SearchCeiling(n) <= job.opts.max_output
  BY <1>1, SearchCeilingFits
<1>5. Allowed => SoundBlock(n) /\ BlockSize <= IntMax
                   /\ (job.opts.max_output # 0 => BlockSize <= job.opts.max_output)
  BY <1>1 DEF Allowed, BlockFits
<1>. HIDE DEF n
<1>6. ASSUME ~WorthMore(n, b.cap) PROVE ZU_ERR_INVALID_DATA \in BlockVerdict
  <2>1. BlockSize < b.cap
    BY <1>1, <1>3, <1>6
  <2>2. ~Allowed
    BY <1>1, <1>3, <1>5, <2>1
  <2>3. job.opts.max_output \notin 1 .. IntMax - 1 \/ BlockSize < job.opts.max_output
    BY <1>1, <1>3, <1>4, <2>1
  <2>. QED  BY <1>1, <1>2, <2>2, <2>3, InvalidBlocks
<1>7. ASSUME WorthMore(n, b.cap), b.cap >= SearchCeiling(n), Limited(n)
      PROVE  ZU_ERR_OUTPUT_LIMIT \in BlockVerdict
  <2>1. /\ job.opts.max_output # 0 /\ job.opts.max_output < FormatCeiling(n)
        /\ b.cap = job.opts.max_output
    BY <1>1, <1>4, <1>7 DEF Limited, SearchCeiling
  <2>2. job.opts.max_output \in 1 .. IntMax - 1 /\ BlockSize >= job.opts.max_output
    BY <1>3, <1>4, <1>7, <2>1, SearchConstants
  <2>3. ~Allowed
    BY <1>3, <1>5, <2>1
  <2>. QED  BY <1>1, <1>2, <2>2, <2>3, InvalidBlocks
<1>8. ASSUME WorthMore(n, b.cap), b.cap >= SearchCeiling(n), ~Limited(n)
      PROVE  ZU_ERR_INVALID_DATA \in BlockVerdict
  <2>1. /\ job.opts.max_output = 0 \/ job.opts.max_output >= FormatCeiling(n)
        /\ b.cap = FormatCeiling(n)
    BY <1>1, <1>4, <1>8 DEF Limited, SearchCeiling
  <2>2. FormatCeiling(n) = IntMax
    <3>1. BlockSize >= FormatCeiling(n) /\ n * Expand < n * Expand + Slack
      BY <1>3, <1>8, <2>1, SearchConstants
    <3>. QED  BY <1>3, <3>1, SearchConstants DEF FormatCeiling, LeastOf
  <2>3. ~Allowed
    BY <1>3, <1>5, <2>1, <2>2
  <2>4. job.opts.max_output \notin 1 .. IntMax - 1
    BY <1>4, <2>1, <2>2, SearchConstants
  <2>. QED  BY <1>1, <1>2, <2>3, <2>4, InvalidBlocks
<1>. QED  BY <1>6, <1>7, <1>8 DEF n

\* A search that gives up keeps the contract, with a verdict the block deserves.
LEMMA SearchFailsStep ==
    ASSUME LoopInv, BlockInv, AtEnd, b.cap > 0, NEW st \in Errors,
           st = ZU_ERR_MEMORY \/ st \in BlockVerdict, NEW sc, StageMayBe(sc), SearchFails(st, sc)
    PROVE  CodecMoves /\ BlockInv'
<1>1. Return(st, pos, out) /\ b' = [b EXCEPT !.cap = 0, !.stage_cap = sc]
  BY DEF SearchFails
<1>2. b \in BlockRecord /\ b.in = pos /\ b.in <= MaxBlockInput /\ b.done = FALSE
  BY AtEndFacts
<1>3. sc \in Nat
  BY DEF StageMayBe
<1>4. IsBlockWith(b', b, b.in, 0, sc, b.done)
  BY <1>1, <1>2, <1>3, BlockWith
<1>5. IsBlockWith(b', b, pos, 0, sc, FALSE)
  BY <1>2, <1>4
<1>6. pos \in pos .. fed /\ pos \in Nat /\ pos <= MaxBlockInput
  BY <1>2, LoopFacts
<1>. QED  BY <1>1, <1>5, <1>6, BlockFails

\* Trying a size (zu_int_lz4b_search) keeps the contract.
LEMMA SearchTryStep ==
    ASSUME LoopInv, BlockInv, SearchTry
    PROVE  CodecMoves /\ BlockInv'
<1>. DEFINE n    == b.in
            room == Max({b.stage_cap, b.cap})
<1>0. AtEnd /\ b.cap > 0
  BY DEF SearchTry
<1>1. /\ pc = "codec" /\ IsBlock /\ b.done = FALSE /\ flush = ZU_FINISH
      /\ fed = Len(job.input) /\ b \in BlockRecord /\ out = <<>>
      /\ b.stage = <<>> /\ b.stage_pos = 0 /\ n = pos /\ n <= MaxBlockInput
  BY <1>0, AtEndFacts
<1>2. /\ n = Len(job.input) /\ pos = Len(job.input) /\ n > 0 /\ n \in Nat
      /\ b.cap \in Nat /\ b.cap <= SearchCeiling(n) /\ b.cap <= GrowthBound
      /\ job.opts.has_expected = FALSE
  BY <1>0, SearchFacts
<1>3. StageMayBe(room) /\ StageMayBe(b.stage_cap) /\ room \in Nat
  BY <1>0, <1>1, RoomMayBe, BlockStage DEF StageMayBe
<1>4. \/ b.cap > b.stage_cap /\ SearchFails(ZU_ERR_MEMORY, b.stage_cap)
      \/ IF DecompressSafe(n, b.cap) >= 0
           THEN DrainAndReturn(pos, Staged(Decoded(n), room))
         ELSE IF ~WorthMore(n, b.cap) THEN SearchFails(ZU_ERR_INVALID_DATA, room)
         ELSE IF b.cap >= SearchCeiling(n)
           THEN SearchFails(IF Limited(n) THEN ZU_ERR_OUTPUT_LIMIT
                                          ELSE ZU_ERR_INVALID_DATA, room)
         ELSE /\ Continue(pos, out)
              /\ b' = [b EXCEPT !.stage_cap = room, !.cap = NextCap(n, b.cap)]
  BY DEF SearchTry
<1>5. ZU_ERR_MEMORY \in Errors /\ ZU_ERR_INVALID_DATA \in Errors /\ ZU_ERR_OUTPUT_LIMIT \in Errors
  BY DEF Errors
<1>. HIDE DEF room
<1>6. CASE SearchFails(ZU_ERR_MEMORY, b.stage_cap)
  BY <1>0, <1>3, <1>5, <1>6, SearchFailsStep
<1>7. CASE DecompressSafe(n, b.cap) >= 0 /\ DrainAndReturn(pos, Staged(Decoded(n), room))
  <2>1. SoundBlock(n) /\ BlockSize <= b.cap /\ BlockSize \in Nat
    BY <1>1, <1>2, <1>7, WholeBlock
  <2>2. /\ SearchCeiling(n) \in Nat /\ SearchCeiling(n) <= FormatCeiling(n)
        /\ FormatCeiling(n) \in Nat /\ FormatCeiling(n) <= IntMax
        /\ job.opts.max_output \in Nat
        /\ job.opts.max_output # 0 => SearchCeiling(n) <= job.opts.max_output
    BY <1>2, SearchCeilingFits
  <2>3. BlockSize <= IntMax /\ (job.opts.max_output # 0 => BlockSize <= job.opts.max_output)
    BY <1>2, <2>1, <2>2, SearchConstants
  <2>4. Allowed
    BY <1>1, <1>2, <2>1, <2>3 DEF Allowed, BlockFits
  <2>5. pos = fed
    BY <1>1, <1>2
  <2>. HIDE DEF n
  <2>. QED  BY <1>0, <1>2, <1>3, <1>7, <2>4, <2>5, BlockStages
<1>8. CASE /\ ~(DecompressSafe(n, b.cap) >= 0) /\ ~WorthMore(n, b.cap)
           /\ SearchFails(ZU_ERR_INVALID_DATA, room)
  <2>1. ZU_ERR_INVALID_DATA \in BlockVerdict
    BY <1>0, <1>8, SearchVerdict
  <2>. QED  BY <1>0, <1>3, <1>5, <1>8, <2>1, SearchFailsStep
<1>9. CASE /\ ~(DecompressSafe(n, b.cap) >= 0) /\ WorthMore(n, b.cap) /\ b.cap >= SearchCeiling(n)
           /\ SearchFails(IF Limited(n) THEN ZU_ERR_OUTPUT_LIMIT ELSE ZU_ERR_INVALID_DATA, room)
  <2>. DEFINE st == IF Limited(n) THEN ZU_ERR_OUTPUT_LIMIT ELSE ZU_ERR_INVALID_DATA
  <2>1. st \in BlockVerdict /\ st \in Errors
    BY <1>0, <1>5, <1>9, SearchVerdict
  <2>2. SearchFails(st, room)
    BY <1>9
  <2>. HIDE DEF st
  <2>. QED  BY <1>0, <1>3, <2>1, <2>2, SearchFailsStep
<1>10. CASE /\ WorthMore(n, b.cap) /\ ~(b.cap >= SearchCeiling(n)) /\ Continue(pos, out)
            /\ b' = [b EXCEPT !.stage_cap = room, !.cap = NextCap(n, b.cap)]
  <2>1. /\ NextCap(n, b.cap) \in Nat /\ NextCap(n, b.cap) > 0
        /\ NextCap(n, b.cap) <= SearchCeiling(n) /\ NextCap(n, b.cap) <= 4 * b.cap
    BY <1>0, <1>2, NextCapFits
  <2>2. NextCap(n, b.cap) <= GrowthBound
    <3>1. /\ BlockSize \in Nat /\ BlockSize >= b.cap
      BY <1>0, <1>1, <1>2, <1>10, WholeBlock
    <3>2. GrowthBound \in Nat /\ 4 * BlockSize <= GrowthBound
      BY <1>1, GrowthBoundFits
    <3>. QED  BY <1>2, <2>1, <3>1, <3>2
  <2>3. IsBlockWith(b', b, b.in, NextCap(n, b.cap), room, b.done)
    BY <1>1, <1>3, <1>10, <2>1, BlockWith
  <2>4. /\ pos' = pos /\ out' = out /\ job' = job /\ pc' = pc /\ fed' = fed /\ flush' = flush
    BY <1>10 DEF Continue
  <2>5. Advance(pos, out)
    BY <1>1, LoopFacts DEF Advance, LoopInv, CallInProgress
  <2>6. CodecMoves
    BY <1>1, <1>10, <2>5 DEF CodecMoves
  <2>7. /\ b' \in BlockRecord /\ b'.in = b.in /\ b'.cap = NextCap(n, b.cap)
        /\ b'.stage_cap = room /\ b'.stage = <<>> /\ b'.stage_pos = 0 /\ b'.done = FALSE
    BY <1>1, <2>3 DEF IsBlockWith
  <2>8. BlockTyped' /\ Gathering' /\ Delivering'
    BY <1>1, <2>4, <2>7, SameJob DEF BlockTyped, Gathering, Delivering
  <2>9. Searching'
    <3>1. SearchCeiling(b.in)' = SearchCeiling(n)
      BY <2>4, <2>7 DEF SearchCeiling, Limited, FormatCeiling
    <3>. QED  BY <1>1, <1>2, <2>1, <2>2, <2>4, <2>7, <3>1, SameJob DEF Searching
  <2>10. StageIsBounded' /\ BlockVerdictIsExact'
    BY <1>1, <1>3, <2>4, <2>7, SameJob
    DEF StageIsBounded, StageMayBe, GrowthBound, BlockVerdictIsExact, BlockSettled
  <2>. QED  BY <2>6, <2>8, <2>9, <2>10 DEF BlockInv
<1>. QED  BY <1>4, <1>6, <1>7, <1>8, <1>9, <1>10

\* Decoded to the promised size or not at all.
LEMMA PromiseVerdict ==
    ASSUME LoopInv, BlockInv, AtEnd, job.opts.has_expected, Refused = ZU_OK,
           NEW n, n = Len(job.input)
    PROVE  LET want == job.opts.expected_size
           IN  /\ want \in Nat
               /\ job.opts.max_output # 0 => want <= job.opts.max_output
               /\ /\ n <= MaxBlockInput /\ DecompressSafe(n, want) = want
                  => Allowed /\ Len(Decoded(n)) = want
               /\ n = 0 \/ n > MaxBlockInput \/ DecompressSafe(n, want) # want
                  => ZU_ERR_INVALID_DATA \in BlockVerdict
<1>. DEFINE want == job.opts.expected_size
<1>1. IsBlock /\ n \in Nat
  BY AtEndFacts, LoopFacts
<1>2. want \in Nat /\ job.opts.max_output \in Nat
  BY LoopFacts DEF LimitOpts
<1>3. want <= IntMax /\ (job.opts.max_output # 0 => want <= job.opts.max_output)
  BY <1>2, SearchConstants DEF Refused, ZU_OK, ZU_ERR_OUTPUT_LIMIT, ZU_ERR_INVALID_DATA
<1>4. /\ BlockSize \in Nat /\ (SoundBlock(n) => Len(Decoded(n)) = BlockSize)
      /\ DecompressSafe(n, want) >= 0 =>
           SoundBlock(n) /\ BlockSize <= want /\ DecompressSafe(n, want) = BlockSize
      /\ SoundBlock(n) /\ BlockSize <= want => DecompressSafe(n, want) = BlockSize
  BY <1>1, <1>2, WholeBlock
<1>. HIDE DEF want
<1>5. ASSUME n <= MaxBlockInput, DecompressSafe(n, want) = want
      PROVE  Allowed /\ Len(Decoded(n)) = want
  <2>1. SoundBlock(n) /\ BlockSize = want
    BY <1>2, <1>4, <1>5
  <2>2. Allowed
    BY <1>3, <1>5, <2>1 DEF Allowed, BlockFits, want
  <2>. QED  BY <1>4, <2>1, <2>2
<1>6. ASSUME n = 0 \/ n > MaxBlockInput \/ DecompressSafe(n, want) # want
      PROVE  ZU_ERR_INVALID_DATA \in BlockVerdict
  <2>1. Allowed => SoundBlock(n) /\ n <= MaxBlockInput /\ BlockSize = want
    BY DEF Allowed, BlockFits, want
  <2>2. SoundBlock(n) => n > 0
    BY DEF SoundBlock
  <2>3. ~Allowed
    BY <1>1, <1>4, <1>6, <2>1, <2>2, SearchConstants
  <2>. QED  BY <1>1, <1>3, <2>3, InvalidBlocks DEF want
<1>. QED  BY <1>2, <1>3, <1>5, <1>6 DEF want

\* Decoding a promised size straight into the caller's window keeps it.
LEMMA InPlaceStep ==
    ASSUME LoopInv, BlockInv, AtEnd, job.opts.has_expected, Refused = ZU_OK, b.cap = 0,
           b.in = 0, NEW want, want = job.opts.expected_size, AvailOut >= want,
           ExpectedInPlace(want)
    PROVE  CodecMoves /\ BlockInv'
<1>1. /\ pc = "codec" /\ IsBlock /\ b.done = FALSE /\ flush = ZU_FINISH
      /\ fed = Len(job.input) /\ b \in BlockRecord /\ b.in = pos /\ out = <<>>
      /\ b.stage = <<>> /\ b.stage_pos = 0 /\ b.in <= MaxBlockInput
      /\ AvailOut = call.out + call.allowance /\ AvailOut \in Nat
  BY AtEndFacts
<1>. DEFINE n == Len(job.input)
<1>2. AvailIn = n /\ pos = 0 /\ n \in Nat
  BY <1>1, LoopFacts DEF AvailIn
<1>3. /\ want \in Nat
      /\ /\ n <= MaxBlockInput /\ DecompressSafe(n, want) = want
         => Allowed /\ Len(Decoded(n)) = want
      /\ n = 0 \/ n > MaxBlockInput \/ DecompressSafe(n, want) # want
         => ZU_ERR_INVALID_DATA \in BlockVerdict
  BY PromiseVerdict
<1>4. StageMayBe(b.stage_cap) /\ b.stage_cap \in Nat
  BY <1>1, BlockStage
<1>5. CASE n = 0 \/ n > MaxBlockInput \/ DecompressSafe(n, want) # want
  <2>1. Return(ZU_ERR_INVALID_DATA, pos, out) /\ b' = b
    BY <1>2, <1>5 DEF ExpectedInPlace
  <2>2. IsBlockWith(b', b, pos, 0, b.stage_cap, FALSE)
    BY <1>1, <2>1 DEF IsBlockWith
  <2>3. pos \in pos .. fed /\ pos \in Nat /\ pos <= MaxBlockInput /\ ZU_ERR_INVALID_DATA \in Errors
    BY <1>1, LoopFacts DEF Errors
  <2>4. ZU_ERR_INVALID_DATA \in BlockVerdict
    BY <1>3, <1>5
  <2>. QED  BY <1>4, <2>1, <2>2, <2>3, <2>4, BlockFails
<1>6. CASE ~(n = 0 \/ n > MaxBlockInput \/ DecompressSafe(n, want) # want)
  <2>1. Return(ZU_STREAM_END, fed, out \o Decoded(n)) /\ b' = [b EXCEPT !.done = TRUE]
    BY <1>2, <1>6 DEF ExpectedInPlace
  <2>2. Allowed /\ Len(Decoded(n)) = want
    BY <1>2, <1>3, <1>6, SearchConstants
  <2>3. Decoded(n) \in Seq(Nat)
    BY <1>1, WholeBlock
  <2>4. out \o Decoded(n) = Decoded(n)
    BY <1>1, <2>3
  <2>5. Return(ZU_STREAM_END, fed, Decoded(n))
    BY <2>1, <2>4
  <2>6. Len(out) = 0
    BY <1>1
  <2>7. Advance(fed, Decoded(n))
    BY <1>1, <1>3, <2>2, <2>3, <2>6, LoopFacts DEF Advance
  <2>8. CodecMoves
    <3>1. ZU_STREAM_END \in Status
      BY DEF Status, Progress
    <3>. QED  BY <1>1, <2>5, <2>7, <3>1 DEF CodecMoves
  <2>9. BlockVerdictIsExact'
    BY <1>1, <2>2, <2>5, <2>7, BlockEnds
  <2>10. pos' = fed /\ out' = Decoded(n) /\ job' = job
    BY <1>1, <2>5, <2>7, ReturnGives
  <2>11. IsBlockWith(b', b, b.in, b.cap, b.stage_cap, TRUE)
    BY <1>1, <2>1, BlockWith
  <2>12. /\ b' \in BlockRecord /\ b'.cap = 0 /\ b'.stage_cap = b.stage_cap
         /\ b'.stage = <<>> /\ b'.stage_pos = 0 /\ b'.done = TRUE
    BY <1>1, <2>11 DEF IsBlockWith
  <2>13. BlockTyped' /\ Gathering' /\ Searching'
    BY <2>12 DEF BlockTyped, Gathering, Searching
  <2>14. Delivering'
    <3>1. Undelivered(b)' = <<>>
      BY <2>12 DEF Undelivered
    <3>2. Decoded(n) \o <<>> = Decoded(n)
      BY <2>3
    <3>3. /\ pos' = Len(job'.input) /\ Allowed'
          /\ Decoded(Len(job.input))' = Decoded(n)
      BY <1>1, <2>2, <2>10, SameJob
    <3>4. (out \o Undelivered(b))' = Decoded(n)
      BY <2>10, <3>1, <3>2
    <3>. QED  BY <3>3, <3>4 DEF Delivering
  <2>15. StageIsBounded'
    BY <1>4, <2>10, <2>12, SameJob DEF StageIsBounded, StageMayBe, GrowthBound
  <2>. QED  BY <2>8, <2>9, <2>13, <2>14, <2>15 DEF BlockInv
<1>. QED  BY <1>5, <1>6

\* Decoding a promised size through the stage keeps it.
LEMMA StagedStep ==
    ASSUME LoopInv, BlockInv, AtEnd, job.opts.has_expected, Refused = ZU_OK, b.cap = 0,
           NEW want, want = job.opts.expected_size, NEW g \in Gather, ExpectedStaged(g, want)
    PROVE  CodecMoves /\ BlockInv'
<1>. DEFINE cap == Max({want, b.stage_cap})
<1>1. /\ pc = "codec" /\ IsBlock /\ b.done = FALSE /\ fed = Len(job.input) /\ b \in BlockRecord
  BY AtEndFacts
<1>2. /\ g[1] \in {ZU_OK, ZU_ERR_INVALID_DATA, ZU_ERR_MEMORY}
      /\ g[2] \in Nat /\ g[2] <= MaxBlockInput
      /\ Gathered(g) = g[2] /\ Gathered(g) \in pos .. fed
      /\ g[1] = ZU_OK => Gathered(g) = fed
      /\ g[1] = ZU_ERR_INVALID_DATA => ZU_ERR_INVALID_DATA \in BlockVerdict
  BY <1>1, GatherTakes
<1>. DEFINE n == Len(job.input)
<1>3. /\ want \in Nat /\ (job.opts.max_output # 0 => want <= job.opts.max_output)
      /\ /\ n <= MaxBlockInput /\ DecompressSafe(n, want) = want
         => Allowed /\ Len(Decoded(n)) = want
      /\ n = 0 \/ n > MaxBlockInput \/ DecompressSafe(n, want) # want
         => ZU_ERR_INVALID_DATA \in BlockVerdict
  BY PromiseVerdict
<1>4. StageMayBe(b.stage_cap) /\ b.stage_cap \in Nat
  BY <1>1, BlockStage
<1>5. StageMayBe(cap)
  <2>1. StageMayBe(want)
    BY <1>3 DEF StageMayBe
  <2>2. cap \in {want, b.stage_cap}
    BY <1>3, <1>4, MaxOfTwo
  <2>. HIDE DEF cap
  <2>. QED  BY <1>4, <2>1, <2>2
<1>. HIDE DEF cap, n
<1>6. ASSUME NEW st \in Errors, st = ZU_ERR_MEMORY \/ st \in BlockVerdict,
             NEW sc, StageMayBe(sc), Return(st, Gathered(g), out),
             b' = [b EXCEPT !.in = g[2], !.stage_cap = sc]
      PROVE  CodecMoves /\ BlockInv'
  <2>1. sc \in Nat
    BY <1>6 DEF StageMayBe
  <2>2. IsBlockWith(b', b, g[2], b.cap, sc, b.done)
    BY <1>1, <1>2, <1>6, <2>1, BlockWith
  <2>3. IsBlockWith(b', b, Gathered(g), 0, sc, FALSE)
    BY <1>1, <1>2, <2>2
  <2>. QED  BY <1>2, <1>6, <2>3, BlockFails
<1>7. ZU_ERR_MEMORY \in Errors /\ ZU_ERR_INVALID_DATA \in Errors
  BY DEF Errors
<1>8. CASE g[1] # ZU_OK
  <2>1. Return(g[1], Gathered(g), out) /\ b' = [b EXCEPT !.in = g[2], !.stage_cap = b.stage_cap]
    BY <1>8 DEF ExpectedStaged
  <2>. QED  BY <1>2, <1>4, <1>6, <1>7, <1>8, <2>1
<1>9. CASE g[1] = ZU_OK
  <2>0. g[2] = n
    BY <1>1, <1>2, <1>9 DEF n
  <2>1. CASE g[2] = 0
    <3>1. Return(ZU_ERR_INVALID_DATA, Gathered(g), out)
          /\ b' = [b EXCEPT !.in = g[2], !.stage_cap = b.stage_cap]
      BY <1>9, <2>1 DEF ExpectedStaged
    <3>2. ZU_ERR_INVALID_DATA \in BlockVerdict
      BY <1>3, <2>0, <2>1
    <3>. QED  BY <1>4, <1>6, <1>7, <3>1, <3>2
  <2>2. CASE /\ Return(ZU_ERR_MEMORY, Gathered(g), out)
             /\ b' = [b EXCEPT !.in = g[2], !.stage_cap = b.stage_cap]
    BY <1>4, <1>6, <1>7, <2>2
  <2>3. CASE /\ DecompressSafe(g[2], want) = want
             /\ DrainAndReturn(Gathered(g), Staged(Decoded(g[2]), cap))
    <3>1. Allowed
      BY <1>2, <1>3, <2>0, <2>3
    <3>2. Gathered(g) = fed /\ g[2] = Len(job.input)
      BY <1>2, <1>9, <2>0 DEF n
    <3>. QED  BY <1>5, <2>3, <3>1, <3>2, BlockStages
  <2>4. CASE /\ DecompressSafe(g[2], want) # want
             /\ Return(ZU_ERR_INVALID_DATA, Gathered(g), out)
             /\ b' = [b EXCEPT !.in = g[2], !.stage_cap = cap]
    <3>1. ZU_ERR_INVALID_DATA \in BlockVerdict
      BY <1>3, <2>0, <2>4
    <3>. QED  BY <1>5, <1>6, <1>7, <2>4, <3>1
  <2>5. \/ g[2] = 0
        \/ /\ Return(ZU_ERR_MEMORY, Gathered(g), out)
           /\ b' = [b EXCEPT !.in = g[2], !.stage_cap = b.stage_cap]
        \/ /\ DecompressSafe(g[2], want) = want
           /\ DrainAndReturn(Gathered(g), Staged(Decoded(g[2]), cap))
        \/ /\ DecompressSafe(g[2], want) # want
           /\ Return(ZU_ERR_INVALID_DATA, Gathered(g), out)
           /\ b' = [b EXCEPT !.in = g[2], !.stage_cap = cap]
    BY <1>9 DEF ExpectedStaged, cap
  <2>. QED  BY <2>1, <2>2, <2>3, <2>4, <2>5
<1>. QED  BY <1>8, <1>9

\* A block whose size was promised keeps the contract, either way.
LEMMA BlockExpectedStep ==
    ASSUME LoopInv, BlockInv, BlockExpected
    PROVE  CodecMoves /\ BlockInv'
<1>. DEFINE want == job.opts.expected_size
<1>0. AtEnd /\ job.opts.has_expected
  BY DEF BlockExpected
<1>1. /\ pc = "codec" /\ IsBlock /\ b.done = FALSE /\ b \in BlockRecord /\ b.in = pos
      /\ b.in <= MaxBlockInput
  BY <1>0, AtEndFacts
<1>2. b.cap = 0 /\ StageMayBe(b.stage_cap)
  <2>1. ~(b.cap > 0)
    BY <1>0, <1>1 DEF BlockInv, Searching
  <2>. QED  BY <1>1, <2>1, BlockStage
<1>3. \/ Refused # ZU_OK /\ Return(Refused, pos, out) /\ b' = b
      \/ Refused = ZU_OK /\ b.in = 0 /\ AvailOut >= want /\ ExpectedInPlace(want)
      \/ Refused = ZU_OK /\ \E g \in Gather : ExpectedStaged(g, want)
  BY DEF BlockExpected
<1>4. CASE Refused # ZU_OK /\ Return(Refused, pos, out) /\ b' = b
  <2>1. Refused \in Errors /\ Refused \in BlockVerdict
    <3>0. /\ job.opts.expected_size \in Nat /\ job.opts.max_output \in Nat /\ BlockSize \in Nat
      BY <1>1, BlockNumbers
    <3>1. CASE job.opts.max_output # 0 /\ job.opts.expected_size > job.opts.max_output
      <4>1. Refused = ZU_ERR_OUTPUT_LIMIT
        BY <3>1 DEF Refused
      <4>2. ZU_ERR_OUTPUT_LIMIT \in BlockVerdict
        BY <1>0, <1>1, <3>1, InvalidBlocks
      <4>. QED  BY <4>1, <4>2 DEF Errors
    <3>2. CASE ~(job.opts.max_output # 0 /\ job.opts.expected_size > job.opts.max_output)
      <4>1. Refused = ZU_ERR_INVALID_DATA /\ job.opts.expected_size > IntMax
        BY <1>4, <3>2 DEF Refused
      <4>2. ~Allowed
        BY <1>0, <3>0, <4>1, SearchConstants DEF Allowed, BlockFits
      <4>3. ZU_ERR_INVALID_DATA \in BlockVerdict
        BY <1>0, <1>1, <3>0, <3>2, <4>2, InvalidBlocks
      <4>. QED  BY <4>1, <4>3 DEF Errors
    <3>. QED  BY <3>1, <3>2
  <2>2. IsBlockWith(b', b, pos, 0, b.stage_cap, FALSE)
    BY <1>1, <1>2, <1>4 DEF IsBlockWith
  <2>3. pos \in pos .. fed /\ pos \in Nat /\ pos <= MaxBlockInput
    BY <1>1, LoopFacts
  <2>. QED  BY <1>0, <1>2, <1>4, <2>1, <2>2, <2>3, BlockFails
<1>5. CASE Refused = ZU_OK /\ b.in = 0 /\ AvailOut >= want /\ ExpectedInPlace(want)
  BY <1>0, <1>2, <1>5, InPlaceStep
<1>6. CASE Refused = ZU_OK /\ \E g \in Gather : ExpectedStaged(g, want)
  BY <1>0, <1>2, <1>6, StagedStep
<1>. QED  BY <1>3, <1>4, <1>5, <1>6

\* Every step of the codec keeps the contract and the invariant.
LEMMA BlockSteps ==
    ASSUME LoopInv, BlockInv, BlockStep
    PROVE  CodecMoves /\ BlockInv'
BY BlockDrainStep, BlockGatherStep, BlockExpectedStep, SearchBeginsStep, SearchTryStep
DEF BlockStep

----------------------------------------------------------------------------
(***************************************************************************)
(* The identity codec.  Between two calls it has delivered exactly what it *)
(* took, and it returns from every call at its first turn.                 *)
(***************************************************************************)
IdentityInv ==
    job.wrap = "identity" =>
        /\ out = Decoded(pos) /\ Len(out) = pos
        /\ pc = "codec" => call.pos = pos /\ call.out = Len(out)
        /\ IdentityIsExact

\* As many bytes as were taken are within every ratio.
LEMMA RatioOfOne ==
    ASSUME NEW o \in LimitOpts, NEW n \in Nat, n <= U64Max, NEW st
    PROVE  ~RatioExceeded(o, st, n, n)
<1>1. o.max_ratio \in Nat /\ U64Max \in Nat
  BY U64MaxAssumption DEF LimitOpts
<1>2. CASE o.max_ratio = 0
  BY <1>2 DEF RatioExceeded
<1>3. CASE o.max_ratio # 0 /\ n > 0
  <2>1. n * o.max_ratio >= n /\ n * o.max_ratio \in Nat
    BY <1>1, <1>3
  <2>2. RatioAllowed(o, n) = U64Max \/ RatioAllowed(o, n) = n * o.max_ratio
    BY <1>3 DEF RatioAllowed
  <2>3. ~(n > RatioAllowed(o, n))
    BY <1>1, <2>1, <2>2
  <2>. QED  BY <2>3 DEF RatioExceeded
<1>. QED  BY <1>2, <1>3 DEF RatioExceeded

\* Within the ceiling is within each limit.
LEMMA CeilingIsLeast ==
    ASSUME NEW o \in LimitOpts, NEW n \in Nat, HasCeiling(o) => n <= Ceiling(o)
    PROVE  /\ o.max_output # 0 => n <= o.max_output
           /\ o.has_expected => n <= o.expected_size
           /\ o.max_output \in Nat /\ o.expected_size \in Nat
<1>1. o.max_output \in Nat /\ o.expected_size \in Nat
  BY U64MaxAssumption DEF LimitOpts
<1>. QED  BY <1>1 DEF HasCeiling, Ceiling, ExpectedBinds

\* The driver's status for a codec that passes its input on.
LEMMA IdentityStatus ==
    ASSUME NEW o \in LimitOpts, NEW c, c.total_out \in Nat, c.total_in = c.total_out,
           c.total_out <= U64Max, HasCeiling(o) => c.total_out <= Ceiling(o),
           c.left \in Nat
    PROVE  /\ (c.st = ZU_NEED_OUTPUT /\ c.capped = TRUE /\ c.produced = c.allowance)
                => DriverStatus(o, c) = OverStatus(o)
           /\ c.st = ZU_NEED_OUTPUT /\ c.capped = FALSE => DriverStatus(o, c) = ZU_NEED_OUTPUT
           /\ c.st = ZU_NEED_INPUT /\ c.left = 0 => DriverStatus(o, c) = ZU_NEED_INPUT
           /\ (c.st = ZU_STREAM_END /\ c.left = 0)
                => DriverStatus(o, c) = IF o.has_expected /\ c.total_out # o.expected_size
                                          THEN ZU_ERR_INVALID_DATA ELSE ZU_STREAM_END
<1>1. ~RatioExceeded(o, c.st, c.total_in, c.total_out)
  BY RatioOfOne
<1>2. /\ ~(o.max_output # 0 /\ c.total_out > o.max_output)
      /\ ~(o.has_expected /\ c.total_out > o.expected_size)
  BY CeilingIsLeast
<1>3. ~(c.left = 0 /\ c.left > 0)
  OBVIOUS
<1>. QED  BY <1>1, <1>2, <1>3 DEF DriverStatus, ZU_STREAM_END, ZU_NEED_OUTPUT, ZU_NEED_INPUT

\* What the codec moves: as many bytes as it has both input and room for.
LEMMA IdentityMoves ==
    ASSUME LoopInv, IdentityInv, pc = "codec", job.wrap = "identity",
           NEW n, n = LeastOf(AvailIn, AvailOut)
    PROVE  /\ n \in Nat /\ AvailIn \in Nat /\ n <= AvailIn
           /\ n < AvailIn => n = call.allowance
           /\ out \o FlattenSeq([i \in 1 .. n |-> BytesOf(pos + i)]) = Decoded(pos + n)
           /\ Decoded(pos + n) \in Seq(Nat) /\ Len(Decoded(pos + n)) = pos + n
           /\ Advance(pos + n, Decoded(pos + n))
<1>1. /\ out = Decoded(pos) /\ Len(out) = pos /\ call.pos = pos /\ call.out = Len(out)
  BY DEF IdentityInv
<1>2. /\ call.allowance \in Nat /\ job \in Jobs /\ pos \in Nat /\ fed \in Nat
      /\ fed <= Len(job.input) /\ Len(job.input) \in Nat /\ pos <= fed
  BY LoopFacts DEF LoopInv, CallInProgress
<1>3. AvailIn = fed - pos /\ AvailIn \in Nat /\ AvailOut = call.allowance
  BY <1>1, <1>2 DEF AvailIn, AvailOut
<1>4. n \in Nat /\ n <= AvailIn /\ n <= call.allowance /\ (n < AvailIn => n = call.allowance)
  BY <1>2, <1>3 DEF LeastOf
<1>5. pos + n <= Len(job.input) /\ pos + n <= fed /\ pos + n \in Nat
  BY <1>2, <1>3, <1>4
<1>6. Decoded(pos + n) = Decoded(pos) \o FlattenSeq(Run(pos, n))
  BY <1>2, <1>4, <1>5, DecodedJoins
<1>7. Run(pos, n) = [i \in 1 .. n |-> BytesOf(pos + i)]
  BY DEF Run
<1>8. Decoded(pos + n) \in Seq(Nat)
  BY <1>2, <1>5, DecodedType
<1>9. Len(Decoded(pos + n)) = pos + n
  <2>1. Decoded(pos + n) = FlattenSeq(Run(0, pos + n)) /\ 0 + (pos + n) <= Len(job.input)
    BY <1>5, DecodedIsRun
  <2>. QED  BY <1>2, <1>5, <2>1, IdentityBytes
<1>10. Advance(pos + n, Decoded(pos + n))
  <2>1. pos + n \in pos .. fed
    BY <1>2, <1>4, <1>5
  <2>2. Len(out) <= pos + n /\ pos + n <= call.out + call.allowance
    BY <1>1, <1>2, <1>4
  <2>. QED  BY <1>8, <1>9, <2>1, <2>2 DEF Advance
<1>. QED  BY <1>1, <1>3, <1>4, <1>6, <1>7, <1>8, <1>9, <1>10

\* The codec's call keeps the contract and the invariant.
LEMMA IdentityStep ==
    ASSUME LoopInv, IdentityInv, IdentityDecode
    PROVE  CodecMoves /\ IdentityInv'
<1>. DEFINE n  == LeastOf(AvailIn, AvailOut)
            st == IF n < AvailIn THEN ZU_NEED_OUTPUT
                  ELSE IF flush = ZU_FINISH THEN ZU_STREAM_END ELSE ZU_NEED_INPUT
            p  == pos + n
            o  == Decoded(pos + n)
<1>0. pc = "codec" /\ job.wrap = "identity"
  BY DEF IdentityDecode
<1>1. Return(st, p, out \o FlattenSeq([i \in 1 .. n |-> BytesOf(pos + i)]))
  BY DEF IdentityDecode
<1>2. /\ n \in Nat /\ AvailIn \in Nat /\ n <= AvailIn
      /\ n < AvailIn => n = call.allowance
      /\ out \o FlattenSeq([i \in 1 .. n |-> BytesOf(pos + i)]) = o
      /\ o \in Seq(Nat) /\ Len(o) = p /\ Advance(p, o)
  <2>. DEFINE m == LeastOf(AvailIn, AvailOut)
  <2>1. m = LeastOf(AvailIn, AvailOut)
    OBVIOUS
  <2>. HIDE DEF m
  <2>2. /\ m \in Nat /\ AvailIn \in Nat /\ m <= AvailIn
        /\ m < AvailIn => m = call.allowance
        /\ out \o FlattenSeq([i \in 1 .. m |-> BytesOf(pos + i)]) = Decoded(pos + m)
        /\ Decoded(pos + m) \in Seq(Nat) /\ Len(Decoded(pos + m)) = pos + m
        /\ Advance(pos + m, Decoded(pos + m))
    BY <1>0, <2>1, IdentityMoves
  <2>. QED  BY <2>1, <2>2
<1>3. st \in Status
  BY DEF Status, Progress
<1>. HIDE DEF n, st, p, o
<1>4. Return(st, p, o) /\ Advance(p, o)
  BY <1>1, <1>2
<1>5. CodecMoves
  BY <1>0, <1>3, <1>4 DEF CodecMoves
<1>6. /\ pos' = p /\ out' = o /\ job' = job /\ fed' = fed
      /\ pc' = IF result' = Running THEN "call" ELSE "close"
  BY <1>0, <1>4, ReturnGives
<1>. DEFINE c == [st |-> st, capped |-> call.capped, allowance |-> call.allowance,
                  produced |-> Len(o) - call.out, left |-> fed - p,
                  total_in |-> p, total_out |-> Len(o)]
<1>7. PICK status : /\ status = DriverStatus(job.opts, c)
                    /\ Whole => result' = WholeResult(status, o)
  BY <1>0, <1>4, ReturnGives
<1>8. /\ c.st = st /\ c.capped = call.capped /\ c.allowance = call.allowance
      /\ c.produced = Len(o) - call.out /\ c.left = fed - p
      /\ c.total_in = p /\ c.total_out = Len(o)
  OBVIOUS
<1>. HIDE DEF c
<1>9. /\ p \in Nat /\ fed - p = AvailIn - n /\ fed - p \in Nat /\ Len(o) - call.out = n
      /\ p <= Len(job.input) /\ Len(job.input) <= U64Max /\ U64Max \in Nat /\ job.opts \in LimitOpts
      /\ Len(job.input) \in Nat /\ fed <= Len(job.input) /\ fed \in Nat
      /\ call.out = pos /\ call.allowance \in Nat
  <2>1. call.out = pos
    BY <1>0 DEF IdentityInv
  <2>2. call.allowance \in Nat
    BY <1>0 DEF LoopInv, CallInProgress
  <2>3. p = pos + n /\ AvailIn = fed - pos /\ pos \in Nat /\ fed \in Nat
    BY LoopFacts DEF AvailIn, p
  <2>4. p \in Nat /\ fed - p = AvailIn - n /\ fed - p \in Nat /\ p <= fed /\ p - pos = n
    BY <1>2, <2>3
  <2>5. Len(job.input) \in Nat /\ fed <= Len(job.input) /\ Len(job.input) <= U64Max /\ U64Max \in Nat
        /\ job.opts \in LimitOpts
    BY LoopFacts
  <2>6. Len(o) - call.out = n
    BY <1>2, <2>1, <2>4
  <2>. QED  BY <2>1, <2>2, <2>3, <2>4, <2>5, <2>6
<1>10. HasCeiling(job.opts) => p <= Ceiling(job.opts)
  BY <1>0, <1>2, AdvanceKeepsCeiling
<1>11. /\ (st = ZU_NEED_OUTPUT /\ call.capped = TRUE /\ n = call.allowance)
             => status = OverStatus(job.opts)
       /\ st = ZU_NEED_OUTPUT /\ call.capped = FALSE => status = ZU_NEED_OUTPUT
       /\ st = ZU_NEED_INPUT /\ p = fed => status = ZU_NEED_INPUT
       /\ (st = ZU_STREAM_END /\ p = fed)
             => status = IF job.opts.has_expected /\ p # job.opts.expected_size
                           THEN ZU_ERR_INVALID_DATA ELSE ZU_STREAM_END
  <2>1. /\ c.total_out \in Nat /\ c.total_in = c.total_out /\ c.total_out <= U64Max
        /\ HasCeiling(job.opts) => c.total_out <= Ceiling(job.opts)
    BY <1>2, <1>8, <1>9, <1>10
  <2>2. c.left \in Nat /\ (p = fed => c.left = 0) /\ c.produced = n
    BY <1>8, <1>9
  <2>. QED  BY <1>2, <1>7, <1>8, <1>9, <2>1, <2>2, IdentityStatus
<1>12. IdentityIsExact'
  <2>. SUFFICES ASSUME Whole', pc' \in {"close", "closed"}
                PROVE  IdentityIsExact'
    BY DEF IdentityIsExact
  <2>0. Whole /\ result' # Running /\ result' = WholeResult(status, o)
    BY <1>6, <1>7 DEF Whole
  <2>. DEFINE over == HasCeiling(job.opts) /\ Len(job.input) > Ceiling(job.opts)
              size == IF over THEN Ceiling(job.opts) ELSE Len(job.input)
  <2>1. SUFFICES /\ p = size
                 /\ result' = IF over THEN OverStatus(job.opts)
                              ELSE IF job.opts.has_expected /\ Len(job.input) # job.opts.expected_size
                                THEN ZU_ERR_INVALID_DATA
                              ELSE ZU_STREAM_END
    <3>1. o = FlattenSeq([i \in 1 .. p |-> BytesOf(i)])
      BY DEF o, p, Decoded
    <3>2. BytesOf(1)' = BytesOf(1) /\ \A i : BytesOf(i)' = BytesOf(i)
      BY <1>6 DEF BytesOf, BytesAt
    <3>. QED  BY <1>6, <3>1, <3>2 DEF IdentityIsExact
  <2>2. CASE n < AvailIn
    <3>1. st = ZU_NEED_OUTPUT /\ n = call.allowance
      BY <1>2, <2>2 DEF st
    <3>2. call.capped = TRUE
      <4>1. call.capped \in BOOLEAN
        BY <1>0 DEF LoopInv, CallInProgress, Capped, HasCeiling
      <4>2. ~(call.capped = FALSE)
        <5>1. SUFFICES ASSUME call.capped = FALSE PROVE FALSE
          OBVIOUS
        <5>2. status = ZU_NEED_OUTPUT
          BY <1>11, <3>1, <5>1
        <5>. QED  BY <2>0, <5>2 DEF WholeResult, Progress, ZU_NEED_OUTPUT, ZU_NEED_INPUT,
                                   ZU_STREAM_END
      <4>. QED  BY <4>1, <4>2
    <3>3. status = OverStatus(job.opts)
      BY <1>11, <3>1, <3>2
    <3>4. result' = OverStatus(job.opts)
      BY <2>0, <3>3 DEF WholeResult, OverStatus, Progress, ZU_OK, ZU_NEED_OUTPUT, ZU_NEED_INPUT,
         ZU_STREAM_END, ZU_ERR_INVALID_DATA, ZU_ERR_OUTPUT_LIMIT
    <3>5. HasCeiling(job.opts) /\ p = Ceiling(job.opts)
      <4>1. /\ Capped(job.opts, total_out, Window) /\ Window \in Nat
            /\ call.allowance = Allowance(job.opts, total_out, Window)
            /\ call.out = total_out
        BY <1>0, <3>2 DEF LoopInv, CallInProgress
      <4>2. HasCeiling(job.opts)
        BY <4>1 DEF Capped
      <4>3. total_out = pos /\ total_out \in Nat /\ pos \in Nat
        BY <1>9, <4>1, LoopFacts
      <4>4. total_out <= Ceiling(job.opts)
        <5>1. Len(out) = pos /\ (HasCeiling(job.opts) => Len(out) <= Ceiling(job.opts))
          BY <1>0 DEF LoopInv, CursorsInOrder, IdentityInv
        <5>. QED  BY <4>2, <4>3, <5>1
      <4>5. total_out + call.allowance = Ceiling(job.opts)
        BY <1>9, <4>1, <4>3, <4>4, AllowanceKeepsCeiling
      <4>. QED  BY <3>1, <4>2, <4>3, <4>5 DEF p
    <3>6. over
      BY <1>2, <1>9, <2>2, <3>5
    <3>. QED  BY <3>4, <3>5, <3>6
  <2>3. CASE ~(n < AvailIn)
    <3>1. p = fed /\ n = AvailIn
      BY <1>2, <1>9, <2>3
    <3>2. CASE flush = ZU_FINISH
      <4>1. fed = Len(job.input) /\ st = ZU_STREAM_END
        BY <1>0, <2>3, <3>2 DEF LoopInv, CallInProgress, st
      <4>2. status = IF job.opts.has_expected /\ p # job.opts.expected_size
                       THEN ZU_ERR_INVALID_DATA ELSE ZU_STREAM_END
        BY <1>11, <3>1, <4>1
      <4>3. result' = status
        BY <2>0, <4>2 DEF WholeResult, Progress, ZU_OK, ZU_NEED_OUTPUT, ZU_NEED_INPUT,
           ZU_STREAM_END, ZU_ERR_INVALID_DATA
      <4>4. ~over
        <5>1. HasCeiling(job.opts) => Ceiling(job.opts) \in Nat
          BY <1>9, U64MaxAssumption DEF Ceiling, LimitOpts
        <5>. QED  BY <1>9, <1>10, <3>1, <4>1, <5>1
      <4>. QED  BY <3>1, <4>1, <4>2, <4>3, <4>4
    <3>3. CASE flush # ZU_FINISH
      <4>1. fed # Len(job.input) /\ st = ZU_NEED_INPUT
        BY <1>0, <2>3, <3>3 DEF LoopInv, CallInProgress, st
      <4>2. status = ZU_NEED_INPUT /\ ~(fed >= Len(job.input))
        BY <1>9, <1>11, <3>1, <4>1
      <4>3. result' = Running
        BY <2>0, <4>2 DEF WholeResult, Progress, ZU_NEED_INPUT, ZU_STREAM_END
      <4>. QED  BY <2>0, <4>3
    <3>. QED  BY <3>2, <3>3
  <2>. QED  BY <2>2, <2>3
<1>13. pc' # "codec"
  BY <1>6
<1>15. o = Decoded(p)
  BY DEF o, p
<1>16. Decoded(pos)' = o
  <2>1. Decoded(pos)' = FlattenSeq([i \in 1 .. pos' |-> BytesOf(i)'])
    BY DEF Decoded
  <2>2. \A i : BytesOf(i)' = BytesOf(i)
    BY <1>6 DEF BytesOf, BytesAt
  <2>. QED  BY <1>6, <1>15, <2>1, <2>2 DEF Decoded
<1>. QED  BY <1>2, <1>5, <1>6, <1>12, <1>13, <1>16 DEF IdentityInv

----------------------------------------------------------------------------
(***************************************************************************)
(* The framed decoders keep the cursor contract.  A library's context      *)
(* waits after a frame only for the last byte it gave back, and the probe  *)
(* takes at most one byte, for which Pay then has room.                    *)
(***************************************************************************)
LibRecord == [stage : {"magic", "head", "block", "sum", "done"},
              seen : Seq(STRING \X Nat), check : BOOLEAN, pend : Seq(Nat),
              n : Nat, hostage : BOOLEAN]

LibOk(l) == l \in LibRecord /\ (l.stage = "done" => l.hostage = TRUE)

FrameRecord == [state : {"BODY", "BETWEEN", "DONE"}, held : Seq(STRING \X Nat), owed : Seq(Nat)]

FramesOk(g) ==
    /\ g \in FrameRecord
    /\ Len(g.held) < 4 /\ IsMagicPrefix(g.held)
    /\ Len(g.owed) <= 1

FrameInv == FramesOk(f) /\ LibOk(lib)

\* A call of the library in progress.
CallRecord == [l : LibRecord, used : Nat, bytes : Seq(Nat),
               stop : {"go", "starved", "full", "frame", "error"}, err : Status]

\* A new library decoder is in its type.
LEMMA FreshLibOk == LibOk(FreshLib)
BY DEF FreshLib, LibOk, LibRecord

\* Writing pending bytes keeps within the room; a frame that is read and not
\* written out gives back the byte it just took.
LEMMA LibFlushKeeps ==
    ASSUME NEW c, c \in CallRecord, NEW room \in Nat, Len(c.bytes) <= room,
           (c.l.stage = "done" /\ c.l.hostage = FALSE) => c.used > 0
    PROVE  /\ LibFlush(c, room) \in CallRecord
           /\ LibOk(LibFlush(c, room).l)
           /\ LibFlush(c, room).used <= c.used
           /\ Len(LibFlush(c, room).bytes) <= room
<1>. DEFINE k == LeastOf(Len(c.l.pend), room - Len(c.bytes))
            d == [c EXCEPT !.bytes = @ \o SubSeq(c.l.pend, 1, k),
                           !.l.pend = SubSeq(c.l.pend, k + 1, Len(c.l.pend))]
<1>0. /\ c.l \in LibRecord /\ c.l.pend \in Seq(Nat) /\ Len(c.l.pend) \in Nat
      /\ c.bytes \in Seq(Nat) /\ Len(c.bytes) \in Nat /\ c.used \in Nat
      /\ c.l.hostage \in BOOLEAN
  BY DEF CallRecord, LibRecord
<1>1. k \in Nat /\ k <= Len(c.l.pend) /\ Len(c.bytes) + k <= room
  <2>. DEFINE m == Len(c.l.pend)
              r == Len(c.bytes)
  <2>1. m \in Nat /\ r \in Nat /\ r <= room /\ k = LeastOf(m, room - r)
    BY <1>0
  <2>. HIDE DEF m, r, k
  <2>2. k \in Nat /\ k <= m /\ r + k <= room
    BY <2>1 DEF LeastOf
  <2>. QED  BY <2>2 DEF m, r
<1>. HIDE DEF k
<1>2. /\ SubSeq(c.l.pend, 1, k) \in Seq(Nat) /\ Len(SubSeq(c.l.pend, 1, k)) = k
      /\ SubSeq(c.l.pend, k + 1, Len(c.l.pend)) \in Seq(Nat)
  <2>. DEFINE pend == c.l.pend
  <2>1. pend \in Seq(Nat) /\ k \in Nat /\ k <= Len(pend)
    BY <1>0, <1>1
  <2>. HIDE DEF pend
  <2>2. /\ SubSeq(pend, 0 + 1, 0 + k) \in Seq(Nat) /\ Len(SubSeq(pend, 0 + 1, 0 + k)) = k
        /\ SubSeq(pend, k + 1, Len(pend)) \in Seq(Nat)
    <3>1. 0 + k <= Len(pend) /\ k + 0 <= Len(pend)
      BY <2>1
    <3>. QED  BY <2>1, <3>1, Slice
  <2>3. 0 + 1 = 1 /\ 0 + k = k
    BY <2>1
  <2>. QED  BY <2>2, <2>3 DEF pend
<1>3. /\ c.bytes \o SubSeq(c.l.pend, 1, k) \in Seq(Nat)
      /\ Len(c.bytes \o SubSeq(c.l.pend, 1, k)) <= room
  BY <1>0, <1>1, <1>2, Joined
<1>4. [c.l EXCEPT !.pend = SubSeq(c.l.pend, k + 1, Len(c.l.pend))] \in LibRecord
  BY <1>0, <1>2 DEF LibRecord
<1>5. d \in CallRecord
  BY <1>3, <1>4 DEF CallRecord
<1>6. /\ d.bytes = c.bytes \o SubSeq(c.l.pend, 1, k) /\ d.used = c.used
      /\ d.l = [c.l EXCEPT !.pend = SubSeq(c.l.pend, k + 1, Len(c.l.pend))]
  BY DEF CallRecord
<1>7. d.l.stage = c.l.stage /\ d.l.hostage = c.l.hostage
  BY <1>0, <1>6 DEF LibRecord
<1>8. LibFlush(c, room) =
        IF d.l.pend # <<>>
          THEN IF d.l.stage = "done" /\ ~d.l.hostage
                 THEN [d EXCEPT !.stop = "full", !.l.hostage = TRUE, !.used = @ - 1]
                 ELSE [d EXCEPT !.stop = "full"]
        ELSE IF d.l.stage = "done" /\ ~d.l.hostage
          THEN [d EXCEPT !.stop = "frame", !.l = FreshLib]
        ELSE d
  BY DEF LibFlush, k
<1>. HIDE DEF d
<1>9. /\ d.l \in LibRecord /\ d.used \in Nat /\ d.bytes \in Seq(Nat) /\ d.l.hostage \in BOOLEAN
      /\ Len(d.bytes) <= room
  BY <1>3, <1>5, <1>6 DEF CallRecord, LibRecord
<1>10. d.used = c.used
  BY <1>6
<1>11. c.used \in Nat
  BY <1>0
<1>12. d.used <= c.used /\ Len(d.bytes) <= room
  BY <1>9, <1>10, <1>11
<1>13. CASE d.l.pend # <<>> /\ d.l.stage = "done" /\ d.l.hostage = FALSE
  <2>. DEFINE e == [d EXCEPT !.stop = "full", !.l.hostage = TRUE, !.used = @ - 1]
  <2>1. d.used - 1 \in Nat /\ d.used - 1 <= c.used
    <3>1. c.used > 0
      BY <1>7, <1>13
    <3>. QED  BY ONLY <1>10, <1>11, <3>1
  <2>2. [d.l EXCEPT !.hostage = TRUE] \in LibRecord
    BY <1>9 DEF LibRecord
  <2>3. e \in CallRecord
    BY <1>5, <2>1, <2>2 DEF CallRecord
  <2>4. e.l = [d.l EXCEPT !.hostage = TRUE] /\ e.used = d.used - 1 /\ e.bytes = d.bytes
    BY <1>5 DEF CallRecord
  <2>5. e.l.hostage = TRUE
    BY <1>9, <2>4 DEF LibRecord
  <2>6. LibFlush(c, room) = e
    BY <1>8, <1>13
  <2>. HIDE DEF e
  <2>. QED  BY <1>12, <2>1, <2>2, <2>3, <2>4, <2>5, <2>6 DEF LibOk
<1>14. CASE d.l.pend # <<>> /\ ~(d.l.stage = "done" /\ d.l.hostage = FALSE)
  <2>. DEFINE e == [d EXCEPT !.stop = "full"]
  <2>1. e \in CallRecord /\ e.l = d.l /\ e.used = d.used /\ e.bytes = d.bytes
    BY <1>5 DEF CallRecord
  <2>2. LibFlush(c, room) = e
    BY <1>8, <1>9, <1>14
  <2>. HIDE DEF e
  <2>. QED  BY <1>9, <1>14, <1>12, <2>1, <2>2 DEF LibOk
<1>15. CASE ~(d.l.pend # <<>>) /\ d.l.stage = "done" /\ d.l.hostage = FALSE
  <2>. DEFINE e == [d EXCEPT !.stop = "frame", !.l = FreshLib]
  <2>1. e \in CallRecord /\ e.l = FreshLib /\ e.used = d.used /\ e.bytes = d.bytes
    BY <1>5, FreshLibOk DEF CallRecord, LibOk
  <2>2. LibFlush(c, room) = e
    BY <1>8, <1>15
  <2>. HIDE DEF e
  <2>. QED  BY <1>12, <2>1, <2>2, FreshLibOk
<1>16. CASE ~(d.l.pend # <<>>) /\ ~(d.l.stage = "done" /\ d.l.hostage = FALSE)
  <2>1. LibFlush(c, room) = d
    BY <1>8, <1>9, <1>16
  <2>. QED  BY <1>5, <1>9, <1>16, <1>12, <2>1 DEF LibOk
<1>. QED  BY <1>13, <1>14, <1>15, <1>16

\* Reading a token changes the context within its type.
LEMMA LibReadKeeps ==
    ASSUME job \in Jobs, NEW l \in LibRecord, l.stage # "done", l.hostage = FALSE,
           NEW i \in 1 .. Len(job.input)
    PROVE  /\ LibRead(l, i).err \in Status
           /\ LibRead(l, i).l \in LibRecord
           /\ LibRead(l, i).l.hostage = FALSE
<1>. DEFINE t == job.input[i]
<1>0. t \in STRING \X Nat /\ t[2] \in Nat /\ BytesOf(i) \in Seq(Nat)
  BY JobTypes, TokenBytes
<1>. DEFINE Good(r) == r.err \in Status /\ r.l \in LibRecord /\ r.l.hostage = FALSE
<1>1. /\ ZU_OK \in Status /\ ZU_ERR_INVALID_DATA \in Status /\ ZU_ERR_CHECKSUM \in Status
      /\ HeaderRefused(job) \in Status
  BY DEF Status, Progress, Errors, HeaderRefused
<1>2. \A st \in Status : Good([l |-> l, err |-> st])
  OBVIOUS
<1>3. CASE l.stage = "magic"
  <2>. DEFINE seen == Append(l.seen, t)
              m    == [l EXCEPT !.seen = seen, !.stage = IF Len(seen) = 4 THEN "head" ELSE @]
  <2>1. seen \in Seq(STRING \X Nat)
    BY <1>0 DEF LibRecord
  <2>2. m \in LibRecord /\ m.hostage = FALSE
    <3>. HIDE DEF seen
    <3>1. (IF Len(seen) = 4 THEN "head" ELSE l.stage) \in {"magic", "head", "block", "sum", "done"}
      BY DEF LibRecord
    <3>. QED  BY <2>1, <3>1 DEF LibRecord
  <2>3. \/ LibMagic(l, t) = [l |-> l, err |-> ZU_ERR_INVALID_DATA]
        \/ LibMagic(l, t) = [l |-> m, err |-> ZU_OK]
    BY DEF LibMagic
  <2>4. LibRead(l, i) = LibMagic(l, t)
    BY <1>3 DEF LibRead
  <2>. HIDE DEF m, seen
  <2>. QED  BY <1>1, <1>2, <2>2, <2>3, <2>4
<1>4. CASE l.stage = "head"
  <2>. DEFINE m1 == [l EXCEPT !.stage = "done"]
              m2 == [l EXCEPT !.stage = "block", !.check = t[2] = 1]
  <2>1. m1 \in LibRecord /\ m1.hostage = FALSE
    BY DEF LibRecord
  <2>2. m2 \in LibRecord /\ m2.hostage = FALSE
    <3>1. (t[2] = 1) \in BOOLEAN
      OBVIOUS
    <3>. QED  BY <3>1 DEF LibRecord
  <2>3. \/ LibHead(l, t) = [l |-> m1, err |-> ZU_OK]
        \/ LibHead(l, t) = [l |-> m2, err |-> ZU_OK]
        \/ LibHead(l, t) = [l |-> l, err |-> HeaderRefused(job)]
        \/ LibHead(l, t) = [l |-> l, err |-> ZU_ERR_INVALID_DATA]
    BY DEF LibHead
  <2>4. LibRead(l, i) = LibHead(l, t)
    BY <1>4 DEF LibRead
  <2>. HIDE DEF m1, m2
  <2>. QED  BY <1>1, <1>2, <2>1, <2>2, <2>3, <2>4
<1>5. CASE l.stage = "block"
  <2>. DEFINE read == [l EXCEPT !.pend = BytesOf(i), !.n = @ + t[2]]
              m    == [read EXCEPT !.stage = IF l.check THEN "sum" ELSE "done"]
  <2>1. read \in LibRecord /\ read.hostage = FALSE
    <3>1. l.n + t[2] \in Nat
      BY <1>0 DEF LibRecord
    <3>. QED  BY <1>0, <3>1 DEF LibRecord
  <2>. HIDE DEF read
  <2>2. m \in LibRecord /\ m.hostage = FALSE
    BY <2>1 DEF LibRecord
  <2>3. \/ LibBlock(l, i) = [l |-> read, err |-> ZU_OK]
        \/ LibBlock(l, i) = [l |-> m, err |-> ZU_OK]
        \/ LibBlock(l, i) = [l |-> l, err |-> ZU_ERR_INVALID_DATA]
    BY DEF LibBlock, read
  <2>4. LibRead(l, i) = LibBlock(l, i)
    BY <1>5 DEF LibRead
  <2>. HIDE DEF m
  <2>. QED  BY <1>1, <1>2, <2>1, <2>2, <2>3, <2>4
<1>6. CASE l.stage = "sum"
  <2>. DEFINE m == [l EXCEPT !.stage = "done"]
  <2>1. m \in LibRecord /\ m.hostage = FALSE
    BY DEF LibRecord
  <2>2. \/ LibRead(l, i) = [l |-> m, err |-> ZU_OK]
        \/ LibRead(l, i) = [l |-> l, err |-> ZU_ERR_CHECKSUM]
    BY <1>6 DEF LibRead
  <2>. HIDE DEF m
  <2>. QED  BY <1>1, <1>2, <2>1, <2>2
<1>7. l.stage \in {"magic", "head", "block", "sum"}
  BY DEF LibRecord
<1>. QED  BY <1>3, <1>4, <1>5, <1>6, <1>7

\* Where a call of the library may be.
TurnOk(c, avail, room) ==
    c \in CallRecord /\ LibOk(c.l) /\ c.used <= avail /\ Len(c.bytes) <= room

\* One more turn keeps within the input and the room.
LEMMA LibTurnKeeps ==
    ASSUME LoopInv, NEW avail, Visible(avail), NEW room, room \in Nat,
           NEW c, TurnOk(c, avail, room)
    PROVE  TurnOk(LibTurn(c, avail, room), avail, room)
<1>. DEFINE next == Ahead(c.used + 1)
            r    == LibRead(c.l, pos + c.used + 1)
<1>0. /\ c \in CallRecord /\ c.l \in LibRecord /\ c.used \in Nat /\ c.used <= avail
      /\ c.l.hostage \in BOOLEAN /\ avail \in Nat /\ Len(c.bytes) <= room
      /\ LibOk(c.l) /\ c.err \in Status
  BY DEF TurnOk, CallRecord, LibRecord, Visible
<1>1. \A s \in {"starved", "full"} : TurnOk([c EXCEPT !.stop = s], avail, room)
  <2>. SUFFICES ASSUME NEW s \in {"starved", "full"}
                PROVE  TurnOk([c EXCEPT !.stop = s], avail, room)
    OBVIOUS
  <2>. DEFINE d == [c EXCEPT !.stop = s]
  <2>1. d \in CallRecord /\ d.l = c.l /\ d.used = c.used /\ d.bytes = c.bytes
    BY <1>0 DEF CallRecord
  <2>. HIDE DEF d
  <2>2. TurnOk(d, avail, room)
    BY <1>0, <2>1 DEF TurnOk
  <2>. QED  BY <2>2 DEF d
<1>2. \/ LibTurn(c, avail, room) = c
      \/ \E s \in {"starved", "full"} : LibTurn(c, avail, room) = [c EXCEPT !.stop = s]
      \/ /\ c.used # avail /\ c.l.hostage = TRUE
         /\ LibTurn(c, avail, room) = [c EXCEPT !.stop = "frame", !.l = FreshLib, !.used = @ + 1]
      \/ /\ c.used # avail /\ c.l.hostage = FALSE
         /\ LibTurn(c, avail, room) = [c EXCEPT !.stop = "error", !.err = r.err]
      \/ /\ c.used # avail /\ c.l.hostage = FALSE
         /\ LibTurn(c, avail, room) = LibFlush([c EXCEPT !.l = r.l, !.used = @ + 1], room)
  BY <1>0 DEF LibTurn
<1>3. CASE c.used # avail /\ c.l.hostage = TRUE
           /\ LibTurn(c, avail, room) = [c EXCEPT !.stop = "frame", !.l = FreshLib, !.used = @ + 1]
  <2>. DEFINE d == [c EXCEPT !.stop = "frame", !.l = FreshLib, !.used = @ + 1]
  <2>0. c.used + 1 \in Nat /\ c.used + 1 <= avail /\ FreshLib \in LibRecord
    BY <1>0, <1>3, FreshLibOk DEF LibOk
  <2>1. d \in CallRecord
    BY <1>0, <2>0 DEF CallRecord
  <2>2. d.l = FreshLib /\ d.used = c.used + 1 /\ d.bytes = c.bytes
    BY <1>0 DEF CallRecord
  <2>. HIDE DEF d
  <2>3. TurnOk(d, avail, room)
    BY <1>0, <2>0, <2>1, <2>2, FreshLibOk DEF TurnOk
  <2>. QED  BY <1>3, <2>3 DEF d
<1>4. ASSUME c.used # avail, c.l.hostage = FALSE
      PROVE  /\ r.err \in Status /\ r.l \in LibRecord /\ r.l.hostage = FALSE
             /\ c.used + 1 \in Nat /\ c.used + 1 <= avail
  <2>1. c.used + 1 \in Nat /\ c.used + 1 <= avail
    BY <1>0, <1>4
  <2>2. pos + c.used + 1 \in 1 .. Len(job.input)
    <3>1. /\ pos \in Nat /\ Len(job.input) \in Nat /\ pos + avail <= Len(job.input)
          /\ c.used \in Nat /\ avail \in Nat
      BY <1>0, LoopFacts DEF Visible
    <3>. QED  BY ONLY <2>1, <3>1
  <2>3. c.l.stage # "done"
    BY <1>0, <1>4 DEF LibOk
  <2>4. job \in Jobs
    BY LoopFacts
  <2>. QED  BY <1>0, <1>4, <2>1, <2>2, <2>3, <2>4, LibReadKeeps
<1>. HIDE DEF r
<1>5. CASE c.used # avail /\ c.l.hostage = FALSE
           /\ LibTurn(c, avail, room) = [c EXCEPT !.stop = "error", !.err = r.err]
  <2>. DEFINE d == [c EXCEPT !.stop = "error", !.err = r.err]
  <2>1. d \in CallRecord
    BY <1>0, <1>4, <1>5 DEF CallRecord
  <2>2. d.l = c.l /\ d.used = c.used /\ d.bytes = c.bytes
    BY <1>0 DEF CallRecord
  <2>. HIDE DEF d
  <2>3. TurnOk(d, avail, room)
    BY <1>0, <2>1, <2>2 DEF TurnOk
  <2>. QED  BY <1>5, <2>3 DEF d
<1>6. CASE c.used # avail /\ c.l.hostage = FALSE
           /\ LibTurn(c, avail, room) = LibFlush([c EXCEPT !.l = r.l, !.used = @ + 1], room)
  <2>. DEFINE d == [c EXCEPT !.l = r.l, !.used = @ + 1]
  <2>1. d \in CallRecord
    BY <1>0, <1>4, <1>6 DEF CallRecord
  <2>2. d.l = r.l /\ d.used = c.used + 1 /\ d.bytes = c.bytes
    BY <1>0 DEF CallRecord
  <2>. HIDE DEF d
  <2>3. d.used > 0 /\ d.used <= avail /\ d.used \in Nat /\ Len(d.bytes) <= room
    BY <1>0, <1>4, <1>6, <2>2
  <2>4. /\ LibFlush(d, room) \in CallRecord /\ LibOk(LibFlush(d, room).l)
        /\ LibFlush(d, room).used <= d.used /\ Len(LibFlush(d, room).bytes) <= room
    BY <2>1, <2>3, LibFlushKeeps
  <2>5. LibFlush(d, room).used \in Nat
    BY <2>4 DEF CallRecord
  <2>6. LibFlush(d, room).used <= avail
    BY <1>0, <2>3, <2>4, <2>5
  <2>7. TurnOk(LibFlush(d, room), avail, room)
    BY <2>4, <2>6 DEF TurnOk
  <2>. QED  BY <1>6, <2>7 DEF d
<1>. QED  BY <1>1, <1>2, <1>3, <1>5, <1>6

\* A call of the library before its first turn.
CallStart == [l |-> lib, used |-> 0, bytes |-> <<>>, stop |-> "go", err |-> ZU_OK]

\* The turns of a call.
Turns(turn, avail, room) ==
    /\ turn[0] = LibFlush(CallStart, room)
    /\ \A k \in 1 .. avail + 1 : turn[k] = LibTurn(turn[k - 1], avail, room)
    /\ \A k \in 0 .. avail + 1 : TurnOk(turn[k], avail, room)
    /\ turn[avail + 1] = Decompress(avail, room)

\* A call of the library is made of its turns, and keeps within the input and
\* the room it is given.
LEMMA DecompressTurns ==
    ASSUME LoopInv, LibOk(lib), NEW avail, Visible(avail), NEW room, room \in Nat
    PROVE  \E turn : Turns(turn, avail, room)
<1>. DEFINE start == CallStart
            T     == {c \in CallRecord : TurnOk(c, avail, room)}
            step  == [k \in 1 .. avail + 1 |-> [c \in T |-> LibTurn(c, avail, room)]]
            first == LibFlush(start, room)
            N     == avail + 1
<1>0. avail \in Nat /\ N \in Nat /\ N \in 0 .. N
  BY DEF Visible
<1>1. first \in T
  <2>1. start \in CallRecord /\ Len(start.bytes) <= room /\ start.used = 0 /\ start.l = lib
    BY DEF LibOk, CallRecord, Status, Progress, CallStart
  <2>. HIDE DEF start
  <2>2. ~(start.l.stage = "done" /\ start.l.hostage = FALSE)
    BY <2>1 DEF LibOk
  <2>3. /\ first \in CallRecord /\ LibOk(first.l) /\ first.used <= start.used
        /\ Len(first.bytes) <= room
    BY <2>1, <2>2, LibFlushKeeps
  <2>4. first.used \in Nat
    BY <2>3 DEF CallRecord
  <2>5. first.used <= avail
    BY <1>0, <2>1, <2>3, <2>4
  <2>6. TurnOk(first, avail, room)
    BY <2>3, <2>5 DEF TurnOk
  <2>. QED  BY <2>3, <2>6
<1>. HIDE DEF first
<1>2. \A c \in T : LibTurn(c, avail, room) \in T
  <2>. SUFFICES ASSUME NEW c, c \in T PROVE LibTurn(c, avail, room) \in T
    OBVIOUS
  <2>1. TurnOk(c, avail, room)
    OBVIOUS
  <2>2. TurnOk(LibTurn(c, avail, room), avail, room)
    BY <2>1, LibTurnKeeps
  <2>. QED  BY <2>2 DEF TurnOk
<1>. HIDE DEF T
<1>3. StaysIn(T, N, step)
  <2>1. \A k \in 1 .. N : \A c \in T : step[k][c] = LibTurn(c, avail, room)
    OBVIOUS
  <2>. HIDE DEF step
  <2>. QED  BY <1>2, <2>1 DEF StaysIn
<1>4. PICK g : Iterates(g, N, first, step) /\ \A k \in 0 .. N : g[k] \in T
  <2>. HIDE DEF step, N
  <2>. QED  BY <1>0, <1>1, <1>3, IteratesExist
<1>. DEFINE Body1(h, k) == IF k = 0 THEN first
                          ELSE CHOOSE d \in {LibTurn(c, avail, room) : c \in {h[k - 1]}} : TRUE
<1>5. \A h : \A k \in 0 .. N :
        Body1(h, k) = IF k = 0 THEN first ELSE LibTurn(h[k - 1], avail, room)
  OBVIOUS
<1>6. g = [k \in 0 .. N |-> Body1(g, k)]
  <2>1. \A k \in 0 .. N : Body1(g, k) = IF k = 0 THEN first ELSE step[k][g[k - 1]]
    <3>. SUFFICES ASSUME NEW k \in 0 .. N, k # 0
                  PROVE  LibTurn(g[k - 1], avail, room) = step[k][g[k - 1]]
      BY <1>5
    <3>1. k - 1 \in 0 .. N /\ k \in 1 .. avail + 1
      BY <1>0
    <3>. QED  BY <1>4, <3>1
  <2>. HIDE DEF Body1, step, N
  <2>. QED  BY <1>4, <2>1 DEF Iterates
<1>. DEFINE turn == CHOOSE h : h = [k \in 0 .. N |-> Body1(h, k)]
<1>7. turn = [k \in 0 .. N |-> Body1(turn, k)]
  <2>. HIDE DEF Body1, N
  <2>. QED  BY <1>6
<1>8. Decompress(avail, room) = turn[N]
  BY DEF Decompress, first, CallStart
<1>. HIDE DEF turn
<1>9. turn[0] = first /\ \A k \in 1 .. N : turn[k] = LibTurn(turn[k - 1], avail, room)
  <2>1. \A k \in 0 .. N : turn[k] = IF k = 0 THEN first ELSE LibTurn(turn[k - 1], avail, room)
    <3>. HIDE DEF Body1, N
    <3>. QED  BY <1>5, <1>7
  <2>. HIDE DEF N
  <2>. QED  BY <1>0, <2>1
<1>. DEFINE P == {k \in 0 .. N : turn[k] \in T}
<1>10. 0 \in P
  BY <1>0, <1>1, <1>9
<1>11. \A k \in 0 .. N : k \in P /\ k < N => k + 1 \in P
  <2>. SUFFICES ASSUME NEW k \in 0 .. N, k \in P, k < N PROVE k + 1 \in P
    OBVIOUS
  <2>1. k + 1 \in 1 .. N /\ k + 1 \in 0 .. N /\ (k + 1) - 1 = k
    BY <1>0
  <2>2. turn[k + 1] = LibTurn(turn[k], avail, room)
    <3>. HIDE DEF N
    <3>. QED  BY <1>9, <2>1
  <2>. QED  BY <1>2, <2>1, <2>2
<1>12. \A k \in 0 .. N : turn[k] \in T
  <2>1. \A k \in 0 .. N : k \in P
    <3>. HIDE DEF P, N
    <3>. QED  BY ONLY <1>0, <1>10, <1>11, UpTo
  <2>. QED  BY <2>1
<1>13. Turns(turn, avail, room)
  <2>1. \A k \in 0 .. N : TurnOk(turn[k], avail, room)
    BY <1>12 DEF T
  <2>. QED  BY <1>8, <1>9, <2>1 DEF Turns, first
<1>. QED  BY <1>13

\* A call of the library keeps within the input and the room it is given.
LEMMA DecompressKeeps ==
    ASSUME LoopInv, LibOk(lib), NEW avail, Visible(avail), NEW room, room \in Nat
    PROVE  TurnOk(Decompress(avail, room), avail, room)
<1>1. PICK turn : Turns(turn, avail, room)
  BY DecompressTurns
<1>2. avail + 1 \in 0 .. avail + 1
  BY DEF Visible
<1>. QED  BY <1>1, <1>2 DEF Turns

\* An empty prefix is a prefix.
LEMMA EmptyIsMagic == IsMagicPrefix(<<>>)
<1>. DEFINE S == {<<"own", i>> : i \in 1 .. 4}
<1>1. Own \in Seq(S) /\ Len(Own) = 4
  <2>1. Own = [i \in 1 .. 4 |-> <<"own", i>>] /\ 4 \in Nat
    BY DEF Own
  <2>2. \A i \in 1 .. 4 : <<"own", i>> \in S
    OBVIOUS
  <2>. HIDE DEF S
  <2>. QED  BY <2>1, <2>2
<1>. HIDE DEF S
<1>2. SubSeq(Own, 1, 0) = <<>>
  BY <1>1
<1>. QED  BY <1>1, <1>2 DEF IsMagicPrefix, IsPrefix

\* The ways the frames' state changes.
LEMMA FramesChange ==
    ASSUME NEW g, FramesOk(g)
    PROVE  /\ \A o \in Seq(Nat) : Len(o) <= 1 => FramesOk([g EXCEPT !.owed = o])
           /\ FramesOk([g EXCEPT !.state = "BODY"])
           /\ \A s \in {"BODY", "BETWEEN", "DONE"} : FramesOk([g EXCEPT !.state = s, !.held = <<>>])
           /\ \A q \in Seq(STRING \X Nat) :
                Len(q) < 4 /\ IsMagicPrefix(q) => FramesOk([g EXCEPT !.held = q])
<1>0. /\ g \in FrameRecord /\ Len(g.held) < 4 /\ IsMagicPrefix(g.held) /\ Len(g.owed) <= 1
  BY DEF FramesOk
<1>1. ASSUME NEW o, o \in Seq(Nat), Len(o) <= 1
      PROVE  FramesOk([g EXCEPT !.owed = o])
  <2>. DEFINE h == [g EXCEPT !.owed = o]
  <2>1. h \in FrameRecord /\ h.held = g.held /\ h.owed = o
    BY <1>0, <1>1 DEF FrameRecord
  <2>. HIDE DEF h
  <2>2. FramesOk(h)
    BY <1>0, <1>1, <2>1 DEF FramesOk
  <2>. QED  BY <2>2 DEF h
<1>2. FramesOk([g EXCEPT !.state = "BODY"])
  <2>. DEFINE h == [g EXCEPT !.state = "BODY"]
  <2>1. h \in FrameRecord /\ h.held = g.held /\ h.owed = g.owed
    BY <1>0 DEF FrameRecord
  <2>. HIDE DEF h
  <2>2. FramesOk(h)
    BY <1>0, <2>1 DEF FramesOk
  <2>. QED  BY <2>2 DEF h
<1>3. ASSUME NEW s \in {"BODY", "BETWEEN", "DONE"}
      PROVE  FramesOk([g EXCEPT !.state = s, !.held = <<>>])
  <2>. DEFINE h == [g EXCEPT !.state = s, !.held = <<>>]
  <2>0. <<>> \in Seq(STRING \X Nat)
    OBVIOUS
  <2>1. h \in FrameRecord
    BY <1>0, <2>0 DEF FrameRecord
  <2>2. h.held = <<>> /\ h.owed = g.owed
    BY <1>0 DEF FrameRecord
  <2>. HIDE DEF h
  <2>3. FramesOk(h)
    BY <1>0, <2>1, <2>2, EmptyIsMagic DEF FramesOk
  <2>. QED  BY <2>3 DEF h
<1>4. ASSUME NEW q, q \in Seq(STRING \X Nat), Len(q) < 4, IsMagicPrefix(q)
      PROVE  FramesOk([g EXCEPT !.held = q])
  <2>. DEFINE h == [g EXCEPT !.held = q]
  <2>1. h \in FrameRecord /\ h.held = q /\ h.owed = g.owed
    BY <1>0, <1>4 DEF FrameRecord
  <2>. HIDE DEF h
  <2>2. FramesOk(h)
    BY <1>0, <1>4, <2>1 DEF FramesOk
  <2>. QED  BY <2>2 DEF h
<1>. QED  BY <1>1, <1>2, <1>3, <1>4

\* The byte the probe took is delivered, or waits for room.
LEMMA PayStep ==
    ASSUME LoopInv, FrameInv, Pay
    PROVE  CodecMoves /\ FrameInv'
<1>0. pc = "codec" /\ f.owed # <<>> /\ lib' = lib /\ FramesOk(f) /\ LibOk(lib)
  BY DEF Pay, FrameInv
<1>1. CASE AvailOut = 0
  <2>1. Return(ZU_NEED_OUTPUT, pos, out) /\ f' = f
    BY <1>1 DEF Pay
  <2>2. CodecMoves
    BY <1>0, <2>1, InputMoves, VisibleFacts DEF Status, Progress
  <2>. QED  BY <1>0, <2>1, <2>2 DEF FrameInv
<1>2. CASE AvailOut # 0
  <2>1. Continue(pos, out \o f.owed) /\ f' = [f EXCEPT !.owed = <<>>]
    BY <1>2 DEF Pay
  <2>2. /\ out \in Seq(Nat) /\ f.owed \in Seq(Nat) /\ Len(f.owed) <= 1
    BY <1>0, LoopFacts DEF FramesOk, FrameRecord
  <2>3. /\ out \o f.owed \in Seq(Nat) /\ Len(out \o f.owed) = Len(out) + Len(f.owed)
        /\ Len(out) \in Nat /\ Len(f.owed) \in Nat
    BY <2>2, Joined
  <2>4. AvailOut \in Nat /\ Len(out) + AvailOut = call.out + call.allowance /\ pos \in pos .. fed
    BY <1>0, VisibleFacts
  <2>5. Len(out) <= Len(out \o f.owed) /\ Len(out \o f.owed) <= call.out + call.allowance
    <3>. DEFINE a == Len(out)
                c == Len(f.owed)
                e == call.out + call.allowance
                r == Len(out \o f.owed)
    <3>1. a \in Nat /\ c \in Nat /\ c <= 1 /\ r = a + c /\ AvailOut \in Nat /\ a + AvailOut = e
          /\ AvailOut # 0
      BY <1>2, <2>2, <2>3, <2>4
    <3>. HIDE DEF a, c, e, r
    <3>2. a <= r /\ r <= e
      BY ONLY <3>1
    <3>. QED  BY <3>2 DEF a, c, e, r
  <2>6. Advance(pos, out \o f.owed)
    BY <2>3, <2>4, <2>5 DEF Advance
  <2>7. CodecMoves
    BY <1>0, <2>1, <2>6 DEF CodecMoves
  <2>8. FramesOk(f')
    <3>1. <<>> \in Seq(Nat) /\ Len(<<>>) <= 1
      OBVIOUS
    <3>2. FramesOk([f EXCEPT !.owed = <<>>])
      BY <1>0, <3>1, FramesChange
    <3>. QED  BY <2>1, <3>2
  <2>. QED  BY <1>0, <2>7, <2>8 DEF FrameInv
<1>. QED  BY <1>1, <1>2

\* The looks for another frame take at most what is visible.
LEMMA BetweenNoMoreStep ==
    ASSUME LoopInv, FrameInv, BetweenNoMore
    PROVE  CodecMoves /\ FrameInv'
<1>0. pc = "codec" /\ lib' = lib /\ FramesOk(f) /\ LibOk(lib)
  BY DEF BetweenNoMore, InState, FrameInv
<1>1. \/ Return(ZU_NEED_INPUT, pos, out) /\ f' = f
      \/ Return(ZU_STREAM_END, pos, out) /\ f' = [f EXCEPT !.state = "DONE", !.held = <<>>]
  BY DEF BetweenNoMore, Done
<1>2. CodecMoves
  BY <1>0, <1>1, InputMoves, VisibleFacts DEF Status, Progress
<1>3. FramesOk(f')
  BY <1>0, <1>1, FramesChange
<1>. QED  BY <1>0, <1>2, <1>3 DEF FrameInv

\* Looking for another frame with all the bytes in sight keeps the contract.
LEMMA BetweenLookStep ==
    ASSUME LoopInv, FrameInv, BetweenLook
    PROVE  CodecMoves /\ FrameInv'
<1>. DEFINE k == LeastOf(AvailIn, 4)
            p == [i \in 1 .. k |-> Ahead(i)]
<1>0. pc = "codec" /\ lib' = lib /\ FramesOk(f) /\ LibOk(lib)
  BY DEF BetweenLook, InState, FrameInv
<1>1. \/ Return(ZU_STREAM_END, pos, out) /\ f' = [f EXCEPT !.state = "DONE", !.held = <<>>]
      \/ Continue(pos, out) /\ f' = [f EXCEPT !.state = "BODY"]
      \/ /\ IsMagicPrefix(p) /\ k # 4
         /\ Return(ZU_NEED_INPUT, pos + k, out) /\ f' = [f EXCEPT !.held = p]
  BY DEF BetweenLook, Done
<1>2. k \in 0 .. AvailIn /\ k <= 4 /\ k \in Nat
  BY <1>0, VisibleFacts DEF LeastOf
<1>. HIDE DEF k
<1>3. p \in Seq(STRING \X Nat) /\ Len(p) = k
  BY <1>0, <1>2, AheadTokens
<1>. HIDE DEF p
<1>4. CodecMoves
  <2>1. pos \in pos .. fed /\ pos + k \in pos .. fed
    BY <1>0, <1>2, VisibleFacts
  <2>. QED  BY <1>0, <1>1, <2>1, InputMoves DEF Status, Progress
<1>5. FramesOk(f')
  <2>1. FramesOk([f EXCEPT !.state = "DONE", !.held = <<>>]) /\ FramesOk([f EXCEPT !.state = "BODY"])
    BY <1>0, FramesChange
  <2>2. k # 4 => Len(p) < 4
    BY <1>2, <1>3
  <2>3. (IsMagicPrefix(p) /\ k # 4) => FramesOk([f EXCEPT !.held = p])
    BY <1>0, <1>3, <2>2, FramesChange
  <2>. QED  BY <1>1, <2>1, <2>3
<1>. QED  BY <1>0, <1>4, <1>5 DEF FrameInv

\* What extends the held bytes is visible, and a longer part of a magic.
LEMMA MatchedFits ==
    ASSUME LoopInv, FrameInv, pc = "codec"
    PROVE  /\ Matched \in 0 .. AvailIn
           /\ f.held \o [i \in 1 .. Matched |-> Ahead(i)] \in Seq(STRING \X Nat)
           /\ Len(f.held \o [i \in 1 .. Matched |-> Ahead(i)]) \in 0 .. 4
           /\ IsMagicPrefix(f.held \o [i \in 1 .. Matched |-> Ahead(i)])
<1>. DEFINE top == LeastOf(AvailIn, 4 - Len(f.held))
            ks  == {k \in 0 .. top : IsMagicPrefix(f.held \o [i \in 1 .. k |-> Ahead(i)])}
<1>0. /\ f.held \in Seq(STRING \X Nat) /\ Len(f.held) \in Nat /\ Len(f.held) < 4
      /\ IsMagicPrefix(f.held) /\ AvailIn \in Nat
  BY VisibleFacts DEF FrameInv, FramesOk, FrameRecord
<1>1. top \in Nat /\ top <= AvailIn /\ Len(f.held) + top <= 4
  <2>. DEFINE m == Len(f.held)
  <2>1. m \in Nat /\ m < 4 /\ top = LeastOf(AvailIn, 4 - m)
    BY <1>0
  <2>. HIDE DEF m, top
  <2>2. top \in Nat /\ top <= AvailIn /\ m + top <= 4
    BY <1>0, <2>1 DEF LeastOf
  <2>. QED  BY <2>2 DEF m
<1>. HIDE DEF top
<1>2. 0 \in ks
  <2>1. f.held \o [i \in 1 .. 0 |-> Ahead(i)] = f.held
    <3>1. [i \in 1 .. 0 |-> Ahead(i)] = <<>>
      OBVIOUS
    <3>2. f.held \o <<>> = f.held
      BY <1>0, ConcatEmptySeq
    <3>. QED  BY <3>1, <3>2
  <2>. QED  BY <1>0, <1>1, <2>1
<1>3. Max(ks) \in ks
  <2>1. ks \subseteq 0 .. top /\ ks # {}
    BY <1>2
  <2>. HIDE DEF ks
  <2>. QED  BY <1>1, <2>1, GreatestMember
<1>4. Matched = Max(ks)
  BY DEF Matched, top
<1>5. Matched \in 0 .. top /\ IsMagicPrefix(f.held \o [i \in 1 .. Matched |-> Ahead(i)])
  <2>. DEFINE k == Matched
  <2>1. k \in ks
    BY <1>3, <1>4
  <2>. HIDE DEF k
  <2>2. k \in 0 .. top /\ IsMagicPrefix(f.held \o [i \in 1 .. k |-> Ahead(i)])
    BY <2>1
  <2>. QED  BY <2>2 DEF k
<1>. HIDE DEF ks
<1>6. Matched \in 0 .. AvailIn
  BY <1>0, <1>1, <1>5
<1>. DEFINE q == [i \in 1 .. Matched |-> Ahead(i)]
<1>7. q \in Seq(STRING \X Nat) /\ Len(q) = Matched
  <2>. DEFINE k == Matched
  <2>1. k \in 0 .. AvailIn
    BY <1>6
  <2>. HIDE DEF k
  <2>2. [i \in 1 .. k |-> Ahead(i)] \in Seq(STRING \X Nat) /\ Len([i \in 1 .. k |-> Ahead(i)]) = k
    BY <2>1, AheadTokens
  <2>. QED  BY <2>2 DEF k
<1>. HIDE DEF q
<1>8. f.held \o q \in Seq(STRING \X Nat) /\ Len(f.held \o q) = Len(f.held) + Matched
  BY <1>0, <1>7, ConcatProperties
<1>9. Len(f.held \o q) \in 0 .. 4
  <2>. DEFINE m == Len(f.held)
  <2>1. m \in Nat /\ m + top <= 4 /\ Matched \in 0 .. top /\ top \in Nat
        /\ Len(f.held \o q) = m + Matched
    BY <1>0, <1>1, <1>5, <1>8
  <2>. HIDE DEF m
  <2>. QED  BY ONLY <2>1
<1>. QED  BY <1>5, <1>6, <1>8, <1>9 DEF q

\* Looking for another frame across two buffers keeps the contract.
LEMMA BetweenHeldStep ==
    ASSUME LoopInv, FrameInv, BetweenHeld
    PROVE  CodecMoves /\ FrameInv'
<1>. DEFINE k    == Matched
            held == f.held \o [i \in 1 .. k |-> Ahead(i)]
<1>0. pc = "codec" /\ FramesOk(f) /\ LibOk(lib)
  BY DEF BetweenHeld, InState, FrameInv
<1>1. /\ k \in 0 .. AvailIn /\ held \in Seq(STRING \X Nat) /\ Len(held) \in 0 .. 4
      /\ IsMagicPrefix(held)
  BY <1>0, MatchedFits
<1>2. \/ /\ Len(held) = 4
         /\ \/ Continue(pos + k, out)
            \/ \E st \in {ZU_ERR_INVALID_DATA} : Return(st, pos + k, out)
         /\ \/ f' = [f EXCEPT !.state = "BODY", !.held = <<>>]
            \/ f' = [f EXCEPT !.held = <<>>]
         /\ lib' = FeedHeld(held).l
      \/ /\ Len(held) # 4 /\ lib' = lib
         /\ \E st \in {ZU_STREAM_END, ZU_ERR_TRAILING} : Return(st, pos + k, out)
         /\ f' = [f EXCEPT !.state = "DONE", !.held = <<>>]
      \/ /\ Len(held) # 4 /\ lib' = lib
         /\ Return(ZU_NEED_INPUT, pos + k, out) /\ f' = [f EXCEPT !.held = held]
  <2>1. FeedHeld(held).err \in {ZU_OK, ZU_ERR_INVALID_DATA} /\ ZU_OK # ZU_ERR_INVALID_DATA
    BY DEF FeedHeld, ZU_OK, ZU_ERR_INVALID_DATA
  <2>2. \/ /\ Len(held) = 4 /\ CarryOn(FeedHeld(held).err, pos + k)
           /\ f' = NextFrame(FeedHeld(held).err) /\ lib' = FeedHeld(held).l
        \/ /\ Len(held) # 4 /\ lib' = lib
           /\ \E st \in {ZU_STREAM_END, ZU_ERR_TRAILING} : Return(st, pos + k, out)
           /\ f' = [f EXCEPT !.state = "DONE", !.held = <<>>]
        \/ /\ Len(held) # 4 /\ lib' = lib
           /\ Return(ZU_NEED_INPUT, pos + k, out) /\ f' = [f EXCEPT !.held = held]
    BY DEF BetweenHeld, Done, HeldAtEnd
  <2>3. \A st : /\ CarryOn(st, pos + k) => \/ st = ZU_OK /\ Continue(pos + k, out)
                                           \/ st # ZU_OK /\ Return(st, pos + k, out)
    BY DEF CarryOn
  <2>4. \A st : \/ NextFrame(st) = [f EXCEPT !.state = "BODY", !.held = <<>>]
                \/ NextFrame(st) = [f EXCEPT !.held = <<>>]
    <3>1. f = [f EXCEPT !.state = @]
      BY <1>0 DEF FramesOk, FrameRecord
    <3>. QED  BY <1>0, <3>1 DEF NextFrame, FramesOk, FrameRecord
  <2>. HIDE DEF k, held
  <2>. QED  BY <2>1, <2>2, <2>3, <2>4
<1>. HIDE DEF k, held
<1>3. CodecMoves
  <2>1. pos + k \in pos .. fed
    BY <1>0, <1>1, VisibleFacts
  <2>. QED  BY <1>0, <1>2, <2>1, InputMoves DEF Status, Progress, Errors
<1>4. FramesOk(f')
  <2>1. /\ FramesOk([f EXCEPT !.state = "DONE", !.held = <<>>])
        /\ FramesOk([f EXCEPT !.state = "BODY", !.held = <<>>])
        /\ FramesOk([f EXCEPT !.held = <<>>])
    <3>1. <<>> \in Seq(STRING \X Nat) /\ Len(<<>>) < 4
      OBVIOUS
    <3>2. "DONE" \in {"BODY", "BETWEEN", "DONE"} /\ "BODY" \in {"BODY", "BETWEEN", "DONE"}
      OBVIOUS
    <3>. QED  BY <1>0, <3>1, <3>2, EmptyIsMagic, FramesChange, Zenon
  <2>2. Len(held) # 4 => Len(held) < 4
    <3>. DEFINE n == Len(held)
    <3>1. n \in 0 .. 4
      BY <1>1
    <3>. HIDE DEF n
    <3>2. n # 4 => n < 4
      BY ONLY <3>1
    <3>. QED  BY <3>2 DEF n
  <2>3. Len(held) # 4 => FramesOk([f EXCEPT !.held = held])
    BY <1>0, <1>1, <2>2, FramesChange
  <2>. QED  BY <1>2, <2>1, <2>3
<1>5. LibOk(FeedHeld(held).l)
  <2>. DEFINE l == [FreshLib EXCEPT !.seen = held, !.stage = "head"]
  <2>0. FreshLib \in LibRecord
    BY FreshLibOk DEF LibOk
  <2>1. l \in LibRecord
    BY <1>1, <2>0 DEF LibRecord
  <2>2. l.stage = "head"
    BY <2>0 DEF LibRecord
  <2>. HIDE DEF l
  <2>3. LibOk(l)
    BY <2>1, <2>2 DEF LibOk
  <2>. QED  BY <2>3 DEF l, FeedHeld
<1>. QED  BY <1>0, <1>2, <1>3, <1>4, <1>5 DEF FrameInv

\* What the probe's outcome says.
LEMMA ProbedIs ==
    ASSUME NEW c
    PROVE  /\ c.stop = "error" => Probed(c) = c.err
           /\ c.stop # "error" /\ c.bytes # <<>> => Probed(c) = ZU_NEED_OUTPUT
           /\ c.stop = "frame" /\ c.bytes = <<>> => Probed(c) = ZU_OK
           /\ c.stop \notin {"error", "frame"} /\ c.bytes = <<>> => Probed(c) = ZU_ERR_TRUNCATED
<1>0. "error" # "frame"
  OBVIOUS
<1>. DEFINE A == c.stop = "error"  B == c.bytes # <<>>  C == c.stop = "frame"
<1>1. Probed(c) = CASE A -> c.err
                    [] ~A /\ B -> ZU_NEED_OUTPUT
                    [] C /\ ~B -> ZU_OK
                    [] OTHER -> ZU_ERR_TRUNCATED
  BY DEF Probed
<1>2. A => ~C
  BY <1>0
<1>. HIDE DEF A, B, C
<1>3. /\ A => Probed(c) = c.err
      /\ ~A /\ B => Probed(c) = ZU_NEED_OUTPUT
      /\ C /\ ~B => Probed(c) = ZU_OK
      /\ ~A /\ ~C /\ ~B => Probed(c) = ZU_ERR_TRUNCATED
  BY <1>1, <1>2, Zenon
<1>. QED  BY <1>3, Zenon DEF A, B, C

\* The library could not move: the probe takes at most the one byte it is
\* given room for.
LEMMA StalledStep ==
    ASSUME LoopInv, FrameInv, pc = "codec", Stalled
    PROVE  CodecMoves /\ FrameInv'
<1>0. FramesOk(f) /\ LibOk(lib) /\ pos \in pos .. fed /\ AvailIn \in Nat /\ AvailOut \in Nat
  BY VisibleFacts DEF FrameInv
<1>1. CASE AvailOut = 0 /\ AvailIn = 0 /\ flush = ZU_FINISH
  <2>. DEFINE r  == Probe
              f1 == [IF r.stop = "frame" THEN Ended ELSE f EXCEPT !.owed = r.bytes]
  <2>1. /\ lib' = r.l /\ f' = IF r.stop = "error" THEN f ELSE f1
        /\ CarryOn(Probed(r), pos)
    BY <1>1 DEF Stalled
  <2>3. TurnOk(r, 0, 1)
    <3>1. Visible(0) /\ 1 \in Nat
      BY LoopFacts DEF Visible
    <3>. QED  BY <1>0, <3>1, DecompressKeeps DEF Probe
  <2>. HIDE DEF r
  <2>4. LibOk(r.l) /\ r.bytes \in Seq(Nat) /\ Len(r.bytes) <= 1 /\ r.err \in Status
    BY <2>3 DEF TurnOk, CallRecord
  <2>4a. Continue(pos, out) \/ \E st \in Status : Return(st, pos, out)
    <3>1. Probed(r) \in Status
      BY <2>4, ProbedIs DEF Status, Progress, Errors
    <3>. QED  BY <2>1, <3>1 DEF CarryOn
  <2>5. FramesOk(Ended)
    BY <1>0, FramesChange DEF Ended
  <2>6. FramesOk(f1)
    <3>. DEFINE g == IF r.stop = "frame" THEN Ended ELSE f
    <3>1. FramesOk(g)
      BY <1>0, <2>5
    <3>. HIDE DEF g
    <3>2. FramesOk([g EXCEPT !.owed = r.bytes])
      BY <2>4, <3>1, FramesChange
    <3>. QED  BY <3>2 DEF g
  <2>7. CodecMoves
    BY <1>0, <2>4a, InputMoves
  <2>. QED  BY <1>0, <2>1, <2>4, <2>6, <2>7 DEF FrameInv
<1>2. CASE ~(AvailOut = 0 /\ AvailIn = 0 /\ flush = ZU_FINISH)
  <2>. DEFINE st == CASE AvailOut = 0 /\ AvailIn > 0 -> ZU_NEED_OUTPUT
                      [] AvailIn = 0 /\ flush # ZU_FINISH -> ZU_NEED_INPUT
                      [] AvailOut > 0 /\ AvailIn = 0 /\ flush = ZU_FINISH -> ZU_ERR_TRUNCATED
                      [] AvailOut > 0 /\ AvailIn > 0 -> ZU_ERR_INTERNAL
  <2>1. Return(st, pos, out) /\ f' = f /\ lib' = lib
    BY <1>2 DEF Stalled
  <2>2. st \in {ZU_NEED_OUTPUT, ZU_NEED_INPUT, ZU_ERR_TRUNCATED, ZU_ERR_INTERNAL}
    <3>1. AvailIn = 0 \/ AvailIn > 0
      BY <1>0
    <3>2. AvailOut = 0 \/ AvailOut > 0
      BY <1>0
    <3>3. ~(AvailIn = 0 /\ AvailIn > 0) /\ ~(AvailOut = 0 /\ AvailOut > 0)
      BY <1>0
    <3>. QED  BY <1>2, <3>1, <3>2, <3>3
  <2>. HIDE DEF st
  <2>3. CodecMoves
    BY <1>0, <2>1, <2>2, InputMoves DEF Status, Progress, Errors
  <2>. QED  BY <1>0, <2>1, <2>3 DEF FrameInv
<1>. QED  BY <1>1, <1>2

\* A turn of the library in a frame keeps the contract.
LEMMA BodyStep ==
    ASSUME LoopInv, FrameInv, Body
    PROVE  CodecMoves /\ FrameInv'
<1>0. pc = "codec" /\ FramesOk(f) /\ LibOk(lib)
  BY DEF Body, InState, FrameInv
<1>. DEFINE r == Decompress(AvailIn, AvailOut)
<1>1. TurnOk(r, AvailIn, AvailOut) /\ AvailIn \in Nat /\ AvailOut \in Nat
  BY <1>0, DecompressKeeps, VisibleFacts
<1>2. \/ Return(r.err, pos, out) /\ f' = f /\ lib' = lib
      \/ Stalled
      \/ /\ Continue(pos + r.used, out \o r.bytes) /\ lib' = r.l
         /\ f' = Ended \/ f' = f
  <2>1. \E x \in {r} :
           IF x.stop = "error"
             THEN Return(x.err, pos, out) /\ UNCHANGED <<f, lib>>
           ELSE IF x.stop # "frame" /\ x.used = 0 /\ x.bytes = <<>>
             THEN Stalled
           ELSE /\ Continue(pos + x.used, out \o x.bytes)
                /\ lib' = x.l
                /\ f' = IF x.stop = "frame" THEN Ended ELSE f
    BY DEF Body
  <2>. HIDE DEF r
  <2>. QED  BY <2>1
<1>. HIDE DEF r
<1>3. CASE Return(r.err, pos, out) /\ f' = f /\ lib' = lib
  <2>1. r.err \in Status
    BY <1>1 DEF TurnOk, CallRecord
  <2>2. CodecMoves
    BY <1>0, <1>3, <2>1, InputMoves, VisibleFacts
  <2>. QED  BY <1>0, <1>3, <2>2 DEF FrameInv
<1>4. CASE Stalled
  BY <1>0, <1>4, StalledStep
<1>5. CASE Continue(pos + r.used, out \o r.bytes) /\ lib' = r.l /\ (f' = Ended \/ f' = f)
  <2>1. /\ LibOk(r.l) /\ r.bytes \in Seq(Nat) /\ Len(r.bytes) <= AvailOut
        /\ r.used \in Nat /\ r.used <= AvailIn
    BY <1>1 DEF TurnOk, CallRecord
  <2>2. pos + r.used \in pos .. fed
    <3>1. r.used \in 0 .. AvailIn
      BY <1>1, <2>1
    <3>. QED  BY <1>0, <3>1, VisibleFacts
  <2>3. /\ out \o r.bytes \in Seq(Nat) /\ Len(out \o r.bytes) = Len(out) + Len(r.bytes)
        /\ Len(out) \in Nat /\ Len(r.bytes) \in Nat
    BY <2>1, Joined, LoopFacts
  <2>4. Len(out) <= Len(out \o r.bytes) /\ Len(out \o r.bytes) <= call.out + call.allowance
    <3>. DEFINE a == Len(out)
                c == Len(r.bytes)
                e == call.out + call.allowance
                t == Len(out \o r.bytes)
    <3>1. a \in Nat /\ c \in Nat /\ c <= AvailOut /\ t = a + c /\ AvailOut \in Nat
          /\ a + AvailOut = e
      BY <1>0, <2>1, <2>3, VisibleFacts
    <3>. HIDE DEF a, c, e, t
    <3>2. a <= t /\ t <= e
      BY ONLY <3>1
    <3>. QED  BY <3>2 DEF a, c, e, t
  <2>5. Advance(pos + r.used, out \o r.bytes)
    BY <2>2, <2>3, <2>4 DEF Advance
  <2>6. CodecMoves
    BY <1>0, <1>5, <2>5 DEF CodecMoves
  <2>7. FramesOk(f')
    BY <1>0, <1>5, FramesChange DEF Ended
  <2>. QED  BY <1>5, <2>1, <2>6, <2>7 DEF FrameInv
<1>. QED  BY <1>2, <1>3, <1>4, <1>5

\* Every step of a framed decoder keeps the contract.
LEMMA FrameSteps ==
    ASSUME LoopInv, FrameInv, FrameStep
    PROVE  CodecMoves /\ FrameInv'
BY PayStep, BetweenNoMoreStep, BetweenLookStep, BetweenHeldStep, BodyStep DEF FrameStep

----------------------------------------------------------------------------
(***************************************************************************)
(* The decoders together.  A step of one codec says nothing of the others, *)
(* whose jobs it does not run.                                             *)
(***************************************************************************)
LibraryInv == LoopInv /\ FrameInv /\ BlockInv /\ IdentityInv

\* What a block's properties rest on when the codec itself does not move:
\* its state, the cursors and the call's verdict.
LEMMA BlockStays ==
    ASSUME BlockInv, b' = b, job' = job, pos' = pos, out' = out,
           IsBlock /\ b.cap > 0 => pc' = "codec" /\ flush' = flush,
           (Whole /\ IsBlock /\ pc' = "close") => result' = ZU_ERR_MEMORY
    PROVE  BlockInv'
<1>0. /\ IsBlock' = IsBlock /\ Whole' = Whole /\ BlockSize' = BlockSize
      /\ GrowthBound' = GrowthBound /\ BlockVerdict' = BlockVerdict /\ Allowed' = Allowed
      /\ Decoded(Len(job.input))' = Decoded(Len(job.input))
  BY SameJob
<1>1. BlockTyped' /\ Gathering'
  BY <1>0 DEF BlockInv, BlockTyped, Gathering
<1>2. Searching'
  <2>1. SearchCeiling(b.in)' = SearchCeiling(b.in)
    BY DEF SearchCeiling, FormatCeiling, Limited
  <2>. QED  BY <1>0, <2>1 DEF BlockInv, Searching
<1>3. Delivering'
  <2>1. Undelivered(b)' = Undelivered(b)
    BY DEF Undelivered
  <2>. QED  BY <1>0, <2>1 DEF BlockInv, Delivering
<1>4. StageIsBounded'
  BY <1>0 DEF BlockInv, StageIsBounded, GrowthBound
<1>5. BlockVerdictIsExact'
  BY <1>0 DEF BlockInv, BlockVerdictIsExact, BlockSettled
<1>. QED  BY <1>1, <1>2, <1>3, <1>4, <1>5 DEF BlockInv

\* A codec's step leaves the block decoder's properties alone when the job
\* is not a block.
LEMMA OthersBlock ==
    ASSUME BlockInv, ~IsBlock, job' = job, b' = b
    PROVE  BlockInv'
<1>1. ~IsBlock'
  BY DEF IsBlock
<1>. QED  BY <1>1 DEF BlockInv, BlockTyped, Gathering, Searching, Delivering, StageIsBounded,
             BlockVerdictIsExact, BlockSettled

\* Likewise for the identity codec.
LEMMA IdentityStays ==
    ASSUME IdentityInv, job' = job, pos' = pos, out' = out,
           pc' = "codec" => call'.pos = pos /\ call'.out = Len(out),
           (Whole /\ pc' \in {"close", "closed"}) =>
              result' = ZU_ERR_MEMORY \/ (pc \in {"close", "closed"} /\ result' = result)
    PROVE  IdentityInv'
<1>1. Decoded(pos)' = Decoded(pos)
  BY DEF Decoded, BytesOf, BytesAt
<1>2. \A i : BytesOf(i)' = BytesOf(i)
  BY DEF BytesOf, BytesAt
<1>3. Whole' = Whole
  BY DEF Whole
<1>4. job.wrap = "identity" => IdentityIsExact'
  <2>. SUFFICES ASSUME job.wrap = "identity", Whole', pc' \in {"close", "closed"},
                       result' # ZU_ERR_MEMORY
                PROVE  IdentityIsExact'
    BY DEF IdentityIsExact
  <2>1. pc \in {"close", "closed"} /\ result' = result /\ Whole
    BY <1>3
  <2>2. IdentityIsExact
    BY DEF IdentityInv
  <2>. QED  BY <1>2, <2>1, <2>2 DEF IdentityIsExact
<1>. QED  BY <1>1, <1>4 DEF IdentityInv

\* The other codecs leave the identity codec's invariant alone.
LEMMA OthersIdentity ==
    ASSUME IdentityInv, job.wrap # "identity", job' = job
    PROVE  IdentityInv'
BY DEF IdentityInv

\* The loop's own steps.
LEMMA LoopKeepsLibraries ==
    ASSUME LibraryInv, LoopStep, UNCHANGED <<frameVars, b>>
    PROVE  LibraryInv'
<1>0. LoopInv /\ FrameInv /\ BlockInv /\ IdentityInv /\ f' = f /\ lib' = lib /\ b' = b
  BY DEF LibraryInv, frameVars
<1>1. LoopInv' /\ FrameInv'
  BY <1>0, LoopStepInv DEF FrameInv
<1>2. CASE Open
  <2>1. /\ pc = "open" /\ UNCHANGED <<job, pos, out, flush, call>>
        /\ pc' \in {"call", "closed"} /\ (pc' = "closed" => result' = ZU_ERR_MEMORY)
    BY <1>2 DEF Open
  <2>2. ~(IsBlock /\ b.cap > 0)
    BY <1>0, <2>1 DEF BlockInv, Searching
  <2>3. BlockInv'
    BY <1>0, <2>1, <2>2, BlockStays
  <2>4. IdentityInv'
    BY <1>0, <2>1, IdentityStays
  <2>. QED  BY <1>1, <2>3, <2>4 DEF LibraryInv
<1>3. CASE CallCodec
  <2>1. pc = "call" /\ UNCHANGED <<job, pos, out>> /\ pc' = "codec"
    BY <1>3 DEF CallCodec
  <2>2. call'.pos = pos /\ call'.out = Len(out)
    BY <1>3 DEF CallCodec
  <2>3. ~(IsBlock /\ b.cap > 0)
    BY <1>0, <2>1 DEF BlockInv, Searching
  <2>4. BlockInv'
    BY <1>0, <2>1, <2>3, BlockStays
  <2>5. IdentityInv'
    BY <1>0, <2>1, <2>2, IdentityStays
  <2>. QED  BY <1>1, <2>4, <2>5 DEF LibraryInv
<1>4. CASE ReserveFails
  <2>1. pc = "call" /\ UNCHANGED <<job, pos, out>> /\ pc' = "close" /\ result' = ZU_ERR_MEMORY
    BY <1>4 DEF ReserveFails
  <2>2. ~(IsBlock /\ b.cap > 0)
    BY <1>0, <2>1 DEF BlockInv, Searching
  <2>3. BlockInv'
    BY <1>0, <2>1, <2>2, BlockStays
  <2>4. IdentityInv'
    BY <1>0, <2>1, IdentityStays
  <2>. QED  BY <1>1, <2>3, <2>4 DEF LibraryInv
<1>5. CASE Close
  <2>1. /\ pc = "close" /\ UNCHANGED <<job, pos, out, flush, call, result>> /\ pc' = "closed"
    BY <1>5 DEF Close
  <2>2. ~(IsBlock /\ b.cap > 0)
    BY <1>0, <2>1 DEF BlockInv, Searching
  <2>3. BlockInv'
    BY <1>0, <2>1, <2>2, BlockStays
  <2>4. IdentityInv'
    BY <1>0, <2>1, IdentityStays
  <2>. QED  BY <1>1, <2>3, <2>4 DEF LibraryInv
<1>. QED  BY <1>2, <1>3, <1>4, <1>5 DEF LoopStep

\* The invariant of the decoders holds at the start.
LEMMA LibraryInitInv == Init => LibraryInv
<1>. SUFFICES ASSUME Init PROVE LibraryInv
  OBVIOUS
<1>0. LoopInit /\ FrameInit /\ BlockInit
  BY DEF Init
<1>1. LoopInv
  BY <1>0, LoopInitInv
<1>2. pos = 0 /\ out = <<>> /\ pc = "open"
  BY <1>0 DEF LoopInit
<1>3. FrameInv
  <2>1. f \in FrameRecord
    <3>1. <<>> \in Seq(STRING \X Nat) /\ <<>> \in Seq(Nat)
      OBVIOUS
    <3>. QED  BY <1>0, <3>1 DEF FrameInit, NewFrames, FrameRecord
  <2>2. f.held = <<>> /\ f.owed = <<>> /\ Len(<<>>) = 0
    BY <1>0 DEF FrameInit, NewFrames
  <2>3. FramesOk(f)
    BY <2>1, <2>2, EmptyIsMagic DEF FramesOk
  <2>. QED  BY <1>0, <2>3, FreshLibOk DEF FrameInit, FrameInv
<1>4. BlockInv
  <2>0. b = NewBlock
    BY <1>0 DEF BlockInit
  <2>1. /\ b.in = 0 /\ b.cap = 0 /\ b.stage_cap = 0 /\ b.stage = <<>> /\ b.stage_pos = 0
        /\ b.done = FALSE
    BY <2>0 DEF NewBlock
  <2>2. BlockTyped
    <3>1. <<>> \in Seq(Nat) /\ Len(<<>>) = 0
      OBVIOUS
    <3>. QED  BY <2>0, <2>1, <3>1 DEF BlockTyped, BlockRecord, NewBlock
  <2>3. Gathering /\ Searching /\ Delivering
    BY <1>2, <2>1, SearchConstants DEF Gathering, Searching, Delivering
  <2>4. StageIsBounded
    <3>. SUFFICES ASSUME IsBlock PROVE StageIsBounded
      BY DEF StageIsBounded
    <3>1. job.opts.max_output \in Nat
      BY <1>1, LoopFacts DEF LimitOpts
    <3>2. GrowthBound \in Nat
      BY <1>1, GrowthBoundFits
    <3>. QED  BY <2>1, <3>1, <3>2 DEF StageIsBounded, GrowthBound
  <2>5. BlockVerdictIsExact
    BY <1>2 DEF BlockVerdictIsExact, BlockSettled
  <2>. QED  BY <2>2, <2>3, <2>4, <2>5 DEF BlockInv
<1>5. IdentityInv
  <2>1. Decoded(pos) = <<>>
    BY <1>2, DecodedIsRun, RunEmpty
  <2>. QED  BY <1>2, <2>1 DEF IdentityInv, IdentityIsExact
<1>. QED  BY <1>1, <1>3, <1>4, <1>5 DEF LibraryInv

\* Every step keeps the invariant, and is one of the decoder handle's.
LEMMA LibraryNextInv ==
    ASSUME LibraryInv, [Next]_vars
    PROVE  LibraryInv' /\ [Handle!Next]_(Handle!vars)
<1>0. LoopInv /\ FrameInv /\ BlockInv /\ IdentityInv
  BY DEF LibraryInv
<1>1. CASE LoopStep /\ UNCHANGED <<frameVars, b>>
  BY <1>0, <1>1, LoopKeepsLibraries, LoopStepIsHandles
<1>2. CASE FrameStep /\ UNCHANGED b
  <2>1. CodecMoves /\ FrameInv'
    BY <1>0, <1>2, FrameSteps
  <2>2. LoopInv' /\ [Handle!Next]_(Handle!vars) /\ job' = job
    BY <1>0, <2>1, CodecMovesAreHandles
  <2>3. IsFramed
    BY <1>2 DEF FrameStep, Pay, BetweenNoMore, BetweenLook, BetweenHeld, Body, InState
  <2>4. ~IsBlock /\ job.wrap # "identity"
    BY <2>3 DEF IsFramed, IsBlock
  <2>5. BlockInv' /\ IdentityInv'
    BY <1>0, <1>2, <2>2, <2>4, OthersBlock, OthersIdentity
  <2>. QED  BY <2>1, <2>2, <2>5 DEF LibraryInv
<1>3. CASE BlockStep /\ UNCHANGED frameVars
  <2>1. CodecMoves /\ BlockInv'
    BY <1>0, <1>3, BlockSteps
  <2>2. LoopInv' /\ [Handle!Next]_(Handle!vars) /\ job' = job
    BY <1>0, <2>1, CodecMovesAreHandles
  <2>3. IsBlock
    BY <1>3 DEF BlockStep, BlockDrain, BlockGather, BlockExpected, SearchBegins, SearchTry, AtEnd
  <2>4. job.wrap # "identity"
    BY <2>3 DEF IsBlock
  <2>5. IdentityInv' /\ FrameInv'
    BY <1>0, <1>3, <2>2, <2>4, OthersIdentity DEF FrameInv, frameVars
  <2>. QED  BY <2>1, <2>2, <2>5 DEF LibraryInv
<1>4. CASE IdentityDecode /\ UNCHANGED <<frameVars, b>>
  <2>1. CodecMoves /\ IdentityInv'
    BY <1>0, <1>4, IdentityStep
  <2>2. LoopInv' /\ [Handle!Next]_(Handle!vars) /\ job' = job
    BY <1>0, <2>1, CodecMovesAreHandles
  <2>3. ~IsBlock
    BY <1>4 DEF IdentityDecode, IsBlock
  <2>4. BlockInv' /\ FrameInv'
    BY <1>0, <1>4, <2>2, <2>3, OthersBlock DEF FrameInv, frameVars
  <2>. QED  BY <2>1, <2>2, <2>4 DEF LibraryInv
<1>5. CASE UNCHANGED vars
  <2>1. /\ UNCHANGED loopVars /\ f' = f /\ lib' = lib /\ b' = b
    BY <1>5 DEF vars, frameVars
  <2>2. LoopInv' /\ FrameInv'
    BY <1>0, <2>1, LoopStutterInv DEF FrameInv
  <2>3. UNCHANGED <<job, pc, pos, out, flush, call, result, last>>
        /\ UNCHANGED <<job, finished, total_in, total_out, last>>
    BY <2>1 DEF loopVars
  <2>4. BlockInv'
    <3>1. IsBlock' = IsBlock /\ BlockSettled' = BlockSettled
      BY <2>3 DEF IsBlock, BlockSettled, Whole
    <3>2. /\ BlockSize' = BlockSize /\ GrowthBound' = GrowthBound /\ BlockVerdict' = BlockVerdict
          /\ Allowed' = Allowed /\ Decoded(Len(job.input))' = Decoded(Len(job.input))
      BY <2>3, SameJob
    <3>3. SearchCeiling(b.in)' = SearchCeiling(b.in) /\ Undelivered(b)' = Undelivered(b)
      BY <2>1, <2>3 DEF SearchCeiling, FormatCeiling, Limited, Undelivered
    <3>4. BlockTyped' /\ Gathering' /\ Searching'
      BY <1>0, <2>1, <2>3, <3>1, <3>2, <3>3 DEF BlockInv, BlockTyped, Gathering, Searching
    <3>5. Delivering' /\ StageIsBounded' /\ BlockVerdictIsExact'
      BY <1>0, <2>1, <2>3, <3>1, <3>2, <3>3 DEF BlockInv, Delivering, StageIsBounded,
         BlockVerdictIsExact, GrowthBound
    <3>. QED  BY <3>4, <3>5 DEF BlockInv
  <2>5. IdentityInv'
    <3>1. (job.wrap = "identity" /\ pc = "codec") => call.pos = pos /\ call.out = Len(out)
      BY <1>0 DEF IdentityInv
    <3>2. CASE job.wrap = "identity"
      BY <1>0, <2>3, <3>1, <3>2, IdentityStays
    <3>3. CASE job.wrap # "identity"
      BY <1>0, <2>3, <3>3, OthersIdentity
    <3>. QED  BY <3>2, <3>3
  <2>6. UNCHANGED Handle!vars
    <3>1. LiveHandle' = LiveHandle
      BY <2>3 DEF LiveHandle
    <3>. QED  BY <2>3, <3>1, HandleStutters
  <2>. QED  BY <2>2, <2>4, <2>5, <2>6 DEF LibraryInv
<1>6. CASE Returned /\ UNCHANGED <<frameVars, b>>
  <2>1. UNCHANGED vars
    BY <1>6 DEF Returned, vars
  <2>. QED  BY <1>5, <2>1
<1>. QED  BY <1>1, <1>2, <1>3, <1>4, <1>5, <1>6 DEF Next

----------------------------------------------------------------------------
\* The invariant holds in every reachable state, whatever the jobs.
THEOREM LibrariesKeepTheContract == Spec => []LibraryInv
<1>1. Init => LibraryInv
  BY LibraryInitInv
<1>2. LibraryInv /\ [Next]_vars => LibraryInv'
  BY LibraryNextInv
<1>. QED  BY <1>1, <1>2, PTL DEF Spec

\* However large a block claims to be, the decoder of lz4-block never holds a
\* stage larger than the caller's max_output, nor, without a promised size,
\* than the floor of the search, four times the input and four times what
\* the block is good for (zu_int_lz4b_search).
THEOREM StageStaysBounded == Spec => []StageIsBounded
<1>1. LibraryInv => StageIsBounded
  BY DEF LibraryInv, BlockInv
<1>. QED  BY <1>1, LibrariesKeepTheContract, PTL

\* The codecs without a frame of their own give the verdict the input
\* deserves and all of its bytes, for every slicing, every window and every
\* limit: lz4-block as its search and its promised size find it, the identity
\* codec cut at the ceiling.
THEOREM UnframedVerdictsAreExact == Spec => []UnframedVerdicts
<1>1. LibraryInv => UnframedVerdicts
  <2>. SUFFICES ASSUME LibraryInv PROVE UnframedVerdicts
    OBVIOUS
  <2>1. BlockVerdictIsExact /\ IdentityInv
    BY DEF LibraryInv, BlockInv
  <2>2. IdentityIsExact
    BY <2>1 DEF IdentityInv, IdentityIsExact
  <2>. QED  BY <2>1, <2>2 DEF UnframedVerdicts
<1>. QED  BY <1>1, LibrariesKeepTheContract, PTL

\* The loop with any of these codecs implements the decoder handle: every
\* codec keeps the cursor contract that ZuDecoder assumes of an arbitrary
\* one, so what ZuDecoderProofs proves of the handle holds of it.
THEOREM LibrariesImplementTheHandle == Spec => Handle!Spec
<1>1. Init => Handle!Init
  BY LoopInitIsHandles DEF Init
<1>2. LibraryInv /\ [Next]_vars => [Handle!Next]_(Handle!vars)
  BY LibraryNextInv
<1>. QED  BY <1>1, <1>2, LibrariesKeepTheContract, PTL DEF Spec, Handle!Spec

----------------------------------------------------------------------------
(***************************************************************************)
(* A framed decoder follows its stream.                                    *)
(***************************************************************************)
\* A frame starts after token q.
StartsFrame(j, q) ==
    LET r == Readings(j)[q]
    IN  \/ r.phase = "magic" /\ r.k = 0 /\ r.n = 0
        \/ r.phase = "between" /\ j.opts.concat /\ FrameAt(j, q + 1)

\* The library has seen as much of the magic as there is.
MagicStands(j, l, q) ==
    LET r == Readings(j)[q]
    IN  /\ l.n = 0
        /\ \/ l.seen = <<>> /\ StartsFrame(j, q)
           \/ /\ r.phase = "magic" /\ r.k \in 1 .. 3 /\ r.k <= q /\ r.n = 0
              /\ l.seen = SubSeq(j.input, q - r.k + 1, q)

HeadStands(j, l, q) ==
    LET r == Readings(j)[q]
    IN  /\ r.phase = "head" /\ 4 <= q /\ r.n = 0 /\ l.n = 0
        /\ l.seen = SubSeq(j.input, q - 3, q)

\* The library, which has read q tokens and given o, stands where the stream
\* does.
LibStands(j, l, q, o) ==
    LET r == Readings(j)[q]
    IN  /\ q \in 0 .. Len(j.input)
        /\ r.err = ZU_OK /\ r.out = o \o l.pend
        /\ l.stage = "magic" => MagicStands(j, l, q)
        /\ l.stage = "head" => HeadStands(j, l, q)
        /\ l.stage = "block" => r.phase = "block" /\ r.n = l.n /\ r.check = l.check
        /\ l.stage = "sum" => r.phase = "sum" /\ r.n = l.n
        /\ l.stage = "done" => r.phase = "between" /\ r.end = q

\* How far a library is that stands at cursor p: past the byte it gave back.
Place(l, p) == IF l.hostage THEN p + 1 ELSE p

\* A frame ends at q, with o decoded.
FrameEnds(j, q, o) ==
    LET r == Readings(j)[q]
    IN  /\ q \in 0 .. Len(j.input)
        /\ r.err = ZU_OK /\ r.phase = "between" /\ r.end = q /\ r.out = o

\* The stream goes on after o.
MoreComes(j, o) ==
    \E q \in 0 .. Len(j.input) : Len(Readings(j)[q].out) > Len(o)

\* The decoder, at cursors p and o with fed tokens visible, follows the
\* stream.
FrameAlong(j, fedTo, p, o, g, l) ==
    /\ g.state = "BODY" =>
         /\ LibStands(j, l, Place(l, p), o \o g.owed)
         /\ l.hostage => l.stage = "done" /\ p < fedTo
    /\ g.state = "BETWEEN" =>
         /\ l = FreshLib /\ Len(g.held) <= p
         /\ FrameEnds(j, p - Len(g.held), o \o g.owed)
         /\ g.held = SubSeq(j.input, p - Len(g.held) + 1, p)
         /\ g.held # <<>> => j.opts.concat
         /\ g.held # <<>> /\ j.driver = "whole" => CutAfter(j, p - Len(g.held))
    /\ g.state # "DONE"

\* A call of the library in progress, from cursors p and o.
TurnAlong(j, p, o, avail, room, c) ==
    /\ c.stop \in {"go", "starved", "full"} =>
         /\ LibStands(j, c.l, Place(c.l, p + c.used), o \o c.bytes)
         /\ c.l.hostage => c.l.stage = "done" /\ c.used < avail
    /\ c.stop = "go" => c.l.pend = <<>>
    /\ c.stop = "starved" => c.used = avail /\ c.l.pend = <<>>
    /\ c.stop = "full" => Len(c.bytes) = room /\ MoreComes(j, o \o c.bytes)
    /\ c.stop = "frame" => c.l = FreshLib /\ FrameEnds(j, p + c.used, o \o c.bytes)
    /\ c.stop = "error" =>
         /\ c.used < avail /\ c.err # ZU_OK
         /\ Readings(j)[p + c.used + 1].err = c.err
         /\ Readings(j)[p + c.used + 1].out = o \o c.bytes

\* The end of the stream as the codec reports it.
StreamEndsAt(j, fedTo, p, o) ==
    LET r == ReferenceOf(j)
    IN  /\ r.err = ZU_OK /\ r.out = o
        /\ r.phase = IF r.end = Len(j.input) THEN "between" ELSE "tail"
        /\ r.end <= p /\ p <= r.end + 3
        /\ IsMagicPrefix(SubSeq(j.input, r.end + 1, p))
        /\ fedTo = p =>
             \/ p = Len(j.input) /\ (r.end = p \/ ~j.opts.reject)
             \/ ~j.opts.concat /\ p = r.end
        /\ j.driver = "whole" /\ j.opts.reject => ~HeldTail(j, r.end)

\* An answer of the codec, at cursors p and o with fedTo tokens and room
\* bytes to go to, judged by the stream.
FrameJudged(j, fedTo, fl, room, st, p, o) ==
    LET r == ReferenceOf(j)
    IN  /\ st # ZU_OK
        /\ st = ZU_STREAM_END => StreamEndsAt(j, fedTo, p, o)
        /\ st \in Errors => VerdictOn(j, r) = st /\ Len(r.out) <= room
        /\ st \in Errors /\ p # fedTo => r.err # ZU_OK
        /\ st = ZU_ERR_TRAILING /\ j.driver = "whole" => HeldTail(j, r.end)
        /\ st = ZU_NEED_INPUT => fl # ZU_FINISH /\ p = fedTo
        /\ st = ZU_NEED_OUTPUT => Len(o) = room /\ Len(r.out) > Len(o)

----------------------------------------------------------------------------
(***************************************************************************)
(* The reference decoder of frames, token by token.                        *)
(***************************************************************************)
RefPhases == {"magic", "head", "block", "sum", "between", "tail"}

\* What is known of a stream after some of its tokens.
RefRecord == [phase : RefPhases, k : Nat, n : Nat, check : BOOLEAN, out : Seq(Nat),
              end : Nat, err : Status]

\* The ways a token changes a reading.
RefMagic(r) == [r EXCEPT !.k = @ + 1, !.phase = IF r.k = 3 THEN "head" ELSE @]

RefBlock(r, t) == [r EXCEPT !.phase = "block", !.check = t[2] = 1]

RefTaken(j, r, i) == [r EXCEPT !.out = @ \o BytesAt(j.input, i), !.n = @ + j.input[i][2]]

RefSum(r) == [r EXCEPT !.phase = "sum"]

RefOpen(r) == [r EXCEPT !.phase = "magic", !.k = 1, !.n = 0]

RefTail(r) == [r EXCEPT !.phase = "tail"]

\* After an error, and in a tail, nothing is read.
LEMMA RefStopped ==
    ASSUME NEW j, NEW r, NEW i, r.err # ZU_OK \/ r.phase = "tail"
    PROVE  RefStep(j, r, i) = r
BY Zenon DEF RefStep

\* In a magic.
LEMMA RefInMagic ==
    ASSUME NEW j, NEW r, NEW i, r.err = ZU_OK, r.phase = "magic"
    PROVE  /\ j.wrap = "zstd" /\ ~IsMagicPrefix(SubSeq(j.input, i - r.k, i)) =>
                RefStep(j, r, i) = RefFail(r, ZU_ERR_INVALID_DATA)
           /\ ~(j.wrap = "zstd" /\ ~IsMagicPrefix(SubSeq(j.input, i - r.k, i))) =>
                RefStep(j, r, i) = RefMagic(r)
<1>. DEFINE bad == j.wrap = "zstd" /\ ~IsMagicPrefix(SubSeq(j.input, i - r.k, i))
<1>1. RefStep(j, r, i) = IF bad THEN RefFail(r, ZU_ERR_INVALID_DATA) ELSE RefMagic(r)
  BY DEF RefStep, RefMagic
<1>. HIDE DEF bad
<1>2. /\ bad => RefStep(j, r, i) = RefFail(r, ZU_ERR_INVALID_DATA)
      /\ ~bad => RefStep(j, r, i) = RefMagic(r)
  BY <1>1, Zenon
<1>. QED  BY <1>2 DEF bad

\* What token t after magic m makes of r, as the i-th of the stream.
RefHeadIs(j, r, i, t, m) ==
    /\ m = Skip /\ t[1] = "size" => RefStep(j, r, i) = RefFrame(r, i)
    /\ ~(m = Skip /\ t[1] = "size") /\ m = Own /\ t \in {<<"head", 0>>, <<"head", 1>>} =>
         RefStep(j, r, i) = RefBlock(r, t)
    /\ ~(m = Skip /\ t[1] = "size") /\ m = Own /\ t = <<"head", 2>> =>
         RefStep(j, r, i) = RefFail(r, HeaderRefused(j))
    /\ /\ ~(m = Skip /\ t[1] = "size")
       /\ ~(m = Own /\ t \in {<<"head", 0>>, <<"head", 1>>, <<"head", 2>>})
       => RefStep(j, r, i) = RefFail(r, ZU_ERR_INVALID_DATA)

\* In the rest of a header.
LEMMA RefInHead ==
    ASSUME NEW j, NEW r, NEW i, r.err = ZU_OK, r.phase = "head",
           NEW t, t = j.input[i], NEW m, m = SubSeq(j.input, i - 4, i - 1)
    PROVE  RefHeadIs(j, r, i, t, m)
<1>. DEFINE sized == m = Skip /\ t[1] = "size"
            opens == m = Own /\ t \in {<<"head", 0>>, <<"head", 1>>}
            refused == m = Own /\ t = <<"head", 2>>
            frame == RefFrame(r, i)
            block == RefBlock(r, t)
            refuse == RefFail(r, HeaderRefused(j))
            bad == RefFail(r, ZU_ERR_INVALID_DATA)
<1>0. RefStep(j, r, i) =
        CASE sized -> frame [] opens -> block [] refused -> refuse [] OTHER -> bad
  BY Zenon DEF RefStep, RefBlock
<1>1. <<"head", 2>> # <<"head", 0>> /\ <<"head", 2>> # <<"head", 1>>
  OBVIOUS
<1>2. /\ ~(opens /\ refused)
      /\ m = Own /\ t \in {<<"head", 0>>, <<"head", 1>>, <<"head", 2>>} <=> opens \/ refused
  <2>. HIDE DEF frame, block, refuse, bad
  <2>. QED  BY <1>1
<1>. SUFFICES /\ sized => RefStep(j, r, i) = frame
              /\ ~sized /\ opens => RefStep(j, r, i) = block
              /\ ~sized /\ refused => RefStep(j, r, i) = refuse
              /\ ~sized /\ ~opens /\ ~refused => RefStep(j, r, i) = bad
  BY <1>2 DEF RefHeadIs
<1>. HIDE DEF frame, block, refuse, bad
<1>3. ~(sized /\ opens) /\ ~(sized /\ refused)
  <2>1. Own[1] # Skip[1]
    BY DEF Own, Skip
  <2>. QED  BY <2>1
<1>. HIDE DEF sized, opens, refused
<1>. QED  BY <1>0, <1>2, <1>3, Zenon

\* In a block.
LEMMA RefInBlock ==
    ASSUME NEW j, NEW r, NEW i, r.err = ZU_OK, r.phase = "block"
    PROVE  /\ j.input[i][1] \in {"lit", "raw"} => RefStep(j, r, i) = RefTaken(j, r, i)
           /\ j.input[i][1] = "end" /\ r.check =>
                RefStep(j, r, i) = RefSum(RefTaken(j, r, i))
           /\ j.input[i][1] = "end" /\ ~r.check =>
                RefStep(j, r, i) = RefFrame(RefTaken(j, r, i), i)
           /\ j.input[i][1] \notin {"lit", "raw", "end"} =>
                RefStep(j, r, i) = RefFail(r, ZU_ERR_INVALID_DATA)
BY DEF RefStep, RefTaken, RefSum

\* At the checksum.
LEMMA RefAtSum ==
    ASSUME NEW j, NEW r, NEW i, r.err = ZU_OK, r.phase = "sum"
    PROVE  RefStep(j, r, i) =
             IF j.input[i] = <<"sum", r.n>> THEN RefFrame(r, i) ELSE RefFail(r, ZU_ERR_CHECKSUM)
BY DEF RefStep

\* After a frame.
LEMMA RefAfterFrame ==
    ASSUME NEW j, NEW r, NEW i, r.err = ZU_OK, r.phase = "between"
    PROVE  RefStep(j, r, i) =
             IF j.opts.concat /\ FrameAt(j, i) THEN RefOpen(r) ELSE RefTail(r)
BY DEF RefStep, RefOpen, RefTail

\* No output is taken back.
Grown(r, q) == q \in RefRecord /\ \E u \in Seq(Nat) : q.out = r.out \o u

\* A reading with the same output has grown by nothing.
LEMMA GrownBy ==
    ASSUME NEW r, r \in RefRecord, NEW q, q \in RefRecord, q.out = r.out
    PROVE  Grown(r, q)
<1>1. <<>> \in Seq(Nat) /\ r.out \o <<>> = r.out
  BY DEF RefRecord
<1>. QED  BY <1>1 DEF Grown

\* What each change leaves.
LEMMA RefMagicIs ==
    ASSUME NEW r, r \in RefRecord, r.phase = "magic"
    PROVE  /\ RefMagic(r) \in RefRecord
           /\ RefMagic(r).k = r.k + 1 /\ RefMagic(r).n = r.n
           /\ RefMagic(r).phase = IF r.k = 3 THEN "head" ELSE "magic"
           /\ RefMagic(r).out = r.out /\ RefMagic(r).err = r.err /\ RefMagic(r).end = r.end
<1>. DEFINE ph == IF r.k = 3 THEN "head" ELSE r.phase  m == r.k + 1
<1>1. ph \in RefPhases /\ m \in Nat
  BY DEF RefRecord, RefPhases
<1>2. RefMagic(r) = [r EXCEPT !.k = m, !.phase = ph]
  BY DEF RefMagic
<1>3. ph = IF r.k = 3 THEN "head" ELSE "magic"
  OBVIOUS
<1>. HIDE DEF ph, m
<1>4. [r EXCEPT !.k = m, !.phase = ph] \in RefRecord
  BY <1>1 DEF RefRecord
<1>5. /\ [r EXCEPT !.k = m, !.phase = ph].k = m /\ [r EXCEPT !.k = m, !.phase = ph].n = r.n
      /\ [r EXCEPT !.k = m, !.phase = ph].phase = ph
      /\ [r EXCEPT !.k = m, !.phase = ph].out = r.out
      /\ [r EXCEPT !.k = m, !.phase = ph].err = r.err
      /\ [r EXCEPT !.k = m, !.phase = ph].end = r.end
  BY DEF RefRecord
<1>. QED  BY <1>2, <1>3, <1>4, <1>5 DEF m

\* The start of the blocks.
LEMMA RefBlockIs ==
    ASSUME NEW r, r \in RefRecord, NEW t
    PROVE  /\ RefBlock(r, t) \in RefRecord /\ RefBlock(r, t).phase = "block"
           /\ RefBlock(r, t).check = (t[2] = 1)
           /\ RefBlock(r, t).n = r.n /\ RefBlock(r, t).out = r.out
           /\ RefBlock(r, t).err = r.err /\ RefBlock(r, t).end = r.end
<1>. DEFINE c == t[2] = 1
<1>1. c \in BOOLEAN /\ RefBlock(r, t) = [r EXCEPT !.phase = "block", !.check = c]
  BY DEF RefBlock
<1>. HIDE DEF c
<1>2. [r EXCEPT !.phase = "block", !.check = c] \in RefRecord
  BY <1>1 DEF RefRecord, RefPhases
<1>3. /\ [r EXCEPT !.phase = "block", !.check = c].phase = "block"
      /\ [r EXCEPT !.phase = "block", !.check = c].check = c
      /\ [r EXCEPT !.phase = "block", !.check = c].n = r.n
      /\ [r EXCEPT !.phase = "block", !.check = c].out = r.out
      /\ [r EXCEPT !.phase = "block", !.check = c].err = r.err
      /\ [r EXCEPT !.phase = "block", !.check = c].end = r.end
  BY DEF RefRecord
<1>. QED  BY <1>1, <1>2, <1>3 DEF c

\* A block.
LEMMA RefTakenIs ==
    ASSUME NEW j \in Jobs, NEW i \in 1 .. Len(j.input), NEW r, r \in RefRecord
    PROVE  /\ RefTaken(j, r, i) \in RefRecord
           /\ RefTaken(j, r, i).out = r.out \o BytesAt(j.input, i)
           /\ RefTaken(j, r, i).n = r.n + j.input[i][2]
           /\ RefTaken(j, r, i).phase = r.phase /\ RefTaken(j, r, i).err = r.err
           /\ RefTaken(j, r, i).check = r.check
<1>. DEFINE o == r.out \o BytesAt(j.input, i)
            n == r.n + j.input[i][2]
<1>1. j.input[i][2] \in Nat /\ BytesAt(j.input, i) \in Seq(Nat)
  BY TokenBytesAt
<1>2. r.out \in Seq(Nat) /\ r.n \in Nat
  BY DEF RefRecord
<1>3. o \in Seq(Nat)
  BY <1>1, <1>2
<1>4. n \in Nat
  BY <1>1, <1>2
<1>5. RefTaken(j, r, i) = [r EXCEPT !.out = o, !.n = n]
  BY DEF RefTaken
<1>. HIDE DEF o, n
<1>6. [r EXCEPT !.out = o, !.n = n] \in RefRecord
  BY <1>3, <1>4 DEF RefRecord
<1>7. /\ [r EXCEPT !.out = o, !.n = n].out = o /\ [r EXCEPT !.out = o, !.n = n].n = n
      /\ [r EXCEPT !.out = o, !.n = n].phase = r.phase
      /\ [r EXCEPT !.out = o, !.n = n].err = r.err
      /\ [r EXCEPT !.out = o, !.n = n].check = r.check
  BY DEF RefRecord
<1>. QED  BY <1>5, <1>6, <1>7 DEF o, n

\* The end of the blocks.
LEMMA RefSumIs ==
    ASSUME NEW r, r \in RefRecord
    PROVE  /\ RefSum(r) \in RefRecord /\ RefSum(r).phase = "sum"
           /\ RefSum(r).out = r.out /\ RefSum(r).err = r.err /\ RefSum(r).n = r.n
BY DEF RefRecord, RefSum, RefPhases

\* The end of a frame.
LEMMA RefFrameIs ==
    ASSUME NEW r, r \in RefRecord, NEW i \in Nat
    PROVE  /\ RefFrame(r, i) \in RefRecord /\ RefFrame(r, i).phase = "between"
           /\ RefFrame(r, i).out = r.out /\ RefFrame(r, i).err = r.err
           /\ RefFrame(r, i).end = i
BY DEF RefRecord, RefFrame, RefPhases

\* An error.
LEMMA RefFailIs ==
    ASSUME NEW r, r \in RefRecord, NEW e \in Status
    PROVE  /\ RefFail(r, e) \in RefRecord /\ RefFail(r, e).err = e
           /\ RefFail(r, e).out = r.out
BY DEF RefRecord, RefFail

\* Another frame.
LEMMA RefOpenIs ==
    ASSUME NEW r, r \in RefRecord
    PROVE  /\ RefOpen(r) \in RefRecord /\ RefOpen(r).phase = "magic"
           /\ RefOpen(r).out = r.out /\ RefOpen(r).err = r.err /\ RefOpen(r).end = r.end
           /\ RefOpen(r).k = 1 /\ RefOpen(r).n = 0
BY DEF RefRecord, RefOpen, RefPhases

\* A tail.
LEMMA RefTailIs ==
    ASSUME NEW r, r \in RefRecord
    PROVE  /\ RefTail(r) \in RefRecord /\ RefTail(r).phase = "tail"
           /\ RefTail(r).out = r.out /\ RefTail(r).err = r.err /\ RefTail(r).end = r.end
BY DEF RefRecord, RefTail, RefPhases

\* A token only ever adds to the output.
LEMMA RefStepGrows ==
    ASSUME NEW j \in Jobs, NEW i \in 1 .. Len(j.input), NEW r, r \in RefRecord
    PROVE  Grown(r, RefStep(j, r, i))
<1>0. i \in Nat
  BY JobTypes
<1>a. /\ ZU_ERR_INVALID_DATA \in Status /\ ZU_ERR_CHECKSUM \in Status
      /\ HeaderRefused(j) \in Status
  BY DEF Status, Progress, Errors, HeaderRefused
<1>b. \A e \in Status : Grown(r, RefFail(r, e))
  BY RefFailIs, GrownBy
<1>1. CASE r.err # ZU_OK \/ r.phase = "tail"
  BY <1>1, RefStopped, GrownBy
<1>2. CASE r.err = ZU_OK /\ r.phase = "magic"
  <2>1. RefStep(j, r, i) \in {RefFail(r, ZU_ERR_INVALID_DATA), RefMagic(r)}
    BY <1>2, RefInMagic
  <2>2. Grown(r, RefMagic(r))
    BY <1>2, RefMagicIs, GrownBy
  <2>. QED  BY <1>a, <1>b, <2>1, <2>2
<1>3. CASE r.err = ZU_OK /\ r.phase = "head"
  <2>. DEFINE t == j.input[i]
  <2>1. RefStep(j, r, i) \in {RefFrame(r, i), RefBlock(r, t), RefFail(r, HeaderRefused(j)),
                              RefFail(r, ZU_ERR_INVALID_DATA)}
    <3>. DEFINE m == SubSeq(j.input, i - 4, i - 1)
    <3>1. RefHeadIs(j, r, i, t, m)
      BY <1>3, RefInHead
    <3>. HIDE DEF m, t
    <3>. QED  BY <3>1 DEF RefHeadIs
  <2>2. Grown(r, RefFrame(r, i)) /\ Grown(r, RefBlock(r, t))
    BY <1>0, RefFrameIs, RefBlockIs, GrownBy
  <2>. HIDE DEF t
  <2>. QED  BY <1>a, <1>b, <2>1, <2>2
<1>4. CASE r.err = ZU_OK /\ r.phase = "block"
  <2>. DEFINE t == RefTaken(j, r, i)
              d == RefFrame(t, i)
              m == RefSum(t)
              e == RefFail(r, ZU_ERR_INVALID_DATA)
  <2>1. Grown(r, t)
    BY RefTakenIs, TokenBytesAt DEF Grown
  <2>2. t \in RefRecord /\ t.out = r.out \o BytesAt(j.input, i)
    BY RefTakenIs
  <2>3. RefStep(j, r, i) \in {t, d, m, e}
    BY <1>4, RefInBlock
  <2>. HIDE DEF t
  <2>4. /\ d \in RefRecord /\ d.out = t.out /\ m \in RefRecord /\ m.out = t.out
    BY <1>0, <2>2, RefSumIs, RefFrameIs
  <2>5. Grown(r, e)
    BY <1>a, <1>b
  <2>. HIDE DEF d, m, e
  <2>6. Grown(r, d) /\ Grown(r, m)
    BY <2>2, <2>4, TokenBytesAt DEF Grown
  <2>. QED  BY <2>1, <2>3, <2>5, <2>6
<1>5. CASE r.err = ZU_OK /\ r.phase = "sum"
  <2>1. RefStep(j, r, i) \in {RefFrame(r, i), RefFail(r, ZU_ERR_CHECKSUM)}
    BY <1>5, RefAtSum
  <2>2. Grown(r, RefFrame(r, i))
    BY <1>0, RefFrameIs, GrownBy
  <2>. QED  BY <1>a, <1>b, <2>1, <2>2
<1>6. CASE r.err = ZU_OK /\ r.phase = "between"
  <2>1. RefStep(j, r, i) \in {RefOpen(r), RefTail(r)}
    BY <1>6, RefAfterFrame
  <2>2. Grown(r, RefOpen(r)) /\ Grown(r, RefTail(r))
    BY RefOpenIs, RefTailIs, GrownBy
  <2>. QED  BY <2>1, <2>2
<1>7. r.phase \in RefPhases
  BY DEF RefRecord
<1>. QED  BY <1>1, <1>2, <1>3, <1>4, <1>5, <1>6, <1>7 DEF RefPhases

\* Before the first token.
LEMMA RefInitOk ==
    /\ RefInit \in RefRecord /\ RefInit.phase = "magic" /\ RefInit.k = 0 /\ RefInit.n = 0
    /\ RefInit.out = <<>> /\ RefInit.end = 0 /\ RefInit.err = ZU_OK
<1>1. <<>> \in Seq(Nat) /\ ZU_OK \in Status
  BY DEF Status, Progress
<1>. QED  BY <1>1 DEF RefInit, RefRecord, RefPhases

\* The readings exist: each is what the next token makes of the one before.
LEMMA ReadingsAre ==
    ASSUME NEW j \in Jobs
    PROVE  /\ Readings(j)[0] = RefInit
           /\ \A i \in 1 .. Len(j.input) : Readings(j)[i] = RefStep(j, Readings(j)[i - 1], i)
           /\ \A i \in 0 .. Len(j.input) : Readings(j)[i] \in RefRecord
<1>. DEFINE N     == Len(j.input)
            first == RefInit
            step  == [k \in 1 .. N |-> [r \in RefRecord |-> RefStep(j, r, k)]]
            Body1(h, k) == IF k = 0 THEN first ELSE RefStep(j, h[k - 1], k)
            upto  == CHOOSE h : h = [k \in 0 .. N |-> Body1(h, k)]
<1>0. N \in Nat
  BY JobTypes
<1>1. first \in RefRecord
  BY RefInitOk
<1>2. \A k \in 1 .. N : \A r \in RefRecord :
        step[k][r] = RefStep(j, r, k) /\ RefStep(j, r, k) \in RefRecord
  <2>1. \A k \in 1 .. N : \A r \in RefRecord : RefStep(j, r, k) \in RefRecord
    BY RefStepGrows DEF Grown
  <2>. QED  BY <2>1
<1>3. Readings(j) = upto
  BY DEF Readings
<1>. HIDE DEF first, step, N
<1>4. StaysIn(RefRecord, N, step)
  BY <1>2 DEF StaysIn
<1>5. PICK g : Iterates(g, N, first, step) /\ \A k \in 0 .. N : g[k] \in RefRecord
  BY <1>0, <1>1, <1>4, IteratesExist
<1>6. g = [k \in 0 .. N |-> Body1(g, k)]
  <2>1. \A k \in 0 .. N : Body1(g, k) = IF k = 0 THEN first ELSE step[k][g[k - 1]]
    <3>. SUFFICES ASSUME NEW k \in 0 .. N, k # 0
                  PROVE  RefStep(j, g[k - 1], k) = step[k][g[k - 1]]
      OBVIOUS
    <3>1. k - 1 \in 0 .. N /\ k \in 1 .. N
      BY <1>0
    <3>. QED  BY <1>2, <1>5, <3>1
  <2>. HIDE DEF Body1
  <2>. QED  BY <1>5, <2>1 DEF Iterates
<1>7. upto = [k \in 0 .. N |-> Body1(upto, k)]
  <2>. HIDE DEF Body1
  <2>. QED  BY <1>6
<1>. HIDE DEF upto
<1>8. \A k \in 0 .. N : upto[k] = Body1(upto, k)
  <2>. HIDE DEF Body1
  <2>. QED  BY <1>7
<1>9. upto[0] = first /\ \A k \in 1 .. N : upto[k] = RefStep(j, upto[k - 1], k)
  <2>1. 0 \in 0 .. N /\ \A k \in 1 .. N : k \in 0 .. N /\ k # 0
    BY <1>0
  <2>. QED  BY <1>8, <2>1
<1>. DEFINE P == {k \in 0 .. N : upto[k] \in RefRecord}
<1>10. 0 \in P
  BY <1>0, <1>1, <1>9
<1>11. \A k \in 0 .. N : k \in P /\ k < N => k + 1 \in P
  <2>. SUFFICES ASSUME NEW k \in 0 .. N, k \in P, k < N PROVE k + 1 \in P
    OBVIOUS
  <2>1. k + 1 \in 1 .. N /\ k + 1 \in 0 .. N /\ (k + 1) - 1 = k
    BY <1>0
  <2>2. upto[k + 1] = RefStep(j, upto[k], k + 1)
    BY <1>9, <2>1
  <2>3. upto[k] \in RefRecord
    OBVIOUS
  <2>. QED  BY <1>2, <2>1, <2>2, <2>3
<1>12. \A k \in 0 .. N : k \in P
  <2>. HIDE DEF P
  <2>. QED  BY ONLY <1>0, <1>10, <1>11, UpTo
<1>. QED  BY <1>3, <1>9, <1>12 DEF first, N

\* A reading and the next.
LEMMA ReadNext ==
    ASSUME NEW j \in Jobs, NEW p \in Nat, p < Len(j.input)
    PROVE  /\ Readings(j)[p] \in RefRecord /\ Readings(j)[p + 1] \in RefRecord
           /\ Readings(j)[p + 1] = RefStep(j, Readings(j)[p], p + 1)
           /\ p + 1 \in 1 .. Len(j.input)
           /\ Grown(Readings(j)[p], Readings(j)[p + 1])
<1>1. Len(j.input) \in Nat
  BY JobTypes
<1>2. p + 1 \in 1 .. Len(j.input) /\ p + 1 \in 0 .. Len(j.input) /\ p \in 0 .. Len(j.input)
      /\ (p + 1) - 1 = p
  BY <1>1
<1>3. /\ Readings(j)[p] \in RefRecord /\ Readings(j)[p + 1] \in RefRecord
      /\ Readings(j)[p + 1] = RefStep(j, Readings(j)[p], p + 1)
  BY <1>2, ReadingsAre
<1>. QED  BY <1>2, <1>3, RefStepGrows

\* What is read is never taken back.
LEMMA ReadingsGrow ==
    ASSUME NEW j \in Jobs, NEW p \in 0 .. Len(j.input), NEW q \in p .. Len(j.input)
    PROVE  Grown(Readings(j)[p], Readings(j)[q])
<1>. DEFINE N == Len(j.input)
            P == {i \in p .. N : Grown(Readings(j)[p], Readings(j)[i])}
<1>0. N \in Nat /\ p \in Nat /\ p \in p .. N
  BY JobTypes
<1>1. p \in P
  BY <1>0, ReadingsAre, GrownBy
<1>2. ASSUME NEW i \in p .. N, i \in P, i < N
      PROVE  i + 1 \in P
  <2>1. i \in Nat /\ i + 1 \in p .. N
    BY <1>0, <1>2
  <2>2. Grown(Readings(j)[p], Readings(j)[i]) /\ Grown(Readings(j)[i], Readings(j)[i + 1])
    BY <1>2, <2>1, ReadNext
  <2>. DEFINE x == Readings(j)[p].out
              y == Readings(j)[i].out
              z == Readings(j)[i + 1].out
  <2>3. PICK u \in Seq(Nat) : y = x \o u
    BY <2>2 DEF Grown
  <2>4. PICK v \in Seq(Nat) : z = y \o v
    BY <2>2 DEF Grown
  <2>5. x \in Seq(Nat)
    BY <1>0, ReadingsAre DEF RefRecord
  <2>. HIDE DEF x, y, z
  <2>6. z = x \o (u \o v) /\ u \o v \in Seq(Nat)
    BY <2>3, <2>4, <2>5, JoinedAgain, Joined
  <2>7. Grown(Readings(j)[p], Readings(j)[i + 1])
    BY <2>2, <2>6 DEF Grown, x, z
  <2>. QED  BY <2>1, <2>7
<1>3. \A i \in p .. N : i \in P
  <2>. HIDE DEF P
  <2>1. \A i \in p .. N : i \in P /\ i < N => i + 1 \in P
    BY <1>2
  <2>2. p \in 0 .. N
    OBVIOUS
  <2>. HIDE DEF N
  <2>. QED  BY ONLY <1>0, <1>1, <2>1, <2>2, FromOn
<1>. QED  BY <1>3

\* After an error or a tail nothing changes.
LEMMA ReadingsStop ==
    ASSUME NEW j \in Jobs, NEW p \in 0 .. Len(j.input), NEW q \in p .. Len(j.input),
           Readings(j)[p].err # ZU_OK \/ Readings(j)[p].phase = "tail"
    PROVE  Readings(j)[q] = Readings(j)[p]
<1>. DEFINE N == Len(j.input)
            P == {i \in p .. N : Readings(j)[i] = Readings(j)[p]}
<1>0. N \in Nat /\ p \in Nat /\ p \in p .. N
  BY JobTypes
<1>1. p \in P
  BY <1>0
<1>2. ASSUME NEW i \in p .. N, i \in P, i < N
      PROVE  i + 1 \in P
  <2>1. i \in Nat /\ i + 1 \in p .. N
    BY <1>0, <1>2
  <2>2. Readings(j)[i + 1] = RefStep(j, Readings(j)[p], i + 1)
    BY <1>2, <2>1, ReadNext
  <2>. QED  BY <2>1, <2>2, RefStopped
<1>3. \A i \in p .. N : i \in P
  <2>. HIDE DEF P
  <2>1. \A i \in p .. N : i \in P /\ i < N => i + 1 \in P
    BY <1>2
  <2>2. p \in 0 .. N
    OBVIOUS
  <2>. HIDE DEF N
  <2>. QED  BY ONLY <1>0, <1>1, <2>1, <2>2, FromOn
<1>. QED  BY <1>3

\* What is handed over begins what the reading has.
Held(q, o) == \E u \in Seq(Nat) : q.out = o \o u

\* What begins a sequence is a prefix of it.
LEMMA HeldIsPrefix ==
    ASSUME NEW r, r \in RefRecord, NEW o, o \in Seq(Nat), Held(r, o)
    PROVE  IsPrefix(o, r.out) /\ Len(o) <= Len(r.out) /\ Len(o) \in Nat /\ Len(r.out) \in Nat
<1>1. PICK u \in Seq(Nat) : r.out = o \o u
  BY DEF Held
<1>2. /\ IsPrefix(o, r.out) /\ r.out \in Seq(Nat)
      /\ Len(r.out) = Len(o) + Len(u) /\ Len(o) \in Nat /\ Len(u) \in Nat
  BY <1>1, JoinedIsPrefix
<1>. DEFINE x == Len(r.out)  y == Len(o)  z == Len(u)
<1>. HIDE DEF x, y, z
<1>3. x = y + z /\ y \in Nat /\ z \in Nat
  BY <1>2 DEF x, y, z
<1>4. y <= x /\ x \in Nat
  BY ONLY <1>3
<1>. QED  BY <1>2, <1>4 DEF x, y

\* And of what that begins.
LEMMA HeldOn ==
    ASSUME NEW r, r \in RefRecord, NEW q, Grown(r, q), NEW o, o \in Seq(Nat), Held(r, o)
    PROVE  Held(q, o)
<1>1. PICK u \in Seq(Nat) : r.out = o \o u
  BY DEF Held
<1>2. PICK v \in Seq(Nat) : q.out = r.out \o v
  BY DEF Grown
<1>3. q.out = o \o (u \o v)
  BY <1>1, <1>2, JoinedAgain
<1>4. u \o v \in Seq(Nat)
  BY Joined
<1>. QED  BY <1>3, <1>4 DEF Held

\* All of it begins it, and nothing does.
LEMMA HeldAll ==
    ASSUME NEW r, r \in RefRecord, NEW o, o \in Seq(Nat), o = r.out \/ o = <<>>
    PROVE  Held(r, o)
<1>1. r.out \in Seq(Nat)
  BY DEF RefRecord
<1>2. r.out \o <<>> = r.out /\ <<>> \in Seq(Nat)
  BY <1>1, NothingJoined
<1>3. <<>> \o r.out = r.out
  BY <1>1, ConcatEmptySeq
<1>. QED  BY <1>1, <1>2, <1>3 DEF Held

\* The reference is the last reading, and holds all the others.
LEMMA ReferenceGrows ==
    ASSUME NEW j \in Jobs, NEW p \in 0 .. Len(j.input)
    PROVE  /\ Readings(j)[p] \in RefRecord /\ ReferenceOf(j) \in RefRecord
           /\ Grown(Readings(j)[p], ReferenceOf(j))
           /\ p = Len(j.input) => ReferenceOf(j) = Readings(j)[p]
           /\ (Readings(j)[p].err # ZU_OK \/ Readings(j)[p].phase = "tail") =>
                ReferenceOf(j) = Readings(j)[p]
<1>1. Len(j.input) \in Nat
  BY JobTypes
<1>2. Len(j.input) \in p .. Len(j.input)
  BY <1>1
<1>3. Readings(j)[p] \in RefRecord
  BY ReadingsAre
<1>4. Grown(Readings(j)[p], Readings(j)[Len(j.input)])
  BY <1>2, ReadingsGrow
<1>5. (Readings(j)[p].err # ZU_OK \/ Readings(j)[p].phase = "tail") =>
        Readings(j)[Len(j.input)] = Readings(j)[p]
  BY <1>2, ReadingsStop
<1>. QED  BY <1>3, <1>4, <1>5 DEF ReferenceOf, Grown

\* The verdict is the error met, or depends on where the stream ends.
LEMMA VerdictIs ==
    ASSUME NEW j, NEW r
    PROVE  /\ r.err # ZU_OK => VerdictOn(j, r) = r.err
           /\ r.err = ZU_OK /\ r.phase = "between" => VerdictOn(j, r) = ZU_STREAM_END
           /\ r.err = ZU_OK /\ r.phase = "tail" /\ j.opts.reject =>
                VerdictOn(j, r) = ZU_ERR_TRAILING
           /\ r.err = ZU_OK /\ r.phase = "tail" /\ ~j.opts.reject =>
                VerdictOn(j, r) = ZU_STREAM_END
           /\ r.err = ZU_OK /\ r.phase \notin {"between", "tail"} =>
                VerdictOn(j, r) = ZU_ERR_TRUNCATED
<1>1. ~(r.phase = "between" /\ r.phase = "tail")
  BY SMT
<1>. QED  BY <1>1, Zenon DEF VerdictOn

----------------------------------------------------------------------------
(***************************************************************************)
(* Magics in the stream.                                                   *)
(***************************************************************************)
\* The tokens after p up to q.
LEMMA WindowIs ==
    ASSUME NEW j \in Jobs, NEW p \in Nat, NEW q \in Nat, p <= q, q <= Len(j.input)
    PROVE  /\ SubSeq(j.input, p + 1, q) \in Seq(STRING \X Nat)
           /\ Len(SubSeq(j.input, p + 1, q)) = q - p
           /\ \A i \in 1 .. q - p : SubSeq(j.input, p + 1, q)[i] = j.input[p + i]
<1>. DEFINE s == j.input  w == SubSeq(s, p + 1, q)
<1>1. s \in Seq(STRING \X Nat) /\ Len(s) \in Nat
  BY JobTypes
<1>2. q <= Len(s)
  OBVIOUS
<1>. HIDE DEF s
<1>3. \A i \in p + 1 .. q : s[i] \in STRING \X Nat
  BY <1>1, <1>2
<1>4. w \in Seq(STRING \X Nat)
  BY <1>2, <1>3, SubSeqProperties
<1>5. Len(w) = q - p
  <2>1. Len(w) = IF p + 1 <= q THEN q - (p + 1) + 1 ELSE 0
    BY <1>2, <1>3, SubSeqProperties
  <2>. QED  BY <2>1
<1>6. \A i \in 1 .. q - p : w[i] = s[p + i]
  <2>1. \A i \in 1 .. q - (p + 1) + 1 : w[i] = s[(p + 1) + i - 1]
    BY <1>2, <1>3, SubSeqProperties
  <2>2. q - (p + 1) + 1 = q - p
    OBVIOUS
  <2>3. \A i \in 1 .. q - p : (p + 1) + i - 1 = p + i
    OBVIOUS
  <2>. QED  BY <2>1, <2>2, <2>3
<1>. QED  BY <1>4, <1>5, <1>6 DEF s

\* A sequence with a window's length and tokens is that window.
LEMMA WindowOf ==
    ASSUME NEW j \in Jobs, NEW p \in Nat, NEW q \in Nat, p <= q, q <= Len(j.input),
           NEW w, w \in Seq(STRING \X Nat), Len(w) = q - p,
           \A i \in 1 .. q - p : w[i] = j.input[p + i]
    PROVE  w = SubSeq(j.input, p + 1, q)
<1>. DEFINE v == SubSeq(j.input, p + 1, q)
<1>1. /\ v \in Seq(STRING \X Nat) /\ Len(v) = q - p
      /\ \A i \in 1 .. q - p : v[i] = j.input[p + i]
  BY WindowIs
<1>. HIDE DEF v
<1>2. \A i \in 1 .. Len(w) : w[i] = v[i]
  BY <1>1
<1>3. w = v
  BY ONLY w \in Seq(STRING \X Nat), Len(w) = q - p, <1>1, <1>2, SeqEqual
<1>. QED  BY <1>3 DEF v

\* Two windows that meet.
LEMMA WindowsMeet ==
    ASSUME NEW j \in Jobs, NEW p \in Nat, NEW q \in Nat, p <= q, NEW r \in Nat, q <= r,
           r <= Len(j.input)
    PROVE  SubSeq(j.input, p + 1, q) \o SubSeq(j.input, q + 1, r) = SubSeq(j.input, p + 1, r)
<1>. DEFINE a == SubSeq(j.input, p + 1, q)
            b2 == SubSeq(j.input, q + 1, r)
            w == a \o b2
<1>0. Len(j.input) \in Nat /\ q <= Len(j.input) /\ p <= r
  BY JobTypes
<1>1. /\ a \in Seq(STRING \X Nat) /\ Len(a) = q - p
      /\ \A i \in 1 .. q - p : a[i] = j.input[p + i]
  BY <1>0, WindowIs
<1>2. /\ b2 \in Seq(STRING \X Nat) /\ Len(b2) = r - q
      /\ \A i \in 1 .. r - q : b2[i] = j.input[q + i]
  BY WindowIs
<1>. HIDE DEF a, b2
<1>3. /\ w \in Seq(STRING \X Nat) /\ Len(w) = Len(a) + Len(b2)
      /\ \A i \in 1 .. Len(a) + Len(b2) :
           w[i] = IF i <= Len(a) THEN a[i] ELSE b2[i - Len(a)]
  BY <1>1, <1>2, ConcatProperties
<1>4. Len(w) = r - p
  BY <1>1, <1>2, <1>3
<1>5. \A i \in 1 .. r - p : w[i] = j.input[p + i]
  <2>. SUFFICES ASSUME NEW i \in 1 .. r - p PROVE w[i] = j.input[p + i]
    OBVIOUS
  <2>. HIDE DEF w
  <2>1. CASE i <= q - p
    <3>1. i \in 1 .. q - p /\ i \in 1 .. Len(a) + Len(b2) /\ i <= Len(a)
      BY <1>1, <1>2, <2>1
    <3>2. w[i] = a[i] /\ a[i] = j.input[p + i]
      BY <1>1, <1>3, <3>1
    <3>. QED  BY <3>2
  <2>2. CASE ~(i <= q - p)
    <3>1. i \in 1 .. Len(a) + Len(b2) /\ ~(i <= Len(a)) /\ i - Len(a) = i - (q - p)
          /\ i - (q - p) \in 1 .. r - q /\ q + (i - (q - p)) = p + i
      BY <1>1, <1>2, <2>2
    <3>2. w[i] = b2[i - (q - p)] /\ b2[i - (q - p)] = j.input[q + (i - (q - p))]
      BY <1>2, <1>3, <3>1
    <3>. QED  BY <3>1, <3>2
  <2>. QED  BY <2>1, <2>2
<1>. HIDE DEF w
<1>6. w = SubSeq(j.input, p + 1, r)
  BY <1>0, <1>3, <1>4, <1>5, WindowOf
<1>. QED  BY <1>6 DEF w, a, b2

\* A window and the next token.
LEMMA WindowNext ==
    ASSUME NEW j \in Jobs, NEW p \in Nat, NEW q \in Nat, p <= q, q < Len(j.input)
    PROVE  Append(SubSeq(j.input, p + 1, q), j.input[q + 1]) = SubSeq(j.input, p + 1, q + 1)
<1>. DEFINE a == SubSeq(j.input, p + 1, q)
            w == Append(a, j.input[q + 1])
<1>0. /\ Len(j.input) \in Nat /\ q <= Len(j.input) /\ q + 1 \in Nat /\ p <= q + 1
      /\ q + 1 <= Len(j.input) /\ j.input[q + 1] \in STRING \X Nat
  BY JobTypes
<1>1. /\ a \in Seq(STRING \X Nat) /\ Len(a) = q - p
      /\ \A i \in 1 .. q - p : a[i] = j.input[p + i]
  BY <1>0, WindowIs
<1>. HIDE DEF a
<1>2. /\ w \in Seq(STRING \X Nat) /\ Len(w) = Len(a) + 1
      /\ \A i \in 1 .. Len(a) : w[i] = a[i]
      /\ w[Len(a) + 1] = j.input[q + 1]
  BY <1>0, <1>1, AppendProperties
<1>3. Len(w) = (q + 1) - p
  BY <1>1, <1>2
<1>4. \A i \in 1 .. (q + 1) - p : w[i] = j.input[p + i]
  <2>. SUFFICES ASSUME NEW i \in 1 .. (q + 1) - p PROVE w[i] = j.input[p + i]
    OBVIOUS
  <2>. HIDE DEF w
  <2>1. CASE i = (q + 1) - p
    <3>1. i = Len(a) + 1 /\ p + i = q + 1
      BY <1>1, <2>1
    <3>. QED  BY <1>2, <3>1
  <2>2. CASE i # (q + 1) - p
    <3>1. i \in 1 .. Len(a) /\ i \in 1 .. q - p
      BY <1>1, <2>2
    <3>. QED  BY <1>1, <1>2, <3>1
  <2>. QED  BY <2>1, <2>2
<1>. HIDE DEF w
<1>5. w = SubSeq(j.input, p + 1, q + 1)
  BY <1>0, <1>2, <1>3, <1>4, WindowOf
<1>. QED  BY <1>5 DEF w, a

\* The two magics.
LEMMA MagicsAre ==
    /\ Len(Own) = 4 /\ SubSeq(Own, 1, 4) = Own
    /\ Len(Skip) = 4 /\ SubSeq(Skip, 1, 4) = Skip
    /\ \E S : Own \in Seq(S) /\ Skip \in Seq(S)
<1>. DEFINE S == {<<"own", i>> : i \in 1 .. 4} \cup {<<"skip", i>> : i \in 1 .. 4}
<1>1. \A i \in 1 .. 4 : <<"own", i>> \in S /\ <<"skip", i>> \in S
  OBVIOUS
<1>2. Own = [i \in 1 .. 4 |-> <<"own", i>>] /\ Skip = [i \in 1 .. 4 |-> <<"skip", i>>] /\ 4 \in Nat
  BY DEF Own, Skip
<1>. HIDE DEF S
<1>3. Own \in Seq(S) /\ Skip \in Seq(S) /\ Len(Own) = 4 /\ Len(Skip) = 4
  BY <1>1, <1>2
<1>4. SubSeq(Own, 1, Len(Own)) = Own /\ SubSeq(Skip, 1, Len(Skip)) = Skip
  BY <1>3, SubSeqFull
<1>. QED  BY <1>3, <1>4

\* A part of a frame's first four tokens begins like a magic.
LEMMA FrameBegins ==
    ASSUME NEW j \in Jobs, NEW m \in Nat, FrameAt(j, m + 1), NEW k \in 0 .. 4
    PROVE  m + 4 <= Len(j.input) /\ IsMagicPrefix(SubSeq(j.input, m + 1, m + k))
<1>. DEFINE s == SubSeq(j.input, m + 1, m + 4)
            w == SubSeq(j.input, m + 1, m + k)
<1>0. Len(j.input) \in Nat /\ (m + 1) + 3 = m + 4 /\ k \in Nat /\ k <= 4 /\ m + k \in Nat /\ m + 4 \in Nat
      /\ m <= m + 4 /\ m <= m + k
  BY JobTypes
<1>1. m + 4 <= Len(j.input) /\ s \in {Own, Skip}
  BY <1>0 DEF FrameAt
<1>1a. \A n \in {k, 4} : n \in Nat /\ m + n \in Nat /\ m <= m + n /\ m + n <= Len(j.input)
                        /\ (m + n) - m = n
  BY <1>0, <1>1
<1>2. \A n \in {k, 4} : /\ SubSeq(j.input, m + 1, m + n) \in Seq(STRING \X Nat)
                        /\ Len(SubSeq(j.input, m + 1, m + n)) = n
                        /\ \A i \in 1 .. n : SubSeq(j.input, m + 1, m + n)[i] = j.input[m + i]
  <2>. SUFFICES ASSUME NEW n \in {k, 4}
                PROVE  /\ SubSeq(j.input, m + 1, m + n) \in Seq(STRING \X Nat)
                       /\ Len(SubSeq(j.input, m + 1, m + n)) = n
                       /\ \A i \in 1 .. n : SubSeq(j.input, m + 1, m + n)[i] = j.input[m + i]
    OBVIOUS
  <2>. DEFINE e == m + n
  <2>1. e \in Nat /\ m <= e /\ e <= Len(j.input) /\ e - m = n
    BY <1>1a
  <2>. HIDE DEF e
  <2>2. /\ SubSeq(j.input, m + 1, e) \in Seq(STRING \X Nat)
        /\ Len(SubSeq(j.input, m + 1, e)) = e - m
        /\ \A i \in 1 .. e - m : SubSeq(j.input, m + 1, e)[i] = j.input[m + i]
    BY <2>1, WindowIs
  <2>. QED  BY <2>1, <2>2 DEF e
<1>3. /\ s \in Seq(STRING \X Nat) /\ Len(s) = 4 /\ \A i \in 1 .. 4 : s[i] = j.input[m + i]
      /\ w \in Seq(STRING \X Nat) /\ Len(w) = k /\ \A i \in 1 .. k : w[i] = j.input[m + i]
  BY <1>2
<1>. HIDE DEF s, w
<1>4. IsPrefix(w, s)
  <2>1. \A i \in 1 .. k : w[i] = s[i]
    <3>. SUFFICES ASSUME NEW i \in 1 .. k PROVE w[i] = s[i]
      OBVIOUS
    <3>1. i \in 1 .. 4
      BY ONLY <1>0, i \in 1 .. k
    <3>. QED  BY <1>3, <3>1, Zenon
  <2>2. SubSeq(w, 1, k) = [i \in 1 .. k |-> w[i]] /\ SubSeq(s, 1, k) = [i \in 1 .. k |-> s[i]]
    BY <1>0, <1>3
  <2>. QED  BY <1>0, <1>3, <2>1, <2>2 DEF IsPrefix
<1>. QED  BY <1>1, <1>4 DEF IsMagicPrefix, w

\* Four tokens that begin like a magic are a frame's.
LEMMA FrameBegun ==
    ASSUME NEW j \in Jobs, NEW m \in Nat, m + 4 <= Len(j.input),
           IsMagicPrefix(SubSeq(j.input, m + 1, m + 4))
    PROVE  FrameAt(j, m + 1)
<1>. DEFINE s == SubSeq(j.input, m + 1, m + 4)
<1>0. (m + 1) + 3 = m + 4 /\ m + 4 \in Nat /\ m <= m + 4 /\ (m + 4) - m = 4
  OBVIOUS
<1>1. s \in Seq(STRING \X Nat) /\ Len(s) = 4
  BY <1>0, WindowIs
<1>2. IsMagicPrefix(s)
  OBVIOUS
<1>. HIDE DEF s
<1>3. \A t \in Seq(STRING \X Nat) : Len(t) = 4 => SubSeq(t, 1, 4) = t
  BY SubSeqFull
<1>4. s = Own \/ s = Skip
  BY <1>1, <1>2, <1>3, MagicsAre DEF IsMagicPrefix, IsPrefix
<1>. QED  BY <1>0, <1>4 DEF FrameAt, s

\* A token of a magic.
LEMMA MagicGoesOn ==
    ASSUME NEW j \in Jobs, NEW q \in Nat, q < Len(j.input), NEW r, r = Readings(j)[q],
           r.err = ZU_OK, r.phase = "magic",
           j.wrap = "zstd" => IsMagicPrefix(SubSeq(j.input, (q + 1) - r.k, q + 1)),
           NEW s, s = Readings(j)[q + 1]
    PROVE  /\ s.err = ZU_OK /\ s.out = r.out /\ s.n = r.n /\ s.k = r.k + 1
           /\ s.phase = IF r.k = 3 THEN "head" ELSE "magic"
<1>1. r \in RefRecord /\ s = RefStep(j, r, q + 1)
  BY ReadNext
<1>2. s = RefMagic(r)
  <2>1. ~(j.wrap = "zstd" /\ ~IsMagicPrefix(SubSeq(j.input, (q + 1) - r.k, q + 1))) =>
          RefStep(j, r, q + 1) = RefMagic(r)
    <3>1. \A i : ~(j.wrap = "zstd" /\ ~IsMagicPrefix(SubSeq(j.input, i - r.k, i))) =>
                  RefStep(j, r, i) = RefMagic(r)
      BY r.err = ZU_OK, r.phase = "magic", RefInMagic
    <3>. QED  BY <3>1, Zenon
  <2>. QED  BY <1>1, <2>1
<1>. QED  BY <1>1, <1>2, RefMagicIs

\* After a frame that another follows.
LEMMA FrameOpens ==
    ASSUME NEW j \in Jobs, NEW q \in Nat, q < Len(j.input), NEW r, r = Readings(j)[q],
           r.err = ZU_OK, r.phase = "between", j.opts.concat, FrameAt(j, q + 1),
           NEW s, s = Readings(j)[q + 1]
    PROVE  s.err = ZU_OK /\ s.out = r.out /\ s.n = 0 /\ s.k = 1 /\ s.phase = "magic"
<1>1. r \in RefRecord /\ s = RefStep(j, r, q + 1)
  BY ReadNext
<1>2. s = RefOpen(r)
  BY <1>1, RefAfterFrame
<1>. QED  BY <1>1, <1>2, RefOpenIs

\* The magic of a frame that follows another is read.
LEMMA FrameMagicRead ==
    ASSUME NEW j \in Jobs, NEW m \in Nat, NEW r, r = Readings(j)[m],
           r.err = ZU_OK, r.phase = "between", j.opts.concat, FrameAt(j, m + 1),
           NEW s, s = Readings(j)[m + 4]
    PROVE  /\ m + 4 <= Len(j.input)
           /\ s.err = ZU_OK /\ s.out = r.out /\ s.n = 0 /\ s.phase = "head"
<1>. DEFINE a(i) == Readings(j)[m + i]
<1>1. m + 4 <= Len(j.input) /\ \A k \in 0 .. 4 : IsMagicPrefix(SubSeq(j.input, m + 1, m + k))
  BY FrameBegins
<1>2. /\ Len(j.input) \in Nat
      /\ m + 1 \in Nat /\ m + 2 \in Nat /\ m + 3 \in Nat /\ (m + 1) + 1 = m + 2
      /\ (m + 2) + 1 = m + 3 /\ (m + 3) + 1 = m + 4
  BY JobTypes
<1>2a. m < Len(j.input) /\ m + 1 < Len(j.input) /\ m + 2 < Len(j.input) /\ m + 3 < Len(j.input)
  BY <1>1, <1>2
<1>2b. (m + 2) - 1 = m + 1 /\ (m + 3) - 2 = m + 1 /\ (m + 4) - 3 = m + 1
  OBVIOUS
<1>3. a(1).err = ZU_OK /\ a(1).out = r.out /\ a(1).n = 0 /\ a(1).k = 1 /\ a(1).phase = "magic"
  BY <1>2a, FrameOpens
<1>4. a(2).err = ZU_OK /\ a(2).out = r.out /\ a(2).n = 0 /\ a(2).k = 2 /\ a(2).phase = "magic"
  <2>1. IsMagicPrefix(SubSeq(j.input, ((m + 1) + 1) - a(1).k, (m + 1) + 1))
    BY <1>1, <1>2, <1>2b, <1>3
  <2>2. /\ a(2).err = ZU_OK /\ a(2).out = a(1).out /\ a(2).n = a(1).n /\ a(2).k = a(1).k + 1
        /\ a(2).phase = IF a(1).k = 3 THEN "head" ELSE "magic"
    BY <1>2, <1>2a, <1>3, <2>1, MagicGoesOn
  <2>. HIDE DEF a
  <2>. QED  BY <1>3, <2>2
<1>5. a(3).err = ZU_OK /\ a(3).out = r.out /\ a(3).n = 0 /\ a(3).k = 3 /\ a(3).phase = "magic"
  <2>1. IsMagicPrefix(SubSeq(j.input, ((m + 2) + 1) - a(2).k, (m + 2) + 1))
    BY <1>1, <1>2, <1>2b, <1>4
  <2>2. /\ a(3).err = ZU_OK /\ a(3).out = a(2).out /\ a(3).n = a(2).n /\ a(3).k = a(2).k + 1
        /\ a(3).phase = IF a(2).k = 3 THEN "head" ELSE "magic"
    BY <1>2, <1>2a, <1>4, <2>1, MagicGoesOn
  <2>. HIDE DEF a
  <2>. QED  BY <1>4, <2>2
<1>6. a(4).err = ZU_OK /\ a(4).out = r.out /\ a(4).n = 0 /\ a(4).phase = "head"
  <2>1. IsMagicPrefix(SubSeq(j.input, ((m + 3) + 1) - a(3).k, (m + 3) + 1))
    BY <1>1, <1>2, <1>2b, <1>5
  <2>2. /\ a(4).err = ZU_OK /\ a(4).out = a(3).out /\ a(4).n = a(3).n
        /\ a(4).phase = IF a(3).k = 3 THEN "head" ELSE "magic"
    BY <1>2, <1>2a, <1>5, <2>1, MagicGoesOn
  <2>. HIDE DEF a
  <2>. QED  BY <1>5, <2>2
<1>. QED  BY <1>1, <1>6

\* After a frame that no other follows, the rest is a tail.
LEMMA TailRead ==
    ASSUME NEW j \in Jobs, NEW m \in Nat, m < Len(j.input), NEW r, r = Readings(j)[m],
           r.err = ZU_OK, r.phase = "between", ~(j.opts.concat /\ FrameAt(j, m + 1)),
           NEW s, s = ReferenceOf(j)
    PROVE  s.err = ZU_OK /\ s.out = r.out /\ s.end = r.end /\ s.phase = "tail"
<1>. DEFINE t == Readings(j)[m + 1]
<1>0. Len(j.input) \in Nat /\ m + 1 \in 0 .. Len(j.input)
  BY JobTypes
<1>1. r \in RefRecord /\ t = RefStep(j, r, m + 1)
  BY ReadNext
<1>2. t = RefTail(r)
  BY <1>1, RefAfterFrame
<1>. HIDE DEF t
<1>3. t.err = ZU_OK /\ t.out = r.out /\ t.end = r.end /\ t.phase = "tail"
  BY <1>1, <1>2, RefTailIs
<1>4. s = t
  BY <1>0, <1>3, ReferenceGrows DEF t
<1>. QED  BY <1>3, <1>4

----------------------------------------------------------------------------
(***************************************************************************)
(* The library reads what the reference reads.                             *)
(***************************************************************************)
\* What the library makes of the token after q, with o given.
ReadGood(j, x, q, o) ==
    /\ x.err = ZU_OK => LibStands(j, x.l, q + 1, o)
    /\ x.err # ZU_OK => Readings(j)[q + 1].err = x.err /\ Readings(j)[q + 1].out = o

\* The token after q is the next of a magic of which k are read.
MagicToken(j, seen, q, k) ==
    LET s == Readings(j)[q + 1]
        bad == j.wrap = "zstd" /\ ~IsMagicPrefix(seen)
    IN  /\ k \in 0 .. 3 /\ k <= q
        /\ seen = SubSeq(j.input, (q - k) + 1, q + 1) /\ Len(seen) = k + 1
        /\ s.out = Readings(j)[q].out
        /\ bad => s.err = ZU_ERR_INVALID_DATA
        /\ ~bad => /\ s.err = ZU_OK /\ s.n = 0 /\ s.k = k + 1
                   /\ s.phase = IF k = 3 THEN "head" ELSE "magic"

\* A library at the magic reads it token by token.
LEMMA MagicReads ==
    ASSUME NEW j \in Jobs, NEW q \in Nat, q < Len(j.input), NEW l, l \in LibRecord,
           Readings(j)[q].err = ZU_OK, MagicStands(j, l, q)
    PROVE  \E k \in 0 .. 3 : MagicToken(j, Append(l.seen, j.input[q + 1]), q, k)
<1>. DEFINE r == Readings(j)[q]
            s == Readings(j)[q + 1]
            seen == Append(l.seen, j.input[q + 1])
<1>0. r \in RefRecord /\ s = RefStep(j, r, q + 1) /\ r.err = ZU_OK /\ r.k \in Nat
  BY ReadNext DEF RefRecord
<1>1. ASSUME NEW k \in 0 .. 3, k <= q, l.seen = SubSeq(j.input, (q - k) + 1, q)
      PROVE  seen = SubSeq(j.input, (q - k) + 1, q + 1) /\ Len(seen) = k + 1
  <2>. DEFINE m == q - k
  <2>1. m \in Nat /\ m <= q /\ m <= q + 1 /\ q + 1 \in Nat /\ (q + 1) - m = k + 1
        /\ q + 1 <= Len(j.input)
    BY <1>1, JobTypes
  <2>2. l.seen = SubSeq(j.input, m + 1, q)
    BY <1>1
  <2>. HIDE DEF m
  <2>3. seen = SubSeq(j.input, m + 1, q + 1)
    BY <2>1, <2>2, WindowNext
  <2>4. Len(SubSeq(j.input, m + 1, q + 1)) = (q + 1) - m
    BY <2>1, WindowIs
  <2>. QED  BY <2>1, <2>3, <2>4 DEF m
<1>2. ASSUME NEW k \in 0 .. 3, k <= q, l.seen = SubSeq(j.input, (q - k) + 1, q),
             r.phase = "magic", r.k = k, r.n = 0
      PROVE  MagicToken(j, seen, q, k)
  <2>1. seen = SubSeq(j.input, (q - k) + 1, q + 1) /\ Len(seen) = k + 1 /\ (q - k) + 1 = (q + 1) - k
    <3>1. (q - k) + 1 = (q + 1) - k
      OBVIOUS
    <3>2. seen = SubSeq(j.input, (q - k) + 1, q + 1) /\ Len(seen) = k + 1
      <4>. HIDE DEF seen, r, s
      <4>. QED  BY <1>1, <1>2
    <3>. QED  BY <3>1, <3>2
  <2>. DEFINE bad == j.wrap = "zstd" /\ ~IsMagicPrefix(seen)
  <2>2. bad => j.wrap = "zstd" /\ ~IsMagicPrefix(SubSeq(j.input, (q + 1) - r.k, q + 1))
    BY <1>2, <2>1
  <2>3. ~bad => (j.wrap = "zstd" => IsMagicPrefix(SubSeq(j.input, (q + 1) - r.k, q + 1)))
    BY <1>2, <2>1
  <2>4. bad => s = RefFail(r, ZU_ERR_INVALID_DATA)
    <3>. DEFINE i == q + 1
    <3>1. bad => j.wrap = "zstd" /\ ~IsMagicPrefix(SubSeq(j.input, i - r.k, i))
      BY <2>2
    <3>2. s = RefStep(j, r, i) /\ r.err = ZU_OK /\ r.phase = "magic"
      BY <1>0, <1>2
    <3>. HIDE DEF i, r, s, bad
    <3>3. j.wrap = "zstd" /\ ~IsMagicPrefix(SubSeq(j.input, i - r.k, i)) =>
            RefStep(j, r, i) = RefFail(r, ZU_ERR_INVALID_DATA)
      BY <3>2, RefInMagic
    <3>. QED  BY <3>1, <3>2, <3>3
  <2>5. bad => s.err = ZU_ERR_INVALID_DATA /\ s.out = r.out
    <3>1. ZU_ERR_INVALID_DATA \in Status
      BY DEF Status, Errors
    <3>. QED  BY <1>0, <2>4, <3>1, RefFailIs
  <2>6. ~bad => /\ s.err = ZU_OK /\ s.out = r.out /\ s.n = r.n /\ s.k = r.k + 1
                /\ s.phase = IF r.k = 3 THEN "head" ELSE "magic"
    <3>. SUFFICES ASSUME ~bad
                  PROVE  /\ s.err = ZU_OK /\ s.out = r.out /\ s.n = r.n /\ s.k = r.k + 1
                         /\ s.phase = IF r.k = 3 THEN "head" ELSE "magic"
      OBVIOUS
    <3>1. j.wrap = "zstd" => IsMagicPrefix(SubSeq(j.input, (q + 1) - r.k, q + 1))
      BY <2>3
    <3>2. r = Readings(j)[q] /\ s = Readings(j)[q + 1] /\ r.err = ZU_OK /\ r.phase = "magic"
      BY <1>0, <1>2
    <3>. HIDE DEF r, s, bad, seen
    <3>. QED  BY ONLY j \in Jobs, q \in Nat, q < Len(j.input), <3>1, <3>2, MagicGoesOn
  <2>. HIDE DEF r, s, seen
  <2>7. /\ k \in 0 .. 3 /\ k <= q
        /\ seen = SubSeq(j.input, (q - k) + 1, q + 1) /\ Len(seen) = k + 1
        /\ s.out = r.out
        /\ bad => s.err = ZU_ERR_INVALID_DATA
        /\ ~bad => /\ s.err = ZU_OK /\ s.n = 0 /\ s.k = k + 1
                   /\ s.phase = IF k = 3 THEN "head" ELSE "magic"
    <3>. HIDE DEF bad
    <3>. QED  BY <1>2, <2>1, <2>5, <2>6
  <2>. QED  BY <2>7 DEF MagicToken, r, s
<1>3. ASSUME l.seen = <<>>
      PROVE  l.seen = SubSeq(j.input, (q - 0) + 1, q)
  <2>1. SubSeq(j.input, q + 1, q) = <<>>
    BY SubSeqEmpty
  <2>2. (q - 0) + 1 = q + 1
    OBVIOUS
  <2>. QED  BY <1>3, <2>1, <2>2
<1>4. CASE l.seen = <<>> /\ r.phase = "magic" /\ r.k = 0 /\ r.n = 0
  <2>1. 0 \in 0 .. 3 /\ 0 <= q
    OBVIOUS
  <2>2. MagicToken(j, seen, q, 0)
    BY <1>2, <1>3, <1>4, <2>1
  <2>. QED  BY <2>1, <2>2
<1>5. CASE l.seen = <<>> /\ r.phase = "between" /\ j.opts.concat /\ FrameAt(j, q + 1)
  <2>1. 0 \in 0 .. 3 /\ 0 <= q /\ (q - 0) + 1 = q + 1
    OBVIOUS
  <2>2. seen = SubSeq(j.input, (q - 0) + 1, q + 1) /\ Len(seen) = 0 + 1
    BY <1>1, <1>3, <1>5, <2>1
  <2>3. IsMagicPrefix(seen)
    <3>1. 1 \in 0 .. 4
      OBVIOUS
    <3>2. IsMagicPrefix(SubSeq(j.input, q + 1, q + 1))
      BY <1>5, <3>1, FrameBegins
    <3>. QED  BY <2>1, <2>2, <3>2
  <2>4. s.err = ZU_OK /\ s.out = r.out /\ s.n = 0 /\ s.k = 1 /\ s.phase = "magic"
    BY <1>0, <1>5, FrameOpens
  <2>. HIDE DEF r, s, seen
  <2>5. MagicToken(j, seen, q, 0)
    BY <2>1, <2>2, <2>3, <2>4 DEF MagicToken, r, s
  <2>. QED  BY <2>1, <2>5, Zenon DEF seen
<1>6. CASE r.phase = "magic" /\ r.k \in 1 .. 3 /\ r.k <= q /\ r.n = 0
           /\ l.seen = SubSeq(j.input, q - r.k + 1, q)
  <2>. DEFINE k == r.k
  <2>1. k \in 0 .. 3 /\ k <= q /\ l.seen = SubSeq(j.input, (q - k) + 1, q)
        /\ r.phase = "magic" /\ r.k = k /\ r.n = 0
    BY <1>6
  <2>. HIDE DEF k, r, seen
  <2>2. MagicToken(j, seen, q, k)
    BY <1>2, <2>1
  <2>. QED  BY <2>1, <2>2, Zenon DEF seen
<1>. QED  BY <1>4, <1>5, <1>6 DEF MagicStands, StartsFrame

\* The library's ways with a header.
LEMMA LibHeadIs ==
    ASSUME NEW l, NEW t
    PROVE  /\ l.seen = Skip /\ t[1] = "size" =>
                LibHead(l, t) = [l |-> [l EXCEPT !.stage = "done"], err |-> ZU_OK]
           /\ ~(l.seen = Skip /\ t[1] = "size") /\ l.seen = Own
              /\ t \in {<<"head", 0>>, <<"head", 1>>} =>
                LibHead(l, t) = [l |-> [l EXCEPT !.stage = "block", !.check = t[2] = 1],
                                 err |-> ZU_OK]
           /\ ~(l.seen = Skip /\ t[1] = "size") /\ l.seen = Own /\ t = <<"head", 2>> =>
                LibHead(l, t) = [l |-> l, err |-> HeaderRefused(job)]
           /\ /\ ~(l.seen = Skip /\ t[1] = "size")
              /\ ~(l.seen = Own /\ t \in {<<"head", 0>>, <<"head", 1>>, <<"head", 2>>})
              => LibHead(l, t) = [l |-> l, err |-> ZU_ERR_INVALID_DATA]
<1>. DEFINE sized == l.seen = Skip /\ t[1] = "size"
            opens == l.seen = Own /\ t \in {<<"head", 0>>, <<"head", 1>>}
            refused == l.seen = Own /\ t = <<"head", 2>>
            frame == [l |-> [l EXCEPT !.stage = "done"], err |-> ZU_OK]
            block == [l |-> [l EXCEPT !.stage = "block", !.check = t[2] = 1], err |-> ZU_OK]
            refuse == [l |-> l, err |-> HeaderRefused(job)]
            bad == [l |-> l, err |-> ZU_ERR_INVALID_DATA]
<1>0. LibHead(l, t) =
        CASE sized -> frame [] opens -> block [] refused -> refuse [] OTHER -> bad
  BY Zenon DEF LibHead
<1>1. <<"head", 2>> # <<"head", 0>> /\ <<"head", 2>> # <<"head", 1>>
  OBVIOUS
<1>2. /\ ~(opens /\ refused)
      /\ l.seen = Own /\ t \in {<<"head", 0>>, <<"head", 1>>, <<"head", 2>>} <=> opens \/ refused
  <2>. HIDE DEF frame, block, refuse, bad
  <2>. QED  BY <1>1
<1>. SUFFICES /\ sized => LibHead(l, t) = frame
              /\ ~sized /\ opens => LibHead(l, t) = block
              /\ ~sized /\ refused => LibHead(l, t) = refuse
              /\ ~sized /\ ~opens /\ ~refused => LibHead(l, t) = bad
  BY <1>2
<1>. HIDE DEF frame, block, refuse, bad
<1>3. ~(sized /\ opens) /\ ~(sized /\ refused)
  <2>1. Own[1] # Skip[1]
    BY DEF Own, Skip
  <2>. QED  BY <2>1
<1>. HIDE DEF sized, opens, refused
<1>. QED  BY <1>0, <1>2, <1>3, Zenon

\* An error of the library is the reference's.
LEMMA LibErrs ==
    ASSUME NEW j \in Jobs, NEW q \in Nat, q < Len(j.input), NEW l, NEW o, o \in Seq(Nat),
           LibStands(j, l, q, o), l.pend = <<>>, NEW e, e \in Status, e # ZU_OK,
           Readings(j)[q + 1] = RefFail(Readings(j)[q], e)
    PROVE  ReadGood(j, [l |-> l, err |-> e], q, o)
<1>1. Readings(j)[q] \in RefRecord
  BY ReadNext
<1>2. Readings(j)[q].out = o
  <2>1. Readings(j)[q].out = o \o l.pend
    BY DEF LibStands
  <2>. QED  BY <2>1, NothingJoined
<1>3. Readings(j)[q + 1].err = e /\ Readings(j)[q + 1].out = o
  BY <1>1, <1>2, RefFailIs
<1>. QED  BY <1>3 DEF ReadGood

\* ... at the magic,
LEMMA LibMagicFollows ==
    ASSUME job \in Jobs, NEW l, l \in LibRecord, l.stage = "magic", l.pend = <<>>,
           NEW q \in Nat, q < Len(job.input), NEW o, o \in Seq(Nat), LibStands(job, l, q, o)
    PROVE  ReadGood(job, LibRead(l, q + 1), q, o)
<1>. DEFINE t == job.input[q + 1]
            r == Readings(job)[q]
            s == Readings(job)[q + 1]
            seen == Append(l.seen, t)
            m == [l EXCEPT !.seen = seen, !.stage = IF Len(seen) = 4 THEN "head" ELSE @]
            bad == job.wrap = "zstd" /\ ~IsMagicPrefix(seen)
<1>0. r.err = ZU_OK /\ r.out = o /\ l.n = 0 /\ q + 1 \in 0 .. Len(job.input)
      /\ job.input[q + 1] \in STRING \X Nat
  <2>1. r.out = o \o l.pend /\ r.err = ZU_OK /\ MagicStands(job, l, q)
    BY DEF LibStands
  <2>. QED  BY <2>1, NothingJoined, JobTypes DEF MagicStands
<1>1. PICK k \in 0 .. 3 : MagicToken(job, seen, q, k)
  BY MagicReads DEF LibStands
<1>. HIDE DEF s, r, seen
<1>2. /\ k <= q /\ seen = SubSeq(job.input, (q - k) + 1, q + 1) /\ Len(seen) = k + 1
      /\ s.out = r.out
      /\ bad => s.err = ZU_ERR_INVALID_DATA
      /\ ~bad => /\ s.err = ZU_OK /\ s.n = 0 /\ s.k = k + 1
                 /\ s.phase = IF k = 3 THEN "head" ELSE "magic"
  BY <1>1 DEF MagicToken, s, r
<1>3. LibRead(l, q + 1) = IF bad THEN [l |-> l, err |-> ZU_ERR_INVALID_DATA]
                                 ELSE [l |-> m, err |-> ZU_OK]
  <2>1. LibRead(l, q + 1) = LibMagic(l, t)
    BY DEF LibRead
  <2>. QED  BY <2>1 DEF LibMagic, seen
<1>4. CASE bad
  <2>1. ZU_ERR_INVALID_DATA # ZU_OK
    BY DEF ZU_ERR_INVALID_DATA, ZU_OK
  <2>. HIDE DEF bad, m
  <2>. QED  BY <1>0, <1>2, <1>3, <1>4, <2>1 DEF ReadGood, s
<1>5. CASE ~bad
  <2>1. /\ m.stage = (IF k = 3 THEN "head" ELSE "magic") /\ m.seen = seen /\ m.n = l.n
        /\ m.pend = l.pend
    <3>1. Len(seen) = 4 <=> k = 3
      BY <1>2
    <3>. HIDE DEF bad
    <3>. QED  BY <3>1 DEF LibRecord
  <2>. HIDE DEF m
  <2>2. s.out = o \o m.pend
    BY <1>0, <1>2, <2>1, NothingJoined
  <2>3. m.stage = "magic" => MagicStands(job, m, q + 1)
    <3>1. CASE k = 3
      BY <2>1, <3>1
    <3>2. CASE k # 3
      <4>1. k + 1 \in 1 .. 3 /\ k + 1 <= q + 1 /\ (q + 1) - (k + 1) + 1 = (q - k) + 1
        BY <1>2, <3>2
      <4>2. /\ s.phase = "magic" /\ s.k = k + 1 /\ s.n = 0 /\ m.n = 0
            /\ m.seen = SubSeq(job.input, (q - k) + 1, q + 1)
        BY <1>0, <1>2, <1>5, <2>1, <3>2
      <4>3. m.seen = SubSeq(job.input, (q + 1) - s.k + 1, q + 1)
        BY <4>1, <4>2
      <4>. HIDE DEF bad
      <4>. QED  BY <4>1, <4>2, <4>3 DEF MagicStands, s
    <3>. QED  BY <3>1, <3>2
  <2>4. m.stage = "head" => HeadStands(job, m, q + 1)
    <3>1. CASE k # 3
      BY <2>1, <3>1
    <3>2. CASE k = 3
      <4>1. 4 <= q + 1 /\ (q + 1) - 3 = (q - k) + 1
        BY <1>2, <3>2
      <4>2. /\ s.phase = "head" /\ s.n = 0 /\ m.n = 0
            /\ m.seen = SubSeq(job.input, (q - k) + 1, q + 1)
        BY <1>0, <1>2, <1>5, <2>1, <3>2
      <4>. HIDE DEF bad
      <4>. QED  BY <4>1, <4>2 DEF HeadStands, s
    <3>. QED  BY <3>1, <3>2
  <2>5. m.stage \notin {"block", "sum", "done"}
    BY <2>1
  <2>6. LibStands(job, m, q + 1, o)
    <3>1. s.err = ZU_OK
      BY <1>2, <1>5
    <3>. HIDE DEF bad
    <3>. QED  BY <1>0, <2>2, <2>3, <2>4, <2>5, <3>1 DEF LibStands, s
  <2>. HIDE DEF bad
  <2>. QED  BY <1>3, <1>5, <2>6 DEF ReadGood
<1>. QED  BY <1>4, <1>5

\* A reading of the reference that ends a frame, and a library that is done.
LEMMA LibEnds ==
    ASSUME NEW j \in Jobs, NEW q \in Nat, q < Len(j.input), NEW l, l \in LibRecord,
           NEW o, o \in Seq(Nat), NEW r, r \in RefRecord, r.err = ZU_OK, r.out = o \o l.pend,
           Readings(j)[q + 1] = RefFrame(r, q + 1), l.stage = "done"
    PROVE  LibStands(j, l, q + 1, o)
<1>. DEFINE s == Readings(j)[q + 1]
<1>1. q + 1 \in 0 .. Len(j.input) /\ q + 1 \in Nat
  BY JobTypes
<1>2. s.phase = "between" /\ s.err = ZU_OK /\ s.end = q + 1 /\ s.out = o \o l.pend
  <2>. DEFINE i == q + 1
  <2>1. i \in Nat /\ s = RefFrame(r, i)
    BY <1>1
  <2>. HIDE DEF i, s
  <2>2. s.phase = "between" /\ s.out = r.out /\ s.err = r.err /\ s.end = i
    BY <2>1, RefFrameIs
  <2>. QED  BY <2>2 DEF i
<1>. HIDE DEF s
<1>. QED  BY <1>1, <1>2 DEF LibStands, s

\* ... in the rest of a header,
LEMMA LibHeadFollows ==
    ASSUME job \in Jobs, NEW l, l \in LibRecord, l.stage = "head", l.pend = <<>>,
           NEW q \in Nat, q < Len(job.input), NEW o, o \in Seq(Nat), LibStands(job, l, q, o)
    PROVE  ReadGood(job, LibRead(l, q + 1), q, o)
<1>. DEFINE i == q + 1
            t == job.input[i]
            r == Readings(job)[q]
            s == Readings(job)[i]
            m == l.seen
            x == LibRead(l, i)
            sized == m = Skip /\ t[1] = "size"
            opens == m = Own /\ t \in {<<"head", 0>>, <<"head", 1>>}
            refused == m = Own /\ t = <<"head", 2>>
            d == [l EXCEPT !.stage = "done"]
            e == [l EXCEPT !.stage = "block", !.check = t[2] = 1]
<1>0. /\ r \in RefRecord /\ s = RefStep(job, r, i) /\ r.err = ZU_OK /\ r.out = o
      /\ r.phase = "head" /\ r.n = 0 /\ l.n = 0 /\ i \in 0 .. Len(job.input)
      /\ m = SubSeq(job.input, i - 4, i - 1) /\ x = LibHead(l, t)
  <2>1. r.out = o \o l.pend /\ r.err = ZU_OK /\ HeadStands(job, l, q)
    BY DEF LibStands
  <2>2. i - 4 = q - 3 /\ i - 1 = q /\ i \in 0 .. Len(job.input)
    <3>1. Len(job.input) \in Nat
      BY JobTypes
    <3>2. i \in 0 .. Len(job.input)
      BY <3>1
    <3>3. i - 4 = q - 3 /\ i - 1 = q
      OBVIOUS
    <3>. QED  BY <3>2, <3>3
  <2>3. x = LibHead(l, t)
    BY DEF LibRead
  <2>4. r \in RefRecord /\ s = RefStep(job, r, i)
    BY ReadNext
  <2>5. m = SubSeq(job.input, i - 4, i - 1)
    <3>1. m = SubSeq(job.input, q - 3, q)
      BY <2>1 DEF HeadStands
    <3>. QED  BY <2>2, <3>1
  <2>. QED  BY <2>1, <2>2, <2>3, <2>4, <2>5, NothingJoined DEF HeadStands
<1>1. /\ sized => s = RefFrame(r, i) /\ x = [l |-> d, err |-> ZU_OK]
      /\ ~sized /\ opens => s = RefBlock(r, t) /\ x = [l |-> e, err |-> ZU_OK]
      /\ ~sized /\ refused =>
           s = RefFail(r, HeaderRefused(job)) /\ x = [l |-> l, err |-> HeaderRefused(job)]
      /\ ~sized /\ ~opens /\ ~refused =>
           s = RefFail(r, ZU_ERR_INVALID_DATA) /\ x = [l |-> l, err |-> ZU_ERR_INVALID_DATA]
  <2>1. /\ sized => s = RefFrame(r, i)
        /\ ~sized /\ opens => s = RefBlock(r, t)
        /\ ~sized /\ refused => s = RefFail(r, HeaderRefused(job))
        /\ /\ ~sized /\ ~(m = Own /\ t \in {<<"head", 0>>, <<"head", 1>>, <<"head", 2>>})
           => s = RefFail(r, ZU_ERR_INVALID_DATA)
    <3>1. s = RefStep(job, r, i) /\ r.err = ZU_OK /\ r.phase = "head"
          /\ m = SubSeq(job.input, i - 4, i - 1) /\ t = job.input[i]
      BY <1>0
    <3>. HIDE DEF s, r, m, t, i
    <3>2. RefHeadIs(job, r, i, t, m)
      BY <3>1, RefInHead
    <3>. HIDE DEF sized
    <3>. QED  BY ONLY <3>1, <3>2 DEF RefHeadIs, sized, opens, refused
  <2>2. /\ sized => x = [l |-> d, err |-> ZU_OK]
        /\ ~sized /\ opens => x = [l |-> e, err |-> ZU_OK]
        /\ ~sized /\ refused => x = [l |-> l, err |-> HeaderRefused(job)]
        /\ /\ ~sized /\ ~(m = Own /\ t \in {<<"head", 0>>, <<"head", 1>>, <<"head", 2>>})
           => x = [l |-> l, err |-> ZU_ERR_INVALID_DATA]
    <3>1. x = LibHead(l, t)
      BY <1>0
    <3>. HIDE DEF x, t
    <3>. QED  BY <3>1, LibHeadIs
  <2>3. ~opens /\ ~refused =>
          ~(m = Own /\ t \in {<<"head", 0>>, <<"head", 1>>, <<"head", 2>>})
    <3>. HIDE DEF m, t
    <3>. QED  OBVIOUS
  <2>. HIDE DEF s, x, d, e, r, t, m, i
  <2>. QED  BY <2>1, <2>2, <2>3
<1>2. /\ d \in LibRecord /\ d.stage = "done" /\ d.pend = l.pend
      /\ e.stage = "block" /\ e.check = (t[2] = 1) /\ e.n = l.n /\ e.pend = l.pend
  BY DEF LibRecord
<1>3. HeaderRefused(job) \in Status /\ HeaderRefused(job) # ZU_OK
      /\ ZU_ERR_INVALID_DATA \in Status /\ ZU_ERR_INVALID_DATA # ZU_OK
  BY DEF HeaderRefused, Status, Errors, ZU_OK, ZU_ERR_CHECKSUM, ZU_ERR_OUTPUT_LIMIT,
         ZU_ERR_UNSUPPORTED, ZU_ERR_INVALID_DATA
<1>4. CASE sized
  <2>1. s = RefFrame(r, i) /\ x = [l |-> d, err |-> ZU_OK]
    BY <1>1, <1>4
  <2>. HIDE DEF d, sized, opens, refused, m
  <2>2. LibStands(job, d, q + 1, o)
    <3>1. r.out = o \o d.pend
      BY <1>0, <1>2, NothingJoined
    <3>. HIDE DEF r
    <3>. QED  BY <1>0, <1>2, <2>1, <3>1, LibEnds
  <2>. HIDE DEF r, s, x
  <2>. QED  BY <2>1, <2>2 DEF ReadGood, x
<1>5. CASE ~sized /\ opens
  <2>1. s = RefBlock(r, t) /\ x = [l |-> e, err |-> ZU_OK]
    BY <1>1, <1>5
  <2>. HIDE DEF sized, opens, refused, m, d, e
  <2>2. /\ s.phase = "block" /\ s.check = (t[2] = 1) /\ s.n = r.n /\ s.out = r.out
        /\ s.err = r.err
    <3>1. r \in RefRecord /\ s = RefBlock(r, t)
      BY <1>0, <2>1
    <3>. HIDE DEF r, s, t
    <3>. QED  BY <3>1, RefBlockIs
  <2>3. s.out = o \o e.pend
    BY <1>0, <1>2, <2>2, NothingJoined
  <2>. HIDE DEF r, s, x, t
  <2>4. LibStands(job, e, i, o)
    BY <1>0, <1>2, <2>2, <2>3 DEF LibStands, s
  <2>. QED  BY <2>1, <2>4 DEF ReadGood, x
<1>6. CASE ~sized /\ ~opens
  <2>. DEFINE er == IF refused THEN HeaderRefused(job) ELSE ZU_ERR_INVALID_DATA
  <2>1. s = RefFail(r, er) /\ x = [l |-> l, err |-> er]
    <3>. HIDE DEF sized, opens, refused, m, d, e, s, x, r
    <3>. QED  BY <1>1, <1>6
  <2>2. er \in Status /\ er # ZU_OK
    BY <1>3
  <2>. HIDE DEF er, sized, opens, refused, m, d, e
  <2>3. ReadGood(job, [l |-> l, err |-> er], q, o)
    BY <2>1, <2>2, LibErrs
  <2>. QED  BY <2>1, <2>3
<1>. QED  BY <1>4, <1>5, <1>6

\* ... in the blocks,
LEMMA LibBlockFollows ==
    ASSUME job \in Jobs, NEW l, l \in LibRecord, l.stage = "block", l.pend = <<>>,
           NEW q \in Nat, q < Len(job.input), NEW o, o \in Seq(Nat), LibStands(job, l, q, o)
    PROVE  ReadGood(job, LibRead(l, q + 1), q, o)
<1>. DEFINE i == q + 1
            t == job.input[i]
            r == Readings(job)[q]
            s == Readings(job)[i]
            x == LibRead(l, i)
            u == RefTaken(job, r, i)
            e == [l EXCEPT !.pend = BytesOf(i), !.n = @ + t[2]]
            d == [e EXCEPT !.stage = IF l.check THEN "sum" ELSE "done"]
<1>0. /\ r \in RefRecord /\ s = RefStep(job, r, i) /\ r.err = ZU_OK /\ r.out = o
      /\ r.phase = "block" /\ r.n = l.n /\ r.check = l.check
      /\ i \in 0 .. Len(job.input) /\ i \in 1 .. Len(job.input) /\ i \in Nat
  <2>1. r.out = o \o l.pend /\ r.err = ZU_OK /\ r.phase = "block" /\ r.n = l.n /\ r.check = l.check
    BY DEF LibStands
  <2>2. i \in 0 .. Len(job.input) /\ i \in 1 .. Len(job.input) /\ i \in Nat
    BY JobTypes
  <2>4. r \in RefRecord /\ s = RefStep(job, r, i)
    BY ReadNext
  <2>. QED  BY <2>1, <2>2, <2>4, NothingJoined
<1>1. /\ u \in RefRecord /\ u.out = o \o BytesOf(i) /\ u.n = l.n + t[2]
      /\ u.phase = "block" /\ u.err = ZU_OK /\ u.check = l.check
  <2>1. r \in RefRecord /\ i \in 1 .. Len(job.input) /\ r.out = o /\ r.n = l.n /\ r.phase = "block"
        /\ r.err = ZU_OK /\ r.check = l.check
    BY <1>0
  <2>2. BytesOf(i) = BytesAt(job.input, i) /\ t = job.input[i]
    BY DEF BytesOf
  <2>. HIDE DEF r, i, t
  <2>3. /\ u \in RefRecord /\ u.out = r.out \o BytesAt(job.input, i)
        /\ u.n = r.n + job.input[i][2] /\ u.phase = r.phase /\ u.err = r.err
        /\ u.check = r.check
    BY <2>1, RefTakenIs
  <2>. HIDE DEF u
  <2>. QED  BY <2>1, <2>2, <2>3
<1>2. t \in STRING \X Nat /\ t[2] \in Nat /\ BytesOf(i) \in Seq(Nat)
  BY <1>0, JobTypes, TokenBytes
<1>3. /\ e \in LibRecord /\ e.pend = BytesOf(i) /\ e.n = l.n + t[2] /\ e.stage = "block"
      /\ e.check = l.check
  <2>1. l.n + t[2] \in Nat
    BY <1>2 DEF LibRecord
  <2>. QED  BY <1>2, <2>1 DEF LibRecord
<1>. HIDE DEF e
<1>4. /\ d \in LibRecord /\ d.pend = BytesOf(i) /\ d.n = l.n + t[2]
      /\ l.check => d.stage = "sum"
      /\ ~l.check => d.stage = "done"
  BY <1>3 DEF LibRecord
<1>5. /\ t[1] \in {"lit", "raw"} => x = [l |-> e, err |-> ZU_OK]
      /\ t[1] = "end" => x = [l |-> d, err |-> ZU_OK]
      /\ t[1] \notin {"lit", "raw", "end"} => x = [l |-> l, err |-> ZU_ERR_INVALID_DATA]
  <2>1. x = LibBlock(l, i)
    BY DEF LibRead
  <2>2. x = CASE t[1] \in {"lit", "raw"} -> [l |-> e, err |-> ZU_OK]
              [] t[1] = "end" -> [l |-> d, err |-> ZU_OK]
              [] OTHER -> [l |-> l, err |-> ZU_ERR_INVALID_DATA]
    BY <2>1, Zenon DEF LibBlock, e
  <2>3. "end" \notin {"lit", "raw"}
    OBVIOUS
  <2>. HIDE DEF d, x, t
  <2>4. t[1] \in {"lit", "raw", "end"} <=> t[1] \in {"lit", "raw"} \/ t[1] = "end"
    OBVIOUS
  <2>. QED  BY <2>2, <2>3, <2>4, Zenon
<1>6. /\ t[1] \in {"lit", "raw"} => s = u
      /\ t[1] = "end" /\ r.check => s = RefSum(u)
      /\ t[1] = "end" /\ ~r.check => s = RefFrame(u, i)
      /\ t[1] \notin {"lit", "raw", "end"} => s = RefFail(r, ZU_ERR_INVALID_DATA)
  <2>1. s = RefStep(job, r, i) /\ r.err = ZU_OK /\ r.phase = "block"
    BY <1>0
  <2>. HIDE DEF s, r, i
  <2>. QED  BY <2>1, RefInBlock
<1>. HIDE DEF u, d
<1>7. CASE t[1] \in {"lit", "raw"}
  <2>1. s = u /\ x = [l |-> e, err |-> ZU_OK]
    BY <1>5, <1>6, <1>7
  <2>. HIDE DEF r, s, x, t
  <2>2. LibStands(job, e, i, o)
    BY <1>0, <1>1, <1>3, <2>1 DEF LibStands, s
  <2>. QED  BY <2>1, <2>2 DEF ReadGood, x
<1>8. CASE t[1] = "end" /\ l.check
  <2>1. s = RefSum(u) /\ x = [l |-> d, err |-> ZU_OK]
    BY <1>0, <1>5, <1>6, <1>8
  <2>2. s.phase = "sum" /\ s.out = u.out /\ s.err = u.err /\ s.n = u.n
    BY <1>1, <2>1, RefSumIs
  <2>. HIDE DEF r, s, x, t
  <2>3. LibStands(job, d, i, o)
    BY <1>0, <1>1, <1>4, <1>8, <2>2 DEF LibStands, s
  <2>. QED  BY <2>1, <2>3 DEF ReadGood, x
<1>9. CASE t[1] = "end" /\ ~l.check
  <2>1. s = RefFrame(u, i) /\ x = [l |-> d, err |-> ZU_OK]
    BY <1>0, <1>5, <1>6, <1>9
  <2>2. LibStands(job, d, q + 1, o)
    <3>1. u.out = o \o d.pend /\ d.stage = "done"
      BY <1>1, <1>4, <1>9
    <3>. QED  BY <1>1, <1>4, <2>1, <3>1, LibEnds
  <2>. HIDE DEF r, s, x, t
  <2>. QED  BY <2>1, <2>2 DEF ReadGood, x
<1>10. CASE t[1] \notin {"lit", "raw", "end"}
  <2>1. s = RefFail(r, ZU_ERR_INVALID_DATA) /\ x = [l |-> l, err |-> ZU_ERR_INVALID_DATA]
    BY <1>5, <1>6, <1>10
  <2>2. ZU_ERR_INVALID_DATA \in Status /\ ZU_ERR_INVALID_DATA # ZU_OK
    BY DEF Status, Errors, ZU_OK, ZU_ERR_INVALID_DATA
  <2>3. ReadGood(job, [l |-> l, err |-> ZU_ERR_INVALID_DATA], q, o)
    BY <2>1, <2>2, LibErrs
  <2>. HIDE DEF x
  <2>. QED  BY <2>1, <2>3 DEF x
<1>11. t[1] \in {"lit", "raw"} \/ t[1] = "end" \/ t[1] \notin {"lit", "raw", "end"}
  <2>. HIDE DEF t
  <2>. QED  OBVIOUS
<1>. QED  BY <1>7, <1>8, <1>9, <1>10, <1>11

\* ... and at the checksum.
LEMMA LibSumFollows ==
    ASSUME job \in Jobs, NEW l, l \in LibRecord, l.stage = "sum", l.pend = <<>>,
           NEW q \in Nat, q < Len(job.input), NEW o, o \in Seq(Nat), LibStands(job, l, q, o)
    PROVE  ReadGood(job, LibRead(l, q + 1), q, o)
<1>. DEFINE i == q + 1
            r == Readings(job)[q]
            s == Readings(job)[i]
            x == LibRead(l, i)
            d == [l EXCEPT !.stage = "done"]
            good == job.input[i] = <<"sum", l.n>>
<1>0. /\ r \in RefRecord /\ s = RefStep(job, r, i) /\ r.err = ZU_OK /\ r.out = o \o l.pend
      /\ r.phase = "sum" /\ r.n = l.n
  <2>1. r.out = o \o l.pend /\ r.err = ZU_OK /\ r.phase = "sum" /\ r.n = l.n
    BY DEF LibStands
  <2>2. r \in RefRecord /\ s = RefStep(job, r, i)
    BY ReadNext
  <2>. QED  BY <2>1, <2>2
<1>1. x = IF good THEN [l |-> d, err |-> ZU_OK] ELSE [l |-> l, err |-> ZU_ERR_CHECKSUM]
  BY DEF LibRead
<1>2. s = IF good THEN RefFrame(r, i) ELSE RefFail(r, ZU_ERR_CHECKSUM)
  <2>1. r.err = ZU_OK /\ r.phase = "sum" /\ r.n = l.n /\ s = RefStep(job, r, i)
    BY <1>0
  <2>. HIDE DEF s, r, i
  <2>. QED  BY <2>1, RefAtSum
<1>3. d \in LibRecord /\ d.stage = "done" /\ d.pend = l.pend
  BY DEF LibRecord
<1>. HIDE DEF d
<1>4. CASE good
  <2>1. x = [l |-> d, err |-> ZU_OK] /\ s = RefFrame(r, i)
    BY <1>1, <1>2, <1>4
  <2>2. LibStands(job, d, q + 1, o)
    BY <1>0, <1>3, <2>1, LibEnds
  <2>. HIDE DEF r, s, x, good
  <2>. QED  BY <2>1, <2>2 DEF ReadGood, x
<1>5. CASE ~good
  <2>1. x = [l |-> l, err |-> ZU_ERR_CHECKSUM] /\ s = RefFail(r, ZU_ERR_CHECKSUM)
    BY <1>1, <1>2, <1>5
  <2>2. ZU_ERR_CHECKSUM \in Status /\ ZU_ERR_CHECKSUM # ZU_OK
    BY DEF Status, Errors, ZU_OK, ZU_ERR_CHECKSUM
  <2>. HIDE DEF good
  <2>3. ReadGood(job, [l |-> l, err |-> ZU_ERR_CHECKSUM], q, o)
    BY <2>1, <2>2, LibErrs
  <2>. QED  BY <2>1, <2>3
<1>. QED  BY <1>4, <1>5

\* The library reads what the reference reads.
LEMMA LibReadFollows ==
    ASSUME job \in Jobs, NEW l, l \in LibRecord, l.stage # "done", l.pend = <<>>,
           NEW q \in Nat, q < Len(job.input), NEW o, o \in Seq(Nat), LibStands(job, l, q, o)
    PROVE  ReadGood(job, LibRead(l, q + 1), q, o)
<1>1. l.stage \in {"magic", "head", "block", "sum"}
  BY DEF LibRecord
<1>. QED  BY <1>1, LibMagicFollows, LibHeadFollows, LibBlockFollows, LibSumFollows

----------------------------------------------------------------------------
(***************************************************************************)
(* A call of the library follows its stream.                               *)
(***************************************************************************)
\* Where a library stands depends on what it has given and still has
\* together, and not on its hostage.
LEMMA StandsWith ==
    ASSUME NEW j \in Jobs, NEW q, NEW l, NEW o, LibStands(j, l, q, o),
           NEW m, NEW v, m.stage = l.stage, m.seen = l.seen, m.n = l.n, m.check = l.check,
           v \o m.pend = o \o l.pend
    PROVE  LibStands(j, m, q, v)
<1>1. l.stage = "magic" => MagicStands(j, m, q)
  BY DEF LibStands, MagicStands
<1>2. l.stage = "head" => HeadStands(j, m, q)
  BY DEF LibStands, HeadStands
<1>. QED  BY <1>1, <1>2 DEF LibStands

\* What fits, x, and what is left, y, of s, with n of room filled.
Split(s, n, room, x, y) ==
    /\ x \in Seq(Nat) /\ y \in Seq(Nat) /\ x \o y = s
    /\ y # <<>> => n + Len(x) = room /\ Len(y) > 0

\* Nothing is left over of what fits.
LEMMA FlushSplits ==
    ASSUME NEW s, s \in Seq(Nat), NEW room \in Nat, NEW n \in Nat, n <= room,
           NEW k, k = LeastOf(Len(s), room - n),
           NEW x, x = SubSeq(s, 1, k), NEW y, y = SubSeq(s, k + 1, Len(s))
    PROVE  Split(s, n, room, x, y)
<1>1. Len(s) \in Nat /\ k \in Nat /\ k <= Len(s) /\ (k < Len(s) => n + k = room)
  <2>. DEFINE m == Len(s)
  <2>1. m \in Nat /\ k = LeastOf(m, room - n)
    OBVIOUS
  <2>. HIDE DEF m
  <2>2. m \in Nat /\ k \in Nat /\ k <= m /\ (k < m => n + k = room)
    BY <2>1 DEF LeastOf
  <2>. QED  BY <2>2 DEF m
<1>2. x \in Seq(Nat) /\ Len(x) = k
  <2>1. \A i \in 1 .. k : s[i] \in Nat
    BY <1>1
  <2>2. x \in Seq(Nat) /\ Len(x) = IF 1 <= k THEN k - 1 + 1 ELSE 0
    BY <1>1, <2>1, SubSeqProperties
  <2>. QED  BY <1>1, <2>2
<1>3. y \in Seq(Nat) /\ Len(y) = Len(s) - k
  <2>1. \A i \in k + 1 .. Len(s) : s[i] \in Nat
    BY <1>1
  <2>2. y \in Seq(Nat) /\ Len(y) = IF k + 1 <= Len(s) THEN Len(s) - (k + 1) + 1 ELSE 0
    BY <1>1, <2>1, SubSeqProperties
  <2>. QED  BY <1>1, <2>2
<1>4. x \o y = s
  <2>1. 1 \in 1 .. Len(s) + 1 /\ k \in 1 - 1 .. Len(s) /\ Len(s) \in k .. Len(s)
    BY <1>1
  <2>2. SubSeq(s, 1, k) \o SubSeq(s, k + 1, Len(s)) = SubSeq(s, 1, Len(s))
    BY <2>1, ConcatAdjacentSubSeq
  <2>3. SubSeq(s, 1, Len(s)) = s
    BY SubSeqFull
  <2>. QED  BY <2>2, <2>3
<1>5. y # <<>> => k < Len(s) /\ Len(y) > 0
  <2>1. y # <<>> => Len(y) # 0
    BY <1>3, EmptySeq
  <2>. QED  BY <1>1, <1>3, <2>1
<1>. QED  BY <1>1, <1>2, <1>3, <1>4, <1>5 DEF Split

\* What a reading has beyond o comes.
LEMMA MoreIn ==
    ASSUME NEW j, NEW q \in 0 .. Len(j.input), NEW o, o \in Seq(Nat), NEW y, y \in Seq(Nat),
           Len(y) > 0, Readings(j)[q].out = o \o y
    PROVE  MoreComes(j, o)
<1>1. Len(o \o y) = Len(o) + Len(y) /\ Len(o) \in Nat /\ Len(y) \in Nat
  BY Joined
<1>2. Len(Readings(j)[q].out) > Len(o)
  <2>. DEFINE x == Len(Readings(j)[q].out)  u == Len(o)  v == Len(y)
  <2>1. x = u + v /\ u \in Nat /\ v \in Nat /\ v > 0
    BY <1>1
  <2>. HIDE DEF x, u, v
  <2>2. x > u
    BY ONLY <2>1
  <2>. QED  BY <2>2 DEF x, u
<1>. QED  BY <1>2 DEF MoreComes

\* A call that goes on, before it writes.
TurnReads(j, p, o, avail, room, c) ==
    /\ c \in CallRecord /\ c.stop = "go" /\ c.used <= avail /\ Len(c.bytes) <= room
    /\ LibStands(j, c.l, Place(c.l, p + c.used), o \o c.bytes)
    /\ c.l.hostage => c.l.stage = "done" /\ c.used < avail
    /\ c.l.stage = "done" /\ ~c.l.hostage => c.used > 0

\* What a flush makes of a call: the bytes x given, y left.
Flushed(c, x, y) ==
    [c EXCEPT !.bytes = @ \o x, !.l.pend = y]

FlushedLike(c, x, y, d) ==
    /\ d \in CallRecord /\ d.bytes = c.bytes \o x /\ d.used = c.used /\ d.stop = c.stop
    /\ d.l \in LibRecord /\ d.l.pend = y /\ d.l.stage = c.l.stage
    /\ d.l.seen = c.l.seen /\ d.l.n = c.l.n /\ d.l.check = c.l.check
    /\ d.l.hostage = c.l.hostage

\* A flush changes this and nothing else.
LEMMA FlushedIs ==
    ASSUME NEW c, c \in CallRecord, NEW x, x \in Seq(Nat), NEW y, y \in Seq(Nat),
           NEW d, d = Flushed(c, x, y)
    PROVE  FlushedLike(c, x, y, d)
<1>. DEFINE v == c.bytes \o x  m == [c.l EXCEPT !.pend = y]
<1>1. v \in Seq(Nat)
  BY Joined DEF CallRecord
<1>2. /\ m \in LibRecord /\ m.pend = y /\ m.stage = c.l.stage
      /\ m.seen = c.l.seen /\ m.n = c.l.n /\ m.check = c.l.check
      /\ m.hostage = c.l.hostage
  BY DEF CallRecord, LibRecord
<1>3. d = [c EXCEPT !.bytes = v, !.l = m]
  BY DEF Flushed, CallRecord
<1>. HIDE DEF v, m
<1>4. d \in CallRecord /\ d.bytes = v /\ d.l = m /\ d.used = c.used /\ d.stop = c.stop
  BY <1>1, <1>2, <1>3 DEF CallRecord
<1>. QED  BY <1>2, <1>4 DEF v, FlushedLike

\* What LibFlush then does.
FlushSettles(d, e) ==
    /\ d.l.pend # <<>> /\ d.l.stage = "done" /\ ~d.l.hostage =>
         e = [d EXCEPT !.stop = "full", !.l.hostage = TRUE, !.used = @ - 1]
    /\ d.l.pend # <<>> /\ ~(d.l.stage = "done" /\ ~d.l.hostage) =>
         e = [d EXCEPT !.stop = "full"]
    /\ d.l.pend = <<>> /\ d.l.stage = "done" /\ ~d.l.hostage =>
         e = [d EXCEPT !.stop = "frame", !.l = FreshLib]
    /\ d.l.pend = <<>> /\ ~(d.l.stage = "done" /\ ~d.l.hostage) => e = d

\* It is what it does.
LEMMA LibFlushIs ==
    ASSUME NEW c, NEW room, NEW k, k = LeastOf(Len(c.l.pend), room - Len(c.bytes)),
           NEW d, d = Flushed(c, SubSeq(c.l.pend, 1, k), SubSeq(c.l.pend, k + 1, Len(c.l.pend)))
    PROVE  FlushSettles(d, LibFlush(c, room))
<1>1. LibFlush(c, room) =
        IF d.l.pend # <<>>
          THEN IF d.l.stage = "done" /\ ~d.l.hostage
                 THEN [d EXCEPT !.stop = "full", !.l.hostage = TRUE, !.used = @ - 1]
                 ELSE [d EXCEPT !.stop = "full"]
        ELSE IF d.l.stage = "done" /\ ~d.l.hostage
          THEN [d EXCEPT !.stop = "frame", !.l = FreshLib]
        ELSE d
  BY Zenon DEF LibFlush, Flushed
<1>. QED  BY <1>1, Zenon DEF FlushSettles

\* A flush follows the stream.
LEMMA LibFlushFollows ==
    ASSUME NEW j \in Jobs, NEW p \in Nat, NEW o, o \in Seq(Nat), NEW avail \in Nat,
           NEW room \in Nat, NEW c, TurnReads(j, p, o, avail, room, c),
           NEW e, e = LibFlush(c, room)
    PROVE  /\ TurnAlong(j, p, o, avail, room, e)
           /\ e.stop = "go" => e.used = c.used
           /\ e.stop \in {"go", "full", "frame"}
<1>. DEFINE k == LeastOf(Len(c.l.pend), room - Len(c.bytes))
            x == SubSeq(c.l.pend, 1, k)
            y == SubSeq(c.l.pend, k + 1, Len(c.l.pend))
            d == Flushed(c, x, y)
            q == Place(c.l, p + c.used)
            v == o \o d.bytes
<1>0. /\ c \in CallRecord /\ c.stop = "go" /\ c.used <= avail /\ Len(c.bytes) <= room
      /\ LibStands(j, c.l, q, o \o c.bytes)
      /\ c.l.hostage => c.l.stage = "done" /\ c.used < avail
      /\ c.l.stage = "done" /\ ~c.l.hostage => c.used > 0
      /\ c.l \in LibRecord /\ c.l.pend \in Seq(Nat) /\ c.bytes \in Seq(Nat) /\ c.used \in Nat
      /\ Len(c.bytes) \in Nat /\ c.l.hostage \in BOOLEAN
  BY DEF TurnReads, CallRecord, LibRecord
<1>1. /\ x \in Seq(Nat) /\ y \in Seq(Nat) /\ x \o y = c.l.pend
      /\ y # <<>> => Len(c.bytes) + Len(x) = room /\ Len(y) > 0
  <2>. DEFINE s == c.l.pend  n == Len(c.bytes)
  <2>1. s \in Seq(Nat) /\ n \in Nat /\ n <= room
    BY <1>0
  <2>2. k = LeastOf(Len(s), room - n) /\ x = SubSeq(s, 1, k) /\ y = SubSeq(s, k + 1, Len(s))
    OBVIOUS
  <2>. HIDE DEF s, n, k, x, y
  <2>3. /\ x \in Seq(Nat) /\ y \in Seq(Nat) /\ x \o y = s
        /\ y # <<>> => n + Len(x) = room /\ Len(y) > 0
    <3>1. Split(s, n, room, x, y)
      BY <2>1, <2>2, FlushSplits
    <3>. QED  BY <3>1 DEF Split
  <2>. QED  BY <2>3 DEF s, n
<1>2. /\ d.l.pend # <<>> /\ d.l.stage = "done" /\ ~d.l.hostage =>
           e = [d EXCEPT !.stop = "full", !.l.hostage = TRUE, !.used = @ - 1]
      /\ d.l.pend # <<>> /\ ~(d.l.stage = "done" /\ ~d.l.hostage) =>
           e = [d EXCEPT !.stop = "full"]
      /\ d.l.pend = <<>> /\ d.l.stage = "done" /\ ~d.l.hostage =>
           e = [d EXCEPT !.stop = "frame", !.l = FreshLib]
      /\ d.l.pend = <<>> /\ ~(d.l.stage = "done" /\ ~d.l.hostage) => e = d
  <2>1. FlushSettles(d, LibFlush(c, room))
    BY LibFlushIs
  <2>. HIDE DEF d
  <2>. QED  BY <2>1 DEF FlushSettles
<1>. HIDE DEF k, x, y
<1>3. /\ d \in CallRecord /\ d.bytes = c.bytes \o x /\ d.used = c.used /\ d.stop = c.stop
      /\ d.l \in LibRecord /\ d.l.pend = y /\ d.l.stage = c.l.stage
      /\ d.l.seen = c.l.seen /\ d.l.n = c.l.n /\ d.l.check = c.l.check
      /\ d.l.hostage = c.l.hostage
  <2>1. FlushedLike(c, x, y, d)
    BY <1>0, <1>1, FlushedIs
  <2>. HIDE DEF d
  <2>. QED  BY <2>1 DEF FlushedLike
<1>. HIDE DEF d
<1>4. /\ v \in Seq(Nat) /\ v \o y = (o \o c.bytes) \o c.l.pend
      /\ y # <<>> => Len(d.bytes) = room
  <2>1. v = (o \o c.bytes) \o x
    <3>1. v = o \o (c.bytes \o x)
      BY <1>3
    <3>2. (o \o c.bytes) \o x = o \o (c.bytes \o x)
      BY <1>0, <1>1, JoinedAgain
    <3>. QED  BY <3>1, <3>2
  <2>2. o \o c.bytes \in Seq(Nat)
    BY <1>0, Joined
  <2>3. v \in Seq(Nat) /\ v \o y = (o \o c.bytes) \o (x \o y)
    <3>. DEFINE w == o \o c.bytes
    <3>1. w \in Seq(Nat) /\ v = w \o x
      BY <2>1, <2>2
    <3>. HIDE DEF w, v
    <3>2. v \in Seq(Nat) /\ (w \o x) \o y = w \o (x \o y)
      BY <1>1, <3>1, JoinedAgain, Joined
    <3>. QED  BY <3>1, <3>2 DEF w
  <2>4. Len(d.bytes) = Len(c.bytes) + Len(x)
    BY <1>0, <1>1, <1>3, Joined
  <2>. HIDE DEF v
  <2>. QED  BY <1>1, <2>3, <2>4
<1>5. /\ Readings(j)[q].out = v \o y /\ q \in 0 .. Len(j.input)
      /\ Readings(j)[q].err = ZU_OK
      /\ c.l.stage = "done" => Readings(j)[q].phase = "between" /\ Readings(j)[q].end = q
  <2>. HIDE DEF v, q
  <2>. QED  BY <1>0, <1>4 DEF LibStands
<1>6. y # <<>> => MoreComes(j, v)
  <2>. HIDE DEF v, q
  <2>. QED  BY <1>1, <1>4, <1>5, MoreIn
<1>7. \A m : /\ m.stage = c.l.stage /\ m.seen = c.l.seen /\ m.n = c.l.n
             /\ m.check = c.l.check /\ m.pend = y
             => LibStands(j, m, q, v)
  <2>. HIDE DEF v, q
  <2>. QED  BY <1>0, <1>4, StandsWith
<1>8. CASE d.l.pend # <<>> /\ d.l.stage = "done" /\ ~d.l.hostage
  <2>. DEFINE m == [d.l EXCEPT !.hostage = TRUE]  u == d.used - 1
  <2>1. /\ m.stage = c.l.stage /\ m.seen = c.l.seen /\ m.n = c.l.n
        /\ m.check = c.l.check /\ m.pend = y /\ m.hostage = TRUE
    BY <1>3 DEF LibRecord
  <2>2. e = [d EXCEPT !.stop = "full", !.l = m, !.used = u]
    BY <1>2, <1>3, <1>8 DEF CallRecord
  <2>. HIDE DEF m, u
  <2>3. e.stop = "full" /\ e.l = m /\ e.used = u /\ e.bytes = d.bytes
    BY <1>3, <2>2 DEF CallRecord
  <2>4. u < avail /\ p + u + 1 = p + c.used
    BY <1>0, <1>3, <1>8 DEF u
  <2>5. Place(e.l, p + e.used) = q
    <3>1. ~c.l.hostage
      BY <1>3, <1>8
    <3>. QED  BY <2>1, <2>3, <2>4, <3>1 DEF Place
  <2>6. LibStands(j, e.l, Place(e.l, p + e.used), o \o e.bytes)
    BY <1>7, <2>1, <2>3, <2>5
  <2>. HIDE DEF q
  <2>. QED  BY <1>3, <1>4, <1>6, <1>8, <2>1, <2>3, <2>4, <2>6 DEF TurnAlong, v
<1>9. CASE d.l.pend # <<>> /\ ~(d.l.stage = "done" /\ ~d.l.hostage)
  <2>1. e = [d EXCEPT !.stop = "full"]
    BY <1>2, <1>9
  <2>2. e.stop = "full" /\ e.l = d.l /\ e.used = c.used /\ e.bytes = d.bytes
    BY <1>3, <2>1 DEF CallRecord
  <2>3. Place(e.l, p + e.used) = q
    BY <1>3, <2>2 DEF Place
  <2>4. LibStands(j, e.l, Place(e.l, p + e.used), o \o e.bytes)
    BY <1>3, <1>7, <2>2, <2>3
  <2>. HIDE DEF q
  <2>. QED  BY <1>0, <1>3, <1>4, <1>6, <1>9, <2>2, <2>4 DEF TurnAlong, v
<1>10. CASE d.l.pend = <<>> /\ d.l.stage = "done" /\ ~d.l.hostage
  <2>1. e = [d EXCEPT !.stop = "frame", !.l = FreshLib]
    BY <1>2, <1>10
  <2>2. e.stop = "frame" /\ e.l = FreshLib /\ e.used = c.used /\ e.bytes = d.bytes
    BY <1>3, <2>1 DEF CallRecord
  <2>3. q = p + e.used
    BY <1>3, <1>10, <2>2 DEF Place
  <2>4. v \o y = v
    BY <1>3, <1>4, <1>10, NothingJoined
  <2>5. FrameEnds(j, p + e.used, o \o e.bytes)
    <3>1. o \o e.bytes = v
      BY <2>2
    <3>. HIDE DEF v, q
    <3>. QED  BY <1>3, <1>5, <1>10, <2>3, <2>4, <3>1 DEF FrameEnds
  <2>. HIDE DEF q, v
  <2>. QED  BY <2>2, <2>5 DEF TurnAlong
<1>11. CASE d.l.pend = <<>> /\ ~(d.l.stage = "done" /\ ~d.l.hostage)
  <2>1. e = d
    BY <1>2, <1>11
  <2>2. e.stop = "go" /\ e.used = c.used
    BY <1>0, <1>3, <2>1
  <2>3. Place(e.l, p + e.used) = q
    BY <1>3, <2>1 DEF Place
  <2>4. LibStands(j, e.l, Place(e.l, p + e.used), o \o e.bytes)
    BY <1>3, <1>7, <2>1, <2>3
  <2>. HIDE DEF q, v
  <2>. QED  BY <1>0, <1>3, <1>11, <2>1, <2>2, <2>4 DEF TurnAlong
<1>. HIDE DEF q, v
<1>. QED  BY <1>8, <1>9, <1>10, <1>11

\* The ways a call of the library goes on.
TurnIs(c, avail, room, r, e) ==
    \/ c.stop # "go" /\ e = c
    \/ c.stop = "go" /\ c.used = avail /\ e = [c EXCEPT !.stop = "starved"]
    \/ /\ c.stop = "go" /\ c.used # avail /\ c.l.hostage
       /\ e = [c EXCEPT !.stop = "frame", !.l = FreshLib, !.used = @ + 1]
    \/ /\ c.stop = "go" /\ c.used # avail /\ ~c.l.hostage
       /\ c.l.stage = "block" /\ Ahead(c.used + 1)[1] = "raw" /\ Len(c.bytes) = room
       /\ e = [c EXCEPT !.stop = "full"]
    \/ /\ c.stop = "go" /\ c.used # avail /\ ~c.l.hostage
       /\ r.err # ZU_OK /\ e = [c EXCEPT !.stop = "error", !.err = r.err]
    \/ /\ c.stop = "go" /\ c.used # avail /\ ~c.l.hostage
       /\ r.err = ZU_OK /\ e = LibFlush([c EXCEPT !.l = r.l, !.used = @ + 1], room)

\* They are all.
LEMMA LibTurnIs ==
    ASSUME NEW c, NEW avail, NEW room
    PROVE  TurnIs(c, avail, room, LibRead(c.l, pos + c.used + 1), LibTurn(c, avail, room))
<1>. DEFINE r == LibRead(c.l, pos + c.used + 1)
            raw == /\ job.wrap = "lz4" /\ c.l.stage = "block" /\ Ahead(c.used + 1)[1] = "raw"
                   /\ Len(c.bytes) = room
            e == LibTurn(c, avail, room)
<1>1. e = IF c.stop # "go" THEN c
          ELSE IF c.used = avail THEN [c EXCEPT !.stop = "starved"]
          ELSE IF c.l.hostage
            THEN [c EXCEPT !.stop = "frame", !.l = FreshLib, !.used = @ + 1]
          ELSE IF raw THEN [c EXCEPT !.stop = "full"]
          ELSE IF r.err # ZU_OK THEN [c EXCEPT !.stop = "error", !.err = r.err]
          ELSE LibFlush([c EXCEPT !.l = r.l, !.used = @ + 1], room)
  BY Zenon DEF LibTurn
<1>2. raw => /\ c.l.stage = "block" /\ Ahead(c.used + 1)[1] = "raw" /\ Len(c.bytes) = room
  OBVIOUS
<1>. HIDE DEF r, raw, e
<1>3. TurnIs(c, avail, room, r, e)
  BY <1>1, <1>2, Zenon DEF TurnIs
<1>. QED  BY <1>3 DEF r, e

\* With a raw byte ahead, more comes.
LEMMA RawComes ==
    ASSUME NEW j \in Jobs, NEW q \in Nat, q < Len(j.input), NEW l, NEW o, o \in Seq(Nat),
           LibStands(j, l, q, o), l.stage = "block", l.pend = <<>>,
           j.input[q + 1][1] = "raw"
    PROVE  MoreComes(j, o)
<1>. DEFINE i == q + 1
            r == Readings(j)[q]
            s == Readings(j)[i]
            y == BytesAt(j.input, i)
<1>1. /\ r \in RefRecord /\ s = RefStep(j, r, i) /\ r.err = ZU_OK /\ r.phase = "block"
      /\ r.out = o
  <2>1. r.out = o \o l.pend /\ r.err = ZU_OK /\ r.phase = "block"
    BY DEF LibStands
  <2>2. r \in RefRecord /\ s = RefStep(j, r, i)
    BY ReadNext
  <2>. QED  BY <2>1, <2>2, NothingJoined
<1>2. i \in 1 .. Len(j.input) /\ i \in 0 .. Len(j.input)
  <2>1. Len(j.input) \in Nat
    BY JobTypes
  <2>. QED  BY <2>1
<1>3. y \in Seq(Nat) /\ Len(y) > 0
  <2>1. j.input[i][2] = 1
    BY <1>2, RawAssumption
  <2>2. y \in Seq(Nat) /\ Len(y) = j.input[i][2]
    BY <1>2, TokenBytesAt
  <2>. HIDE DEF y, i
  <2>. QED  BY <2>1, <2>2
<1>4. s = RefTaken(j, r, i)
  <2>1. j.input[i][1] \in {"lit", "raw"}
    OBVIOUS
  <2>. HIDE DEF i, r, s
  <2>. QED  BY <1>1, <2>1, RefInBlock
<1>5. s.out = o \o y
  <2>. HIDE DEF i, r, s
  <2>. QED  BY <1>1, <1>2, <1>4, RefTakenIs DEF y
<1>. QED  BY <1>2, <1>3, <1>5, MoreIn

\* One more turn follows the stream.
LEMMA LibTurnFollows ==
    ASSUME LoopInv, NEW avail, Visible(avail), NEW room, room \in Nat, NEW o, o \in Seq(Nat),
           NEW c, TurnOk(c, avail, room), TurnAlong(job, pos, o, avail, room, c),
           NEW k \in Nat, c.stop = "go" => c.used = k,
           NEW e, e = LibTurn(c, avail, room)
    PROVE  TurnAlong(job, pos, o, avail, room, e) /\ (e.stop = "go" => e.used = k + 1)
<1>. DEFINE r == LibRead(c.l, pos + c.used + 1)
            q == pos + c.used
<1>0. /\ job \in Jobs /\ pos \in Nat /\ avail \in Nat /\ pos + avail <= Len(job.input)
      /\ Len(job.input) \in Nat
      /\ c \in CallRecord /\ c.used \in Nat /\ c.used <= avail /\ Len(c.bytes) <= room
      /\ c.l \in LibRecord /\ c.l.hostage \in BOOLEAN /\ c.bytes \in Seq(Nat) /\ c.err \in Status
      /\ (c.l.stage = "done" => c.l.hostage)
  BY LoopFacts DEF Visible, TurnOk, CallRecord, LibOk, LibRecord
<1>1. TurnIs(c, avail, room, r, e)
  BY LibTurnIs
<1>2. c.stop = "go" => /\ LibStands(job, c.l, Place(c.l, q), o \o c.bytes)
                       /\ c.l.pend = <<>>
                       /\ c.l.hostage => c.l.stage = "done" /\ c.used < avail
  BY DEF TurnAlong
<1>3. o \o c.bytes \in Seq(Nat)
  BY <1>0, Joined
<1>4. CASE c.stop # "go" /\ e = c
  BY <1>4
<1>5. CASE c.stop = "go" /\ c.used = avail /\ e = [c EXCEPT !.stop = "starved"]
  <2>1. e.stop = "starved" /\ e.l = c.l /\ e.used = c.used /\ e.bytes = c.bytes
    BY <1>0, <1>5 DEF CallRecord
  <2>. QED  BY <1>2, <1>5, <2>1 DEF TurnAlong
<1>6. CASE c.stop = "go" /\ c.used # avail /\ c.l.hostage
           /\ e = [c EXCEPT !.stop = "frame", !.l = FreshLib, !.used = @ + 1]
  <2>1. e.stop = "frame" /\ e.l = FreshLib /\ e.used = c.used + 1 /\ e.bytes = c.bytes
    BY <1>0, <1>6 DEF CallRecord
  <2>2. Place(c.l, q) = q + 1 /\ q + 1 = pos + e.used
    BY <1>0, <1>6, <2>1 DEF Place
  <2>3. LibStands(job, c.l, q + 1, o \o c.bytes) /\ c.l.pend = <<>> /\ c.l.stage = "done"
    BY <1>2, <1>6, <2>2
  <2>. HIDE DEF q
  <2>4. FrameEnds(job, pos + e.used, o \o e.bytes)
    BY <1>3, <2>1, <2>2, <2>3, NothingJoined DEF FrameEnds, LibStands
  <2>. QED  BY <2>1, <2>4 DEF TurnAlong
<1>7. ASSUME c.stop = "go", c.used # avail, ~c.l.hostage
      PROVE  /\ q \in Nat /\ q < Len(job.input) /\ LibStands(job, c.l, q, o \o c.bytes)
             /\ c.l.stage # "done" /\ c.l.pend = <<>> /\ c.used < avail
             /\ c.used + 1 \in Nat /\ c.used + 1 <= avail /\ c.used + 1 > 0
             /\ pos + (c.used + 1) = q + 1
  <2>1. q \in Nat /\ q < Len(job.input) /\ c.used < avail /\ c.used + 1 \in Nat
        /\ c.used + 1 <= avail /\ pos + (c.used + 1) = q + 1 /\ c.used + 1 > 0
    BY <1>0, <1>7
  <2>2. Place(c.l, q) = q
    BY <1>7 DEF Place
  <2>. HIDE DEF q
  <2>. QED  BY <1>0, <1>2, <1>7, <2>1, <2>2
<1>8. CASE c.stop = "go" /\ c.used # avail /\ ~c.l.hostage
           /\ c.l.stage = "block" /\ Ahead(c.used + 1)[1] = "raw" /\ Len(c.bytes) = room
           /\ e = [c EXCEPT !.stop = "full"]
  <2>1. e.stop = "full" /\ e.l = c.l /\ e.used = c.used /\ e.bytes = c.bytes
    BY <1>0, <1>8 DEF CallRecord
  <2>2. job.input[q + 1][1] = "raw"
    BY <1>7, <1>8 DEF Ahead
  <2>3. MoreComes(job, o \o c.bytes)
    <3>. HIDE DEF q
    <3>. QED  BY <1>0, <1>3, <1>7, <1>8, <2>2, RawComes
  <2>. QED  BY <1>2, <1>8, <2>1, <2>3 DEF TurnAlong
<1>9. ASSUME c.stop = "go", c.used # avail, ~c.l.hostage
      PROVE  ReadGood(job, r, q, o \o c.bytes)
  <2>1. r = LibRead(c.l, q + 1)
    OBVIOUS
  <2>. HIDE DEF q, r
  <2>. QED  BY <1>0, <1>3, <1>7, <1>9, <2>1, LibReadFollows
<1>10. ASSUME c.stop = "go", c.used # avail, ~c.l.hostage
       PROVE  r.l \in LibRecord /\ r.l.hostage = FALSE /\ r.err \in Status
  <2>1. q + 1 \in 1 .. Len(job.input) /\ r = LibRead(c.l, q + 1) /\ c.l.hostage = FALSE
    <3>1. q \in Nat /\ q < Len(job.input) /\ Len(job.input) \in Nat
      BY <1>0, <1>7, <1>10
    <3>2. r = LibRead(c.l, q + 1)
      OBVIOUS
    <3>3. c.l.hostage = FALSE
      BY <1>0, <1>10
    <3>. HIDE DEF q, r
    <3>4. q + 1 \in 1 .. Len(job.input)
      BY <3>1
    <3>. QED  BY <3>2, <3>3, <3>4
  <2>. HIDE DEF q, r
  <2>. QED  BY <1>0, <1>7, <1>10, <2>1, LibReadKeeps
<1>. HIDE DEF r
<1>11. CASE c.stop = "go" /\ c.used # avail /\ ~c.l.hostage
            /\ r.err # ZU_OK /\ e = [c EXCEPT !.stop = "error", !.err = r.err]
  <2>1. e.stop = "error" /\ e.err = r.err /\ e.used = c.used /\ e.bytes = c.bytes
    BY <1>0, <1>11 DEF CallRecord
  <2>2. Readings(job)[q + 1].err = r.err /\ Readings(job)[q + 1].out = o \o c.bytes
    BY <1>9, <1>11 DEF ReadGood
  <2>. QED  BY <1>7, <1>11, <2>1, <2>2 DEF TurnAlong
<1>12. CASE c.stop = "go" /\ c.used # avail /\ ~c.l.hostage
            /\ r.err = ZU_OK /\ e = LibFlush([c EXCEPT !.l = r.l, !.used = @ + 1], room)
  <2>. DEFINE d == [c EXCEPT !.l = r.l, !.used = @ + 1]
  <2>1. d \in CallRecord
    BY <1>0, <1>7, <1>10, <1>12 DEF CallRecord
  <2>2. d.l = r.l /\ d.used = c.used + 1 /\ d.bytes = c.bytes /\ d.stop = "go"
    BY <1>0, <1>12 DEF CallRecord
  <2>3. e = LibFlush(d, room)
    BY <1>12
  <2>. HIDE DEF d
  <2>4. Place(d.l, pos + d.used) = q + 1
    <3>1. pos + d.used = q + 1 /\ ~d.l.hostage
      BY <1>7, <1>10, <1>12, <2>2
    <3>. QED  BY <3>1 DEF Place
  <2>5. LibStands(job, r.l, q + 1, o \o c.bytes)
    BY <1>9, <1>12 DEF ReadGood
  <2>6. TurnReads(job, pos, o, avail, room, d)
    <3>1. LibStands(job, d.l, Place(d.l, pos + d.used), o \o d.bytes)
      BY <2>2, <2>4, <2>5
    <3>2. d.used <= avail /\ Len(d.bytes) <= room /\ d.used > 0 /\ ~d.l.hostage
      BY <1>0, <1>7, <1>10, <1>12, <2>2
    <3>. QED  BY <2>1, <2>2, <3>1, <3>2 DEF TurnReads
  <2>7. /\ TurnAlong(job, pos, o, avail, room, e)
        /\ e.stop = "go" => e.used = d.used
    BY <1>0, <2>3, <2>6, LibFlushFollows
  <2>. QED  BY <1>12, <2>2, <2>7
<1>. QED  BY <1>1, <1>4, <1>5, <1>6, <1>8, <1>11, <1>12 DEF TurnIs

\* A call of the library follows the stream, and ends.
LEMMA DecompressFollows ==
    ASSUME LoopInv, LibOk(lib), NEW avail, Visible(avail), NEW room, room \in Nat,
           NEW o, o \in Seq(Nat), LibStands(job, lib, Place(lib, pos), o),
           lib.hostage => lib.stage = "done" /\ 0 < avail,
           NEW c, c = Decompress(avail, room)
    PROVE  /\ TurnAlong(job, pos, o, avail, room, c) /\ TurnOk(c, avail, room)
           /\ c.stop # "go"
<1>. DEFINE N == avail + 1
<1>0. /\ avail \in Nat /\ N \in Nat /\ N \in 0 .. N /\ 0 \in 0 .. N
      /\ job \in Jobs /\ pos \in Nat
  BY LoopFacts DEF Visible
<1>1. PICK turn : Turns(turn, avail, room)
  BY DecompressTurns
<1>2. /\ turn[0] = LibFlush(CallStart, room)
      /\ \A k \in 1 .. N : turn[k] = LibTurn(turn[k - 1], avail, room)
      /\ \A k \in 0 .. N : TurnOk(turn[k], avail, room)
      /\ c = turn[N]
  BY <1>1 DEF Turns
<1>. HIDE DEF N
<1>. DEFINE Good(k) == /\ TurnAlong(job, pos, o, avail, room, turn[k])
                       /\ turn[k].stop = "go" => turn[k].used = k
            P == {k \in 0 .. N : Good(k)}
<1>3. Good(0)
  <2>1. /\ CallStart.l = lib /\ CallStart.used = 0 /\ CallStart.bytes = <<>>
        /\ CallStart.stop = "go" /\ CallStart \in CallRecord
    BY DEF CallStart, LibOk, CallRecord, Status, Progress
  <2>2. TurnReads(job, pos, o, avail, room, CallStart)
    <3>1. Len(CallStart.bytes) <= room /\ CallStart.used <= avail
      BY <1>0, <2>1
    <3>2. o \o CallStart.bytes = o /\ pos + CallStart.used = pos
      BY <1>0, <2>1, NothingJoined
    <3>3. CallStart.l.stage = "done" => CallStart.l.hostage
      BY <2>1 DEF LibOk
    <3>. QED  BY <2>1, <3>1, <3>2, <3>3 DEF TurnReads
  <2>3. /\ TurnAlong(job, pos, o, avail, room, turn[0])
        /\ turn[0].stop = "go" => turn[0].used = 0
    BY <1>0, <1>2, <2>1, <2>2, LibFlushFollows
  <2>. QED  BY <2>3
<1>4. \A k \in 0 .. N : k \in P /\ k < N => k + 1 \in P
  <2>. SUFFICES ASSUME NEW k \in 0 .. N, k \in P, k < N PROVE k + 1 \in P
    OBVIOUS
  <2>1. k \in Nat /\ k + 1 \in 1 .. N /\ k + 1 \in 0 .. N /\ (k + 1) - 1 = k
    BY <1>0
  <2>2. turn[k + 1] = LibTurn(turn[k], avail, room) /\ TurnOk(turn[k], avail, room)
    BY <1>2, <2>1
  <2>3. /\ TurnAlong(job, pos, o, avail, room, turn[k])
        /\ turn[k].stop = "go" => turn[k].used = k
    OBVIOUS
  <2>4. /\ TurnAlong(job, pos, o, avail, room, turn[k + 1])
        /\ turn[k + 1].stop = "go" => turn[k + 1].used = k + 1
    BY <2>1, <2>2, <2>3, LibTurnFollows
  <2>. QED  BY <2>1, <2>4
<1>5. \A k \in 0 .. N : k \in P
  <2>1. 0 \in P
    BY <1>0, <1>3
  <2>. HIDE DEF P
  <2>. QED  BY ONLY <1>0, <1>4, <2>1, UpTo
<1>6. Good(N) /\ TurnOk(turn[N], avail, room)
  BY <1>0, <1>2, <1>5
<1>7. c.stop = "go" => FALSE
  <2>1. c.stop = "go" => c.used = avail + 1
    BY <1>2, <1>6 DEF N
  <2>2. c.used <= avail
    BY <1>2, <1>6 DEF TurnOk
  <2>. QED  BY <1>0, <2>1, <2>2
<1>. QED  BY <1>2, <1>6, <1>7

----------------------------------------------------------------------------
(***************************************************************************)
(* The turns of a framed decoder, along the stream.                        *)
(***************************************************************************)
\* How a turn leaves the cursors and the codec.
FrameTurned(p, o) ==
    /\ Held(ReferenceOf(job), o)
    /\ \/ Continue(p, o) /\ FrameAlong(job, fed, p, o, f', lib')
       \/ \E st \in Status :
            /\ Return(st, p, o)
            /\ FrameJudged(job, fed, flush, call.out + call.allowance, st, p, o)
            /\ st \in {ZU_NEED_INPUT, ZU_NEED_OUTPUT} => FrameAlong(job, fed, p, o, f', lib')

\* What has been written, with what is owed, is the stream's.
LEMMA FrameAlongHolds ==
    ASSUME NEW j \in Jobs, NEW fedTo, NEW p \in 0 .. Len(j.input), NEW o, o \in Seq(Nat),
           NEW g, FramesOk(g), NEW l, LibOk(l), FrameAlong(j, fedTo, p, o, g, l)
    PROVE  /\ Held(ReferenceOf(j), o \o g.owed) /\ Held(ReferenceOf(j), o)
           /\ o \o g.owed \in Seq(Nat) /\ g.owed \in Seq(Nat)
<1>. DEFINE w == o \o g.owed
<1>0. /\ g.owed \in Seq(Nat) /\ g.state \in {"BODY", "BETWEEN", "DONE"}
      /\ l.pend \in Seq(Nat)
  BY DEF FramesOk, FrameRecord, LibOk, LibRecord
<1>1. w \in Seq(Nat)
  BY <1>0, Joined
<1>2. \E q \in 0 .. Len(j.input), u \in Seq(Nat) : Readings(j)[q].out = w \o u
  <2>1. CASE g.state = "BODY"
    <3>1. LibStands(j, l, Place(l, p), w)
      BY <2>1 DEF FrameAlong
    <3>. HIDE DEF w
    <3>. QED  BY <1>0, <3>1 DEF LibStands
  <2>2. CASE g.state = "BETWEEN"
    <3>1. FrameEnds(j, p - Len(g.held), w)
      BY <2>2 DEF FrameAlong
    <3>. HIDE DEF w
    <3>2. w \o <<>> = w /\ <<>> \in Seq(Nat)
      BY <1>1, NothingJoined
    <3>. QED  BY <3>1, <3>2 DEF FrameEnds
  <2>3. g.state # "DONE"
    BY DEF FrameAlong
  <2>. QED  BY <1>0, <2>1, <2>2, <2>3
<1>3. PICK q \in 0 .. Len(j.input), u \in Seq(Nat) : Readings(j)[q].out = w \o u
  BY <1>2
<1>4. /\ Readings(j)[q] \in RefRecord /\ ReferenceOf(j) \in RefRecord
      /\ Grown(Readings(j)[q], ReferenceOf(j))
  BY ReferenceGrows
<1>5. Held(Readings(j)[q], w)
  BY <1>3 DEF Held
<1>6. Held(Readings(j)[q], o)
  <2>1. w \o u = o \o (g.owed \o u)
    BY <1>0, JoinedAgain
  <2>2. g.owed \o u \in Seq(Nat)
    BY <1>0, Joined
  <2>. QED  BY <1>3, <2>1, <2>2 DEF Held
<1>. HIDE DEF w
<1>7. Held(ReferenceOf(j), w) /\ Held(ReferenceOf(j), o)
  BY <1>1, <1>4, <1>5, <1>6, HeldOn
<1>. QED  BY <1>0, <1>1, <1>7 DEF w

\* What is owed may be written.
LEMMA FrameAlongWith ==
    ASSUME NEW j, NEW fedTo, NEW p, NEW o, NEW g, NEW l, FrameAlong(j, fedTo, p, o, g, l),
           NEW v, NEW h, h.state = g.state, h.held = g.held, v \o h.owed = o \o g.owed
    PROVE  FrameAlong(j, fedTo, p, v, h, l)
BY DEF FrameAlong

\* Where the codec is when it is called.
FramedCall ==
    /\ job \in Jobs /\ Len(job.input) \in Nat
    /\ pos \in Nat /\ fed \in Nat /\ pos <= fed /\ fed <= Len(job.input)
    /\ pos \in 0 .. Len(job.input)
    /\ AvailIn \in Nat /\ AvailIn = fed - pos
    /\ AvailOut \in Nat /\ Len(out) + AvailOut = call.out + call.allowance
    /\ out \in Seq(Nat) /\ Len(out) \in Nat
    /\ f \in FrameRecord /\ Len(f.owed) <= 1
    /\ f.held \in Seq(STRING \X Nat) /\ Len(f.held) \in Nat /\ Len(f.held) < 4
    /\ IsMagicPrefix(f.held)
    /\ LibOk(lib) /\ lib \in LibRecord
    /\ flush = ZU_FINISH <=> fed = Len(job.input)

\* What is known at the start of a call of a framed decoder.
LEMMA FramedCallIs ==
    ASSUME LoopInv, FrameInv, pc = "codec"
    PROVE  FramedCall
<1>1. /\ job \in Jobs /\ Len(job.input) \in Nat
      /\ pos \in Nat /\ fed \in Nat /\ pos <= fed /\ fed <= Len(job.input)
      /\ out \in Seq(Nat) /\ Len(out) \in Nat
  BY LoopFacts
<1>2. /\ AvailIn \in Nat /\ AvailIn = fed - pos
      /\ AvailOut \in Nat /\ Len(out) + AvailOut = call.out + call.allowance
  BY VisibleFacts
<1>3. flush = ZU_FINISH <=> fed = Len(job.input)
  BY DEF LoopInv, CallInProgress
<1>4. /\ f \in FrameRecord /\ Len(f.owed) <= 1
      /\ f.held \in Seq(STRING \X Nat) /\ Len(f.held) \in Nat /\ Len(f.held) < 4
      /\ IsMagicPrefix(f.held)
      /\ LibOk(lib) /\ lib \in LibRecord
  BY DEF FrameInv, FramesOk, FrameRecord, LibOk
<1>5. pos \in 0 .. Len(job.input)
  BY <1>1
<1>. QED  BY <1>1, <1>2, <1>3, <1>4, <1>5 DEF FramedCall

\* Going on.
LEMMA FrameGoesOn ==
    ASSUME job \in Jobs, NEW p \in 0 .. Len(job.input), NEW o, o \in Seq(Nat), Continue(p, o),
           FramesOk(f'), LibOk(lib'), FrameAlong(job, fed, p, o, f', lib')
    PROVE  FrameTurned(p, o)
<1>1. Held(ReferenceOf(job), o)
  BY FrameAlongHolds
<1>. QED  BY <1>1 DEF FrameTurned

\* Waiting for input.
LEMMA FrameWaits ==
    ASSUME job \in Jobs, NEW p \in 0 .. Len(job.input), NEW o, o \in Seq(Nat),
           Return(ZU_NEED_INPUT, p, o), flush # ZU_FINISH, p = fed,
           FramesOk(f'), LibOk(lib'), FrameAlong(job, fed, p, o, f', lib')
    PROVE  FrameTurned(p, o)
<1>1. Held(ReferenceOf(job), o)
  BY FrameAlongHolds
<1>2. ZU_NEED_INPUT \in Status
  BY DEF Status, Progress
<1>3. FrameJudged(job, fed, flush, call.out + call.allowance, ZU_NEED_INPUT, p, o)
  BY Words DEF FrameJudged
<1>. QED  BY <1>1, <1>2, <1>3 DEF FrameTurned

\* Waiting for room.
LEMMA FrameWantsRoom ==
    ASSUME job \in Jobs, NEW p \in 0 .. Len(job.input), NEW o, o \in Seq(Nat),
           Return(ZU_NEED_OUTPUT, p, o), Len(o) = call.out + call.allowance,
           Len(ReferenceOf(job).out) > Len(o),
           FramesOk(f'), LibOk(lib'), FrameAlong(job, fed, p, o, f', lib')
    PROVE  FrameTurned(p, o)
<1>1. Held(ReferenceOf(job), o)
  BY FrameAlongHolds
<1>2. ZU_NEED_OUTPUT \in Status
  BY DEF Status, Progress
<1>3. FrameJudged(job, fed, flush, call.out + call.allowance, ZU_NEED_OUTPUT, p, o)
  BY Words DEF FrameJudged
<1>. QED  BY <1>1, <1>2, <1>3 DEF FrameTurned

\* An error of the stream's.
LEMMA FrameFails ==
    ASSUME NEW p, NEW o, Held(ReferenceOf(job), o), NEW e, e \in Errors, e # ZU_ERR_MEMORY,
           Return(e, p, o), VerdictOn(job, ReferenceOf(job)) = e,
           Len(ReferenceOf(job).out) <= call.out + call.allowance,
           p # fed => ReferenceOf(job).err # ZU_OK,
           e = ZU_ERR_TRAILING /\ job.driver = "whole" => HeldTail(job, ReferenceOf(job).end)
    PROVE  FrameTurned(p, o)
<1>1. e \in Status
  BY DEF Status
<1>2. e \notin {ZU_OK, ZU_NEED_INPUT, ZU_NEED_OUTPUT, ZU_STREAM_END}
  BY Words
<1>3. FrameJudged(job, fed, flush, call.out + call.allowance, e, p, o)
  BY <1>2 DEF FrameJudged
<1>. QED  BY <1>1, <1>2, <1>3 DEF FrameTurned

\* The end.
LEMMA FrameEndsStream ==
    ASSUME job \in Jobs, NEW p, NEW o, o \in Seq(Nat), Return(ZU_STREAM_END, p, o),
           StreamEndsAt(job, fed, p, o)
    PROVE  FrameTurned(p, o)
<1>1. ZU_STREAM_END \in Status
  BY DEF Status, Progress
<1>2. FrameJudged(job, fed, flush, call.out + call.allowance, ZU_STREAM_END, p, o)
  BY Words DEF FrameJudged
<1>3. Held(ReferenceOf(job), o)
  <2>1. 0 \in 0 .. Len(job.input)
    BY JobTypes
  <2>2. ReferenceOf(job) \in RefRecord
    BY <2>1, ReferenceGrows
  <2>3. ReferenceOf(job).out = o
    BY DEF StreamEndsAt
  <2>. QED  BY <2>2, <2>3, HeldAll
<1>. QED  BY <1>1, <1>2, <1>3, Words DEF FrameTurned

\* What a step may do to the cursors.
LEMMA FrameAdvance ==
    ASSUME FramedCall, NEW p \in Nat, pos <= p, p <= fed, NEW w, w \in Seq(Nat),
           Len(w) <= AvailOut, NEW o, o = out \o w
    PROVE  /\ Advance(p, o) /\ o \in Seq(Nat) /\ Len(o) = Len(out) + Len(w) /\ Len(w) \in Nat
           /\ Len(o) \in Nat /\ Len(o) <= call.out + call.allowance /\ p \in 0 .. Len(job.input)
<1>1. /\ out \in Seq(Nat) /\ AvailOut \in Nat /\ Len(out) + AvailOut = call.out + call.allowance
      /\ pos \in Nat /\ fed \in Nat /\ fed <= Len(job.input) /\ Len(job.input) \in Nat
  BY DEF FramedCall
<1>2. o \in Seq(Nat) /\ Len(o) = Len(out) + Len(w) /\ Len(out) \in Nat /\ Len(w) \in Nat
  BY <1>1, Joined
<1>. DEFINE a == Len(out)  c == Len(w)  e == call.out + call.allowance  t == Len(o)
<1>3. a \in Nat /\ c \in Nat /\ c <= AvailOut /\ t = a + c /\ AvailOut \in Nat /\ a + AvailOut = e
  BY <1>1, <1>2
<1>. HIDE DEF a, c, e, t
<1>4. a <= t /\ t <= e /\ t \in Nat
  BY ONLY <1>3
<1>5. p \in pos .. fed /\ p \in 0 .. Len(job.input)
  BY <1>1
<1>6. Len(out) <= Len(o) /\ Len(o) <= call.out + call.allowance
  BY <1>4 DEF a, e, t
<1>7. Advance(p, o)
  BY <1>2, <1>5, <1>6 DEF Advance
<1>. QED  BY <1>2, <1>4, <1>5, <1>6, <1>7 DEF t

\* Without writing.
LEMMA FrameAdvanceIn ==
    ASSUME FramedCall, NEW p \in Nat, pos <= p, p <= fed
    PROVE  Advance(p, out) /\ p \in 0 .. Len(job.input) /\ Len(out) <= call.out + call.allowance
<1>1. <<>> \in Seq(Nat) /\ Len(<<>>) <= AvailOut /\ out = out \o <<>>
  BY NothingJoined DEF FramedCall
<1>. QED  BY <1>1, FrameAdvance

\* What is owed goes out first.
LEMMA PayAlong ==
    ASSUME LoopInv, FrameInv, FrameAlong(job, fed, pos, out, f, lib), Pay
    PROVE  \E p, o : Advance(p, o) /\ FrameTurned(p, o)
<1>0. pc = "codec" /\ f.owed # <<>> /\ lib' = lib
  BY DEF Pay
<1>1. FramedCall
  BY <1>0, FramedCallIs
<1>2. FramesOk(f') /\ LibOk(lib') /\ FramesOk(f) /\ LibOk(lib)
  BY PayStep DEF FrameInv
<1>. DEFINE w == out \o f.owed
<1>3. /\ job \in Jobs /\ pos \in 0 .. Len(job.input) /\ pos \in Nat /\ pos <= pos /\ pos <= fed
      /\ out \in Seq(Nat) /\ f.owed \in Seq(Nat) /\ Len(f.owed) \in Nat /\ Len(f.owed) <= 1
      /\ Len(f.owed) # 0
  BY <1>0, <1>1 DEF FramedCall, FrameRecord
<1>4. Held(ReferenceOf(job), w) /\ w \in Seq(Nat)
  BY <1>2, <1>3, FrameAlongHolds
<1>5. CASE AvailOut = 0
  <2>1. Return(ZU_NEED_OUTPUT, pos, out) /\ f' = f
    BY <1>5 DEF Pay
  <2>2. Len(ReferenceOf(job).out) > Len(out)
    <3>1. ReferenceOf(job) \in RefRecord
      BY <1>3, ReferenceGrows
    <3>. DEFINE r == ReferenceOf(job)  m == Len(r.out)
    <3>2. Len(w) <= m /\ m \in Nat /\ Len(w) = Len(out) + Len(f.owed) /\ Len(out) \in Nat
      BY <1>3, <1>4, <3>1, HeldIsPrefix, Joined
    <3>. HIDE DEF w, m
    <3>3. m > Len(out)
      BY <1>3, <3>2
    <3>. QED  BY <3>3 DEF m
  <2>3. Len(out) = call.out + call.allowance
    BY <1>1, <1>5 DEF FramedCall
  <2>4. FrameTurned(pos, out)
    BY <1>0, <1>2, <1>3, <2>1, <2>2, <2>3, FrameWantsRoom
  <2>. QED  BY <1>1, <1>3, <2>4, FrameAdvanceIn
<1>6. CASE AvailOut # 0
  <2>1. Continue(pos, w) /\ f' = [f EXCEPT !.owed = <<>>]
    BY <1>6 DEF Pay
  <2>2. Len(f.owed) <= AvailOut
    BY <1>1, <1>3, <1>6 DEF FramedCall
  <2>3. f'.state = f.state /\ f'.held = f.held /\ f'.owed = <<>>
    BY <1>1, <2>1 DEF FramedCall, FrameRecord
  <2>4. w \o <<>> = w
    BY <1>4, NothingJoined
  <2>5. FrameAlong(job, fed, pos, w, f', lib')
    BY <1>0, <2>3, <2>4, FrameAlongWith
  <2>6. Advance(pos, w)
    BY <1>1, <1>3, <2>2, FrameAdvance
  <2>. HIDE DEF w
  <2>7. FrameTurned(pos, w)
    BY <1>2, <1>3, <1>4, <2>1, <2>5, FrameGoesOn
  <2>. QED  BY <2>6, <2>7
<1>. QED  BY <1>5, <1>6

\* After its last frame a stream is at its end or in its tail.
LEMMA FrameLast ==
    ASSUME NEW j \in Jobs, NEW e, NEW o, FrameEnds(j, e, o),
           e < Len(j.input) => ~(j.opts.concat /\ FrameAt(j, e + 1)),
           NEW r, r = ReferenceOf(j)
    PROVE  /\ r.err = ZU_OK /\ r.out = o /\ r.end = e
           /\ r.phase = IF e = Len(j.input) THEN "between" ELSE "tail"
<1>. DEFINE q == Readings(j)[e]  N == Len(j.input)
<1>1. e \in 0 .. N /\ N \in Nat /\ q.err = ZU_OK /\ q.phase = "between" /\ q.end = e /\ q.out = o
  BY JobTypes DEF FrameEnds
<1>2. CASE e = N
  <2>1. r = q
    BY <1>1, <1>2, ReferenceGrows
  <2>. QED  BY <1>1, <1>2, <2>1
<1>3. CASE e # N
  <2>1. e \in Nat /\ e < N
    BY <1>1, <1>3
  <2>2. r.err = ZU_OK /\ r.out = q.out /\ r.end = q.end /\ r.phase = "tail"
    BY <1>1, <2>1, TailRead
  <2>. QED  BY <1>1, <1>3, <2>2
<1>. QED  BY <1>2, <1>3

\* The end of the stream, at most three bytes past its last frame.
LEMMA StreamEnds ==
    ASSUME NEW j \in Jobs, NEW e, NEW o, FrameEnds(j, e, o),
           e < Len(j.input) => ~(j.opts.concat /\ FrameAt(j, e + 1)),
           NEW p, e <= p, p <= e + 3, IsMagicPrefix(SubSeq(j.input, e + 1, p)),
           NEW fedTo, fedTo = p => \/ p = Len(j.input) /\ (e = p \/ ~j.opts.reject)
                                   \/ ~j.opts.concat /\ p = e,
           j.driver = "whole" /\ j.opts.reject => ~HeldTail(j, e)
    PROVE  StreamEndsAt(j, fedTo, p, o)
<1>. DEFINE r == ReferenceOf(j)
<1>1. /\ r.err = ZU_OK /\ r.out = o /\ r.end = e
      /\ r.phase = IF e = Len(j.input) THEN "between" ELSE "tail"
  BY FrameLast
<1>. HIDE DEF r
<1>2. r.phase = IF r.end = Len(j.input) THEN "between" ELSE "tail"
  BY <1>1
<1>. QED  BY <1>1, <1>2 DEF StreamEndsAt, r

\* Between two frames.
LEMMA BetweenStands ==
    ASSUME FramedCall, f.owed = <<>>, f.state = "BETWEEN",
           FrameAlong(job, fed, pos, out, f, lib)
    PROVE  /\ lib = FreshLib /\ Len(f.held) <= pos
           /\ FrameEnds(job, pos - Len(f.held), out)
           /\ f.held = SubSeq(job.input, pos - Len(f.held) + 1, pos)
           /\ f.held # <<>> => job.opts.concat
           /\ f.held # <<>> /\ job.driver = "whole" => CutAfter(job, pos - Len(f.held))
           /\ f.held = <<>> => FrameEnds(job, pos, out)
<1>1. /\ lib = FreshLib /\ Len(f.held) <= pos
      /\ FrameEnds(job, pos - Len(f.held), out \o f.owed)
      /\ f.held = SubSeq(job.input, pos - Len(f.held) + 1, pos)
      /\ f.held # <<>> => job.opts.concat
      /\ f.held # <<>> /\ job.driver = "whole" => CutAfter(job, pos - Len(f.held))
  BY DEF FrameAlong
<1>2. out \o f.owed = out
  BY NothingJoined DEF FramedCall
<1>3. FrameEnds(job, pos - Len(f.held), out)
  BY <1>1, <1>2
<1>4. f.held = <<>> => pos - Len(f.held) = pos
  BY DEF FramedCall
<1>5. f.held = <<>> => FrameEnds(job, pos, out)
  BY <1>3, <1>4
<1>. QED  BY <1>1, <1>3, <1>5

\* No window is a part of a magic.
LEMMA NoWindow ==
    ASSUME NEW j \in Jobs, NEW p \in 0 .. Len(j.input)
    PROVE  IsMagicPrefix(SubSeq(j.input, p + 1, p))
<1>1. p \in Nat /\ p <= p /\ p <= Len(j.input) /\ p - p = 0 /\ Len(j.input) \in Nat
  BY JobTypes
<1>2. SubSeq(j.input, p + 1, p) \in Seq(STRING \X Nat) /\ Len(SubSeq(j.input, p + 1, p)) = 0
  BY <1>1, WindowIs
<1>3. SubSeq(j.input, p + 1, p) = <<>>
  BY <1>2, EmptySeq
<1>. QED  BY <1>3, EmptyIsMagic

\* What begins a part of a magic is one.
LEMMA MagicPart ==
    ASSUME NEW j \in Jobs, NEW e \in Nat, NEW p \in Nat, e <= p, NEW n \in Nat, p <= n,
           n <= Len(j.input), IsMagicPrefix(SubSeq(j.input, e + 1, n))
    PROVE  IsMagicPrefix(SubSeq(j.input, e + 1, p))
<1>. DEFINE w == SubSeq(j.input, e + 1, n)  v == SubSeq(j.input, e + 1, p)  k == p - e
            N == Len(j.input)
<1>0. N \in Nat
  BY JobTypes
<1>1. /\ e <= n /\ p <= N /\ k \in Nat /\ k <= n - e /\ n - e \in Nat
      /\ \A i \in 1 .. k : i \in 1 .. n - e
  BY <1>0
<1>2. /\ w \in Seq(STRING \X Nat) /\ Len(w) = n - e
      /\ \A i \in 1 .. n - e : w[i] = j.input[e + i]
  BY <1>1, WindowIs
<1>3. /\ v \in Seq(STRING \X Nat) /\ Len(v) = k
      /\ \A i \in 1 .. k : v[i] = j.input[e + i]
  BY <1>1, WindowIs
<1>4. IsMagicPrefix(w)
  OBVIOUS
<1>. HIDE DEF w, v, k, N
<1>5. \A i \in 1 .. k : v[i] = w[i]
  BY <1>1, <1>2, <1>3
<1>. DEFINE m == Len(w)
<1>6. m \in Nat /\ k <= m
  BY <1>1, <1>2
<1>. HIDE DEF m
<1>7. ASSUME NEW S, NEW s \in Seq(S), IsPrefix(w, s) PROVE IsPrefix(v, s)
  <2>1. m <= Len(s) /\ SubSeq(w, 1, m) = SubSeq(s, 1, m)
    BY <1>7 DEF IsPrefix, m
  <2>2. \A i \in 1 .. m : w[i] = s[i]
    <3>1. SubSeq(w, 1, m) = [i \in 1 .. m |-> w[i]] /\ SubSeq(s, 1, m) = [i \in 1 .. m |-> s[i]]
      BY <1>2, <1>6, <2>1 DEF m
    <3>. QED  BY <2>1, <3>1
  <2>3. \A i \in 1 .. k : v[i] = s[i]
    BY <1>1, <1>5, <1>6, <2>2
  <2>4. SubSeq(v, 1, k) = [i \in 1 .. k |-> v[i]] /\ SubSeq(s, 1, k) = [i \in 1 .. k |-> s[i]]
    BY <1>1, <1>3, <1>6, <2>1
  <2>. QED  BY <1>1, <1>3, <1>6, <2>1, <2>3, <2>4 DEF IsPrefix
<1>8. PICK S : Own \in Seq(S) /\ Skip \in Seq(S)
  BY MagicsAre
<1>. QED  BY <1>4, <1>7, <1>8 DEF IsMagicPrefix, v, w

\* Nothing is cut where nothing is left.
LEMMA NothingCut ==
    ASSUME NEW j \in Jobs, NEW e, e = Len(j.input)
    PROVE  ~CutAfter(j, e)
<1>1. e \in Nat /\ Len(j.input) = e
  BY JobTypes
<1>. QED  BY <1>1 DEF CutAfter

\* In a whole call no buffer ends between the cursor and the last of the
\* bytes in sight, and the last is one, or the input's.
SliceInSight ==
    job.driver = "whole" =>
      /\ fed < Len(job.input) => fed % job.in_chunk = 0
      /\ \A n \in pos + 1 .. fed - 1 : n % job.in_chunk # 0

\* No other frame is looked for.
LEMMA BetweenNoMoreAlong ==
    ASSUME LoopInv, FrameInv, FrameAlong(job, fed, pos, out, f, lib), BetweenNoMore
    PROVE  \E p, o : Advance(p, o) /\ FrameTurned(p, o)
<1>0. /\ pc = "codec" /\ f.owed = <<>> /\ f.state = "BETWEEN" /\ lib' = lib
      /\ ~job.opts.concat \/ (f.held = <<>> /\ AvailIn = 0)
  BY DEF BetweenNoMore, InState
<1>1. FramedCall
  BY <1>0, FramedCallIs
<1>2. FramesOk(f') /\ LibOk(lib')
  BY BetweenNoMoreStep DEF FrameInv
<1>3. /\ job \in Jobs /\ pos \in 0 .. Len(job.input) /\ pos \in Nat /\ pos <= pos /\ pos <= fed
      /\ out \in Seq(Nat) /\ fed \in Nat /\ AvailIn = fed - pos
      /\ flush = ZU_FINISH => fed = Len(job.input)
  BY <1>1 DEF FramedCall
<1>4. f.held = <<>>
  BY <1>0, <1>1, BetweenStands
<1>5. FrameEnds(job, pos, out)
  BY <1>0, <1>1, <1>4, BetweenStands
<1>6. Advance(pos, out)
  BY <1>1, <1>3, FrameAdvanceIn
<1>7. CASE job.opts.concat /\ flush # ZU_FINISH
  <2>1. Return(ZU_NEED_INPUT, pos, out) /\ f' = f
    BY <1>7 DEF BetweenNoMore
  <2>2. pos = fed
    BY <1>0, <1>3, <1>7
  <2>3. FrameTurned(pos, out)
    BY <1>0, <1>2, <1>3, <1>7, <2>1, <2>2, FrameWaits
  <2>. QED  BY <1>6, <2>3
<1>8. CASE ~(job.opts.concat /\ flush # ZU_FINISH)
  <2>1. Return(ZU_STREAM_END, pos, out)
    BY <1>8 DEF BetweenNoMore, Done
  <2>2. ~job.opts.concat \/ pos = Len(job.input)
    BY <1>0, <1>3, <1>8
  <2>3. pos <= pos + 3 /\ (pos = Len(job.input) => ~(pos < Len(job.input)))
    BY <1>3
  <2>3a. ~HeldTail(job, pos)
    BY <1>3, <2>2, NothingCut DEF HeldTail
  <2>4. StreamEndsAt(job, fed, pos, out)
    BY <1>3, <1>5, <2>2, <2>3, <2>3a, NoWindow, StreamEnds
  <2>5. FrameTurned(pos, out)
    BY <1>3, <2>1, <2>4, FrameEndsStream
  <2>. QED  BY <1>6, <2>5
<1>. QED  BY <1>7, <1>8

\* The tokens in sight are the stream's next.
LEMMA AheadIs ==
    ASSUME LoopInv, pc = "codec", NEW k, k \in 0 .. AvailIn
    PROVE  /\ [i \in 1 .. k |-> Ahead(i)] = SubSeq(job.input, pos + 1, pos + k)
           /\ Len([i \in 1 .. k |-> Ahead(i)]) = k
<1>. DEFINE w == [i \in 1 .. k |-> Ahead(i)]
<1>1. w \in Seq(STRING \X Nat) /\ Len(w) = k
  BY AheadTokens
<1>2. /\ AvailIn \in Nat /\ AvailIn = fed - pos /\ pos \in Nat /\ fed \in Nat
      /\ fed <= Len(job.input) /\ Len(job.input) \in Nat /\ job \in Jobs
  BY VisibleFacts, LoopFacts
<1>3. k \in Nat /\ pos + k \in Nat /\ pos <= pos + k /\ pos + k <= Len(job.input)
      /\ (pos + k) - pos = k
  BY <1>2
<1>4. \A i \in 1 .. k : w[i] = job.input[pos + i]
  BY DEF Ahead
<1>. HIDE DEF w
<1>5. w = SubSeq(job.input, pos + 1, pos + k)
  BY <1>1, <1>2, <1>3, <1>4, WindowOf
<1>. QED  BY <1>1, <1>5 DEF w

\* A new frame is begun where the magic stands in sight.
LEMMA FreshStands ==
    ASSUME NEW j \in Jobs, NEW m \in Nat, NEW o, o \in Seq(Nat), FrameEnds(j, m, o),
           j.opts.concat, FrameAt(j, m + 1)
    PROVE  LibStands(j, FreshLib, m, o)
<1>1. /\ FreshLib.stage = "magic" /\ FreshLib.seen = <<>> /\ FreshLib.pend = <<>>
      /\ FreshLib.n = 0
  BY DEF FreshLib
<1>2. StartsFrame(j, m)
  BY DEF StartsFrame, FrameEnds
<1>3. MagicStands(j, FreshLib, m)
  BY <1>1, <1>2 DEF MagicStands
<1>4. o \o <<>> = o
  BY NothingJoined
<1>. QED  BY <1>1, <1>3, <1>4 DEF LibStands, FrameEnds

\* The look for another frame with all of the bytes in sight.
LEMMA BetweenLookAlong ==
    ASSUME LoopInv, FrameInv, FrameAlong(job, fed, pos, out, f, lib), BetweenLook,
           SliceInSight
    PROVE  \E p, o : Advance(p, o) /\ FrameTurned(p, o)
<1>. DEFINE k == LeastOf(AvailIn, 4)
            w == [i \in 1 .. k |-> Ahead(i)]
            N == Len(job.input)
<1>0. /\ pc = "codec" /\ f.owed = <<>> /\ f.state = "BETWEEN" /\ lib' = lib
      /\ job.opts.concat /\ f.held = <<>> /\ AvailIn > 0
  BY DEF BetweenLook, InState
<1>1. FramedCall
  BY <1>0, FramedCallIs
<1>2. FramesOk(f') /\ LibOk(lib')
  BY BetweenLookStep DEF FrameInv
<1>3. /\ job \in Jobs /\ pos \in 0 .. N /\ pos \in Nat /\ pos <= pos /\ pos <= fed
      /\ out \in Seq(Nat) /\ fed \in Nat /\ AvailIn = fed - pos /\ fed <= N /\ N \in Nat
      /\ flush = ZU_FINISH <=> fed = N
      /\ f \in FrameRecord /\ AvailIn \in Nat
  BY <1>1 DEF FramedCall
<1>4. lib = FreshLib /\ FrameEnds(job, pos, out)
  BY <1>0, <1>1, BetweenStands
<1>5. /\ k \in 0 .. AvailIn /\ k \in Nat /\ k <= 4 /\ k > 0 /\ (k < 4 => k = AvailIn)
      /\ k \in 0 .. 4
  BY <1>0, <1>3 DEF LeastOf
<1>6. /\ \/ /\ ~IsMagicPrefix(w) \/ (k < 4 /\ flush = ZU_FINISH)
            /\ Return(ZU_STREAM_END, pos, out)
         \/ /\ IsMagicPrefix(w) /\ k = 4
            /\ Continue(pos, out) /\ f' = [f EXCEPT !.state = "BODY"]
         \/ /\ IsMagicPrefix(w) /\ k # 4 /\ flush # ZU_FINISH
            /\ Return(ZU_NEED_INPUT, pos + k, out) /\ f' = [f EXCEPT !.held = w]
  <2>1. k # 4 => k < 4
    BY <1>5
  <2>. QED  BY <2>1 DEF BetweenLook, Done
<1>. HIDE DEF k
<1>7. w = SubSeq(job.input, pos + 1, pos + k) /\ Len(w) = k
  BY <1>0, <1>5, AheadIs
<1>. HIDE DEF w, N
<1>8. Advance(pos, out)
  BY <1>1, <1>3, FrameAdvanceIn
<1>9. CASE /\ ~IsMagicPrefix(w) \/ (k < 4 /\ flush = ZU_FINISH)
           /\ Return(ZU_STREAM_END, pos, out)
  <2>1. ~FrameAt(job, pos + 1)
    <3>1. SUFFICES ASSUME FrameAt(job, pos + 1) PROVE FALSE
      OBVIOUS
    <3>2. pos + 4 <= N /\ IsMagicPrefix(SubSeq(job.input, pos + 1, pos + k))
      BY <1>3, <1>5, <3>1, FrameBegins DEF N
    <3>3. k < 4 /\ fed = N
      BY <1>3, <1>7, <1>9, <3>2
    <3>. QED  BY <1>3, <1>5, <3>2, <3>3
  <2>2. pos <= pos + 3 /\ fed # pos
    BY <1>0, <1>3
  <2>2a. ASSUME job.driver = "whole" PROVE ~HeldTail(job, pos)
    <3>. SUFFICES ASSUME IsMagicPrefix(SubSeq(job.input, pos + 1, N)) PROVE ~CutAfter(job, pos)
      BY DEF HeldTail, N
    <3>1. pos + k \in Nat /\ pos <= pos + k /\ pos + k <= N
      BY <1>3, <1>5
    <3>2. IsMagicPrefix(w)
      BY <1>3, <1>7, <3>1, MagicPart DEF N
    <3>3. fed = N
      BY <1>3, <1>9, <3>2
    <3>. QED  BY <1>3, <2>2a, <3>3 DEF CutAfter, SliceInSight, N
  <2>3. StreamEndsAt(job, fed, pos, out)
    BY <1>3, <1>4, <2>1, <2>2, <2>2a, NoWindow, StreamEnds DEF N
  <2>4. FrameTurned(pos, out)
    BY <1>3, <1>9, <2>3, FrameEndsStream
  <2>. QED  BY <1>8, <2>4
<1>10. CASE /\ IsMagicPrefix(w) /\ k = 4
            /\ Continue(pos, out) /\ f' = [f EXCEPT !.state = "BODY"]
  <2>1. k = 4 /\ pos + 4 <= N
    BY <1>3, <1>5, <1>10
  <2>2. FrameAt(job, pos + 1)
    BY <1>3, <1>7, <1>10, <2>1, FrameBegun DEF N
  <2>3. LibStands(job, FreshLib, pos, out)
    BY <1>0, <1>3, <1>4, <2>2, FreshStands
  <2>4. f'.state = "BODY" /\ f'.owed = <<>>
    BY <1>0, <1>3, <1>10 DEF FrameRecord
  <2>5. FreshLib.hostage = FALSE /\ Place(FreshLib, pos) = pos
    BY DEF FreshLib, Place
  <2>6. out \o <<>> = out
    BY <1>3, NothingJoined
  <2>7. FrameAlong(job, fed, pos, out, f', lib')
    BY <1>0, <1>4, <2>3, <2>4, <2>5, <2>6 DEF FrameAlong
  <2>8. FrameTurned(pos, out)
    BY <1>2, <1>3, <1>10, <2>7, FrameGoesOn DEF N
  <2>. QED  BY <1>8, <2>8
<1>11. CASE /\ IsMagicPrefix(w) /\ k # 4 /\ flush # ZU_FINISH
            /\ Return(ZU_NEED_INPUT, pos + k, out) /\ f' = [f EXCEPT !.held = w]
  <2>1. pos + k = fed /\ pos + k \in Nat /\ pos <= pos + k /\ pos + k <= fed
        /\ (pos + k) - k = pos /\ k <= pos + k
    BY <1>3, <1>5, <1>11
  <2>2. f'.state = "BETWEEN" /\ f'.held = w /\ f'.owed = <<>>
    BY <1>0, <1>3, <1>11 DEF FrameRecord
  <2>3. out \o <<>> = out
    BY <1>3, NothingJoined
  <2>. DEFINE p == pos + k
  <2>4. FrameAlong(job, fed, p, out, f', lib')
    <3>1. p - Len(f'.held) = pos /\ Len(f'.held) <= p
      BY <1>7, <2>1, <2>2
    <3>2. f'.held = SubSeq(job.input, pos + 1, p) /\ out \o f'.owed = out
      BY <1>7, <2>2, <2>3
    <3>. HIDE DEF p
    <3>3. FrameEnds(job, p - Len(f'.held), out \o f'.owed)
      BY <1>4, <3>1, <3>2
    <3>4. f'.held = SubSeq(job.input, p - Len(f'.held) + 1, p)
      BY <3>1, <3>2
    <3>5. ASSUME job.driver = "whole" PROVE CutAfter(job, p - Len(f'.held))
      <4>1. fed % job.in_chunk = 0 /\ fed \in pos + 1 .. N - 1
        BY <1>0, <1>3, <1>11, <3>5 DEF SliceInSight, N
      <4>. QED  BY <3>1, <4>1 DEF CutAfter, N
    <3>. QED  BY <1>0, <1>4, <2>2, <3>1, <3>3, <3>4, <3>5 DEF FrameAlong
  <2>5. Advance(p, out) /\ p \in 0 .. N
    BY <1>1, <2>1, FrameAdvanceIn DEF N
  <2>6. p = fed /\ Return(ZU_NEED_INPUT, p, out)
    BY <1>11, <2>1
  <2>. HIDE DEF p
  <2>7. FrameTurned(p, out)
    BY <1>2, <1>3, <1>11, <2>4, <2>5, <2>6, FrameWaits DEF N
  <2>. QED  BY <2>5, <2>7
<1>. QED  BY <1>6, <1>9, <1>10, <1>11

\* Nothing longer than what Matched finds extends the held bytes.
LEMMA MatchedIsMost ==
    ASSUME LoopInv, FrameInv, pc = "codec", NEW k, k = Matched, k < AvailIn,
           Len(f.held) + k < 4
    PROVE  ~IsMagicPrefix(f.held \o [i \in 1 .. k + 1 |-> Ahead(i)])
<1>. DEFINE top == LeastOf(AvailIn, 4 - Len(f.held))
            ks  == {n \in 0 .. top : IsMagicPrefix(f.held \o [i \in 1 .. n |-> Ahead(i)])}
            m   == Len(f.held)
<1>0. /\ f.held \in Seq(STRING \X Nat) /\ m \in Nat /\ AvailIn \in Nat /\ m < 4
  BY VisibleFacts DEF FrameInv, FramesOk, FrameRecord
<1>1. k \in Nat
  BY MatchedFits
<1>. HIDE DEF m
<1>2. top \in Nat /\ k + 1 \in 0 .. top
  BY <1>0, <1>1 DEF LeastOf, m
<1>3. k = Max(ks)
  BY DEF Matched, m
<1>. HIDE DEF top
<1>4. ASSUME k + 1 \in ks PROVE FALSE
  <2>1. ks \subseteq 0 .. top /\ ks # {}
    BY <1>4
  <2>. HIDE DEF ks
  <2>2. Max(ks) \in ks /\ \A n \in ks : n <= Max(ks)
    BY <1>2, <2>1, GreatestMember
  <2>3. k + 1 <= k
    BY <1>3, <1>4, <2>2
  <2>. QED  BY <1>1, <2>3
<1>. DEFINE n == k + 1
<1>5. n \in 0 .. top /\ n \notin ks
  BY <1>2, <1>4
<1>. HIDE DEF n
<1>6. ~IsMagicPrefix(f.held \o [i \in 1 .. n |-> Ahead(i)])
  BY <1>5
<1>. QED  BY <1>6 DEF n

\* The held bytes and those in sight are the bytes after the frame's end.
HeldStands(e, k, w) ==
    /\ e \in Nat /\ e + Len(f.held) = pos /\ e < pos /\ e < Len(job.input)
    /\ FrameEnds(job, e, out)
    /\ w = SubSeq(job.input, e + 1, pos + k) /\ Len(w) = (pos + k) - e
    /\ k \in Nat /\ pos + k <= fed /\ (pos + k) - e <= 4 /\ pos + k <= Len(job.input)
    /\ IsMagicPrefix(w)
    /\ k = AvailIn => pos + k = fed
    /\ k # AvailIn => k < AvailIn /\ pos + k # fed
    /\ k < AvailIn /\ (pos + k) - e < 4 =>
         ~FrameAt(job, e + 1) /\ ~IsMagicPrefix(SubSeq(job.input, e + 1, Len(job.input)))
    /\ job.driver = "whole" => CutAfter(job, e)

\* They do.
LEMMA HeldStand ==
    ASSUME LoopInv, FrameInv, FrameAlong(job, fed, pos, out, f, lib), pc = "codec",
           f.owed = <<>>, f.state = "BETWEEN", f.held # <<>>,
           NEW k, k = Matched, NEW w, w = f.held \o [i \in 1 .. k |-> Ahead(i)]
    PROVE  \E e : HeldStands(e, k, w)
<1>. DEFINE e == pos - Len(f.held)  m == Len(f.held)  N == Len(job.input)
<1>1. FramedCall
  BY FramedCallIs
<1>2. /\ job \in Jobs /\ pos \in Nat /\ fed \in Nat /\ AvailIn = fed - pos /\ fed <= N /\ N \in Nat
      /\ f.held \in Seq(STRING \X Nat) /\ m \in Nat /\ m < 4 /\ AvailIn \in Nat
  BY <1>1 DEF FramedCall
<1>3. m # 0
  BY <1>2, EmptySeq
<1>4. m <= pos /\ FrameEnds(job, e, out) /\ f.held = SubSeq(job.input, e + 1, pos)
  BY <1>1, BetweenStands
<1>5. k \in 0 .. AvailIn /\ Len(w) \in 0 .. 4 /\ IsMagicPrefix(w)
  BY MatchedFits
<1>6. /\ k \in Nat /\ pos + k <= fed /\ pos + k <= N /\ e \in Nat /\ e + m = pos /\ e < pos
      /\ e <= pos /\ pos <= pos + k /\ pos + k \in Nat /\ e < N
      /\ k = AvailIn => pos + k = fed
      /\ k # AvailIn => k < AvailIn /\ pos + k # fed
  <2>1. e = pos - m
    OBVIOUS
  <2>. HIDE DEF e, m, N
  <2>. QED  BY ONLY <1>2, <1>3, <1>4, <1>5, <2>1
<1>7. ASSUME NEW n, n \in 0 .. AvailIn
      PROVE  f.held \o [i \in 1 .. n |-> Ahead(i)] = SubSeq(job.input, e + 1, pos + n)
  <2>1. [i \in 1 .. n |-> Ahead(i)] = SubSeq(job.input, pos + 1, pos + n)
    BY <1>7, AheadIs
  <2>2. n \in Nat /\ pos + n \in Nat /\ pos <= pos + n /\ pos + n <= N
    BY <1>2, <1>7
  <2>. HIDE DEF e
  <2>3. SubSeq(job.input, e + 1, pos) \o SubSeq(job.input, pos + 1, pos + n)
          = SubSeq(job.input, e + 1, pos + n)
    BY <1>2, <1>6, <2>2, WindowsMeet
  <2>. QED  BY <1>4, <2>1, <2>3
<1>8. w = SubSeq(job.input, e + 1, pos + k)
  BY <1>5, <1>7
<1>. HIDE DEF e
<1>9. Len(w) = (pos + k) - e
  <2>. DEFINE p == pos + k
  <2>1. p \in Nat /\ e <= p /\ p <= N
    BY <1>6
  <2>. HIDE DEF p
  <2>2. Len(SubSeq(job.input, e + 1, p)) = p - e
    BY <1>2, <1>6, <2>1, WindowIs
  <2>. QED  BY <1>8, <2>2 DEF p
<1>10. (pos + k) - e <= 4
  <2>. DEFINE n == (pos + k) - e
  <2>1. n \in 0 .. 4
    BY <1>5, <1>9
  <2>. HIDE DEF n
  <2>2. n <= 4
    BY <2>1
  <2>. QED  BY <2>2 DEF n
<1>11. ASSUME k < AvailIn, (pos + k) - e < 4
       PROVE  ~FrameAt(job, e + 1) /\ ~IsMagicPrefix(SubSeq(job.input, e + 1, N))
  <2>1. /\ m + k < 4 /\ k + 1 \in 0 .. AvailIn /\ m + k + 1 \in 0 .. 4
        /\ e + (m + k + 1) = pos + (k + 1) /\ pos + (k + 1) <= N
    <3>1. k < AvailIn /\ (pos + k) - e < 4
      BY <1>11
    <3>. HIDE DEF m, N
    <3>. QED  BY ONLY <1>2, <1>6, <3>1
  <2>2. ~IsMagicPrefix(f.held \o [i \in 1 .. k + 1 |-> Ahead(i)])
    BY <1>11, <2>1, MatchedIsMost
  <2>. DEFINE n == m + k + 1  l == k + 1
  <2>3. n \in 0 .. 4 /\ l \in 0 .. AvailIn /\ e + n = pos + l /\ pos + l <= N
    BY <2>1
  <2>4. ~IsMagicPrefix(f.held \o [i \in 1 .. l |-> Ahead(i)])
    BY <2>2
  <2>. HIDE DEF n, l
  <2>5. f.held \o [i \in 1 .. l |-> Ahead(i)] = SubSeq(job.input, e + 1, pos + l)
    BY <1>7, <2>3
  <2>6. ~IsMagicPrefix(SubSeq(job.input, e + 1, e + n))
    BY <2>3, <2>4, <2>5
  <2>7. ~FrameAt(job, e + 1)
    BY <1>2, <1>6, <2>3, <2>6, FrameBegins
  <2>8. e + n \in Nat /\ e <= e + n /\ e + n <= N
    BY <1>2, <1>6, <2>3
  <2>. DEFINE p == e + n
  <2>9. p \in Nat /\ e <= p /\ p <= N /\ ~IsMagicPrefix(SubSeq(job.input, e + 1, p))
    BY <2>6, <2>8
  <2>. HIDE DEF p
  <2>10. ~IsMagicPrefix(SubSeq(job.input, e + 1, N))
    BY <1>2, <1>6, <2>9, MagicPart
  <2>. QED  BY <2>7, <2>10
<1>12. job.driver = "whole" => CutAfter(job, e)
  BY <1>1, BetweenStands DEF e
<1>13. HeldStands(e, k, w)
  BY <1>4, <1>5, <1>6, <1>8, <1>9, <1>10, <1>11, <1>12 DEF HeldStands, e
<1>. QED  BY <1>13

\* A magic that is complete is fed to the library.
LEMMA FedStands ==
    ASSUME NEW j \in Jobs, NEW e \in Nat, NEW p \in Nat, p = e + 4, p <= Len(j.input),
           NEW o, o \in Seq(Nat), FrameEnds(j, e, o), j.opts.concat,
           NEW w, w = SubSeq(j.input, e + 1, p), IsMagicPrefix(w)
    PROVE  /\ LibStands(j, FeedHeld(w).l, p, o)
           /\ FeedHeld(w).l.hostage = FALSE
           /\ FeedHeld(w).err = ZU_OK
<1>1. FrameAt(j, e + 1)
  BY FrameBegun
<1>. DEFINE s == Readings(j)[p]  r == Readings(j)[e]
<1>2. r.err = ZU_OK /\ r.phase = "between" /\ r.out = o
  BY DEF FrameEnds
<1>3. s.err = ZU_OK /\ s.out = r.out /\ s.n = 0 /\ s.phase = "head"
  <2>1. s = Readings(j)[e + 4]
    OBVIOUS
  <2>. HIDE DEF s, r
  <2>2. r = Readings(j)[e]
    BY DEF r
  <2>. QED  BY <1>1, <1>2, <2>1, <2>2, FrameMagicRead
<1>. HIDE DEF s, r
<1>4. /\ FeedHeld(w).l.stage = "head" /\ FeedHeld(w).l.seen = w /\ FeedHeld(w).l.n = 0
      /\ FeedHeld(w).l.pend = <<>> /\ FeedHeld(w).l.hostage = FALSE
  BY DEF FeedHeld, FreshLib
<1>5. p - 3 = e + 1 /\ 4 <= p /\ p \in 0 .. Len(j.input)
  BY JobTypes
<1>6. w = SubSeq(j.input, p - 3, p)
  BY <1>5
<1>. DEFINE l == FeedHeld(w).l
<1>7. l.stage = "head" /\ l.seen = SubSeq(j.input, p - 3, p) /\ l.n = 0 /\ l.pend = <<>>
  BY <1>4, <1>6
<1>. HIDE DEF l
<1>8. HeadStands(j, l, p)
  BY <1>3, <1>5, <1>7 DEF HeadStands, s
<1>9. s.out = o \o l.pend
  BY <1>2, <1>3, <1>7, NothingJoined
<1>10. LibStands(j, l, p, o)
  BY <1>3, <1>5, <1>7, <1>8, <1>9 DEF LibStands, s
<1>11. FeedHeld(w).err = ZU_OK
  <2>1. j.input \in Seq(STRING \X Nat) /\ (e + 1) + 3 = p /\ w \in {Own, Skip}
    BY <1>1, JobTypes DEF FrameAt
  <2>. QED  BY <2>1 DEF FeedHeld
<1>. QED  BY <1>4, <1>10, <1>11 DEF l

\* The look for another frame across two buffers.
LEMMA BetweenHeldAlong ==
    ASSUME LoopInv, FrameInv, FrameAlong(job, fed, pos, out, f, lib), BetweenHeld
    PROVE  \E p, o : Advance(p, o) /\ FrameTurned(p, o)
<1>. DEFINE k == Matched
            w == f.held \o [i \in 1 .. k |-> Ahead(i)]
            N == Len(job.input)
            p == pos + k
<1>0. /\ pc = "codec" /\ f.owed = <<>> /\ f.state = "BETWEEN" /\ job.opts.concat
      /\ f.held # <<>>
  BY DEF BetweenHeld, InState
<1>1. FramedCall
  BY <1>0, FramedCallIs
<1>2. FramesOk(f') /\ LibOk(lib')
  BY BetweenHeldStep DEF FrameInv
<1>3. PICK e : HeldStands(e, k, w)
  BY <1>0, HeldStand
<1>4. \/ /\ Len(w) = 4 /\ CarryOn(FeedHeld(w).err, p)
         /\ f' = NextFrame(FeedHeld(w).err) /\ lib' = FeedHeld(w).l
      \/ /\ Len(w) # 4 /\ k < AvailIn /\ Return(ZU_STREAM_END, p, out)
      \/ /\ Len(w) # 4 /\ ~(k < AvailIn) /\ flush = ZU_FINISH
         /\ Return(HeldAtEnd, p, out)
      \/ /\ Len(w) # 4 /\ lib' = lib /\ ~(k < AvailIn) /\ flush # ZU_FINISH
         /\ Return(ZU_NEED_INPUT, p, out) /\ f' = [f EXCEPT !.held = w]
  BY DEF BetweenHeld, Done
<1>. HIDE DEF k
<1>5. /\ e \in Nat /\ e + Len(f.held) = pos /\ e < pos /\ e < N
      /\ FrameEnds(job, e, out)
      /\ w = SubSeq(job.input, e + 1, p) /\ Len(w) = p - e
      /\ k \in Nat /\ p <= fed /\ p - e <= 4 /\ p <= N
      /\ IsMagicPrefix(w)
      /\ k = AvailIn => p = fed
      /\ k # AvailIn => k < AvailIn /\ p # fed
      /\ k < AvailIn /\ p - e < 4 =>
           ~FrameAt(job, e + 1) /\ ~IsMagicPrefix(SubSeq(job.input, e + 1, N))
      /\ job.driver = "whole" => CutAfter(job, e)
  BY <1>3 DEF HeldStands
<1>6. /\ job \in Jobs /\ pos \in Nat /\ fed \in Nat /\ fed <= N /\ N \in Nat
      /\ out \in Seq(Nat)
      /\ flush = ZU_FINISH <=> fed = N
      /\ f \in FrameRecord
  BY <1>1 DEF FramedCall
<1>7. /\ p \in Nat /\ pos <= p /\ p \in 0 .. N /\ e <= p /\ e + (p - e) = p
      /\ (p - e = 4 => p = e + 4) /\ (p - e # 4 => p - e < 4 /\ p - e \in 0 .. 4 /\ p <= e + 3)
      /\ p - (p - e) = e
  BY <1>5, <1>6
<1>. HIDE DEF p, w, N
<1>8. Advance(p, out)
  BY <1>1, <1>5, <1>7, FrameAdvanceIn
<1>9. CASE /\ Len(w) = 4 /\ CarryOn(FeedHeld(w).err, p)
           /\ f' = NextFrame(FeedHeld(w).err) /\ lib' = FeedHeld(w).l
  <2>1. p = e + 4
    BY <1>5, <1>7, <1>9
  <2>2. /\ LibStands(job, FeedHeld(w).l, p, out) /\ FeedHeld(w).l.hostage = FALSE
        /\ FeedHeld(w).err = ZU_OK
    <3>1. p <= Len(job.input) /\ e \in Nat /\ p \in Nat /\ FrameEnds(job, e, out)
      BY <1>5, <1>7 DEF N
    <3>2. w = SubSeq(job.input, e + 1, p) /\ IsMagicPrefix(w)
      BY <1>5
    <3>3. job \in Jobs /\ out \in Seq(Nat)
      BY <1>6
    <3>. QED  BY <1>0, <2>1, <3>1, <3>2, <3>3, FedStands
  <2>2a. Continue(p, out) /\ f' = [f EXCEPT !.state = "BODY", !.held = <<>>]
    BY <1>9, <2>2 DEF CarryOn, NextFrame
  <2>3. f'.state = "BODY" /\ f'.owed = <<>>
    BY <1>0, <1>6, <2>2a DEF FrameRecord
  <2>4. out \o <<>> = out
    BY <1>6, NothingJoined
  <2>5. Place(FeedHeld(w).l, p) = p
    BY <2>2 DEF Place
  <2>6. FrameAlong(job, fed, p, out, f', lib')
    BY <1>9, <2>2, <2>3, <2>4, <2>5 DEF FrameAlong
  <2>7. FrameTurned(p, out)
    <3>1. job \in Jobs /\ out \in Seq(Nat) /\ p \in 0 .. Len(job.input)
      BY <1>6, <1>7 DEF N
    <3>2. Continue(p, out)
      BY <2>2a
    <3>. QED  BY <1>2, <2>6, <3>1, <3>2, FrameGoesOn
  <2>. QED  BY <1>8, <2>7
<1>10. ASSUME Len(w) # 4, ~(k < AvailIn), flush = ZU_FINISH PROVE ~FrameAt(job, e + 1) /\ p = N
  <2>0. k = AvailIn /\ p - e # 4
    BY <1>5, <1>10
  <2>1. p = N /\ p - e < 4
    <3>1. p = fed
      BY <1>5, <2>0
    <3>2. fed = N
      BY <1>6, <1>10
    <3>. QED  BY <1>7, <2>0, <3>1, <3>2
  <2>2. ASSUME FrameAt(job, e + 1) PROVE FALSE
    <3>1. 0 \in 0 .. 4
      OBVIOUS
    <3>2. e + 4 <= N
      BY <1>5, <1>6, <2>2, <3>1, FrameBegins DEF N
    <3>. QED  BY <1>5, <1>6, <2>1, <3>2
  <2>. QED  BY <2>1, <2>2
<1>11. ASSUME Len(w) # 4, ~FrameAt(job, e + 1), Return(ZU_STREAM_END, p, out),
              fed = p => p = N /\ ~job.opts.reject,
              job.opts.reject => ~IsMagicPrefix(SubSeq(job.input, e + 1, N))
       PROVE  FrameTurned(p, out)
  <2>1. StreamEndsAt(job, fed, p, out)
    <3>1. job \in Jobs /\ FrameEnds(job, e, out) /\ ~FrameAt(job, e + 1)
      BY <1>5, <1>6, <1>11
    <3>2. e <= p /\ p <= e + 3
      BY <1>5, <1>7, <1>11
    <3>3. IsMagicPrefix(SubSeq(job.input, e + 1, p))
      BY <1>5
    <3>4. fed = p => p = Len(job.input) /\ ~job.opts.reject
      BY <1>11 DEF N
    <3>5. job.opts.reject => ~HeldTail(job, e)
      BY <1>11 DEF HeldTail, N
    <3>. QED  BY <3>1, <3>2, <3>3, <3>4, <3>5, StreamEnds
  <2>. QED  BY <1>6, <1>11, <2>1, FrameEndsStream
<1>12. CASE Len(w) # 4 /\ k < AvailIn /\ Return(ZU_STREAM_END, p, out)
  <2>1. k # AvailIn
    BY <1>1, <1>5, <1>12 DEF FramedCall
  <2>2. p # fed /\ p - e < 4
    BY <1>5, <1>7, <1>12, <2>1
  <2>3. ~FrameAt(job, e + 1) /\ ~IsMagicPrefix(SubSeq(job.input, e + 1, N))
    BY <1>5, <1>12, <2>2
  <2>4. FrameTurned(p, out)
    BY <1>11, <1>12, <2>2, <2>3
  <2>. QED  BY <1>8, <2>4
<1>13. CASE /\ Len(w) # 4 /\ ~(k < AvailIn) /\ flush = ZU_FINISH
            /\ Return(HeldAtEnd, p, out)
  <2>1. ~FrameAt(job, e + 1) /\ p = N
    BY <1>10, <1>13
  <2>2. CASE ~job.opts.reject
    <3>1. Return(ZU_STREAM_END, p, out)
      BY <1>13, <2>2 DEF HeldAtEnd
    <3>2. FrameTurned(p, out)
      BY <1>11, <1>13, <2>1, <2>2, <3>1
    <3>. QED  BY <1>8, <3>2
  <2>3. CASE job.opts.reject
    <3>1. Return(ZU_ERR_TRAILING, p, out)
      BY <1>13, <2>3 DEF HeldAtEnd
    <3>. DEFINE r == ReferenceOf(job)
    <3>2. r.err = ZU_OK /\ r.out = out /\ r.phase = "tail" /\ r.end = e
      <4>1. e # N
        BY <1>5, <1>6
      <4>. QED  BY <1>5, <1>6, <2>1, <4>1, FrameLast DEF N
    <3>3. VerdictOn(job, r) = ZU_ERR_TRAILING
      BY <2>3, <3>2, VerdictIs
    <3>4. Len(r.out) <= call.out + call.allowance
      BY <1>1, <1>5, <1>7, <3>2, FrameAdvanceIn
    <3>5. Held(r, out)
      <4>1. r \in RefRecord
        <5>1. p \in 0 .. Len(job.input) /\ job \in Jobs
          BY <1>6, <1>7 DEF N
        <5>. QED  BY <5>1, ReferenceGrows
      <4>2. out \in Seq(Nat) /\ out = r.out
        BY <1>6, <3>2
      <4>. HIDE DEF r
      <4>. QED  BY <4>1, <4>2, HeldAll
    <3>. HIDE DEF r
    <3>6. p = fed
      BY <1>6, <1>13, <2>1
    <3>7. job.driver = "whole" => HeldTail(job, r.end)
      <4>1. IsMagicPrefix(SubSeq(job.input, e + 1, Len(job.input)))
        BY <1>5, <2>1 DEF N
      <4>. QED  BY <1>0, <1>5, <3>2, <4>1 DEF HeldTail
    <3>8. FrameTurned(p, out)
      BY <3>1, <3>3, <3>4, <3>5, <3>6, <3>7, FrameFails, Words DEF r
    <3>. QED  BY <1>8, <3>8
  <2>. QED  BY <2>2, <2>3
<1>14. CASE /\ Len(w) # 4 /\ lib' = lib /\ ~(k < AvailIn) /\ flush # ZU_FINISH
            /\ Return(ZU_NEED_INPUT, p, out) /\ f' = [f EXCEPT !.held = w]
  <2>1. p = fed
    BY <1>5, <1>14
  <2>2. f'.state = "BETWEEN" /\ f'.held = w /\ f'.owed = <<>>
    BY <1>0, <1>6, <1>14 DEF FrameRecord
  <2>3. out \o f'.owed = out
    BY <1>6, <2>2, NothingJoined
  <2>4. p - Len(f'.held) = e /\ Len(f'.held) <= p
    <3>. DEFINE m == Len(f'.held)
    <3>1. m = p - e /\ p \in Nat /\ e \in Nat /\ e <= p
      BY <1>5, <1>7, <2>2
    <3>. HIDE DEF m
    <3>2. p - m = e /\ m <= p
      BY ONLY <3>1
    <3>. QED  BY <3>2 DEF m
  <2>5. FrameEnds(job, p - Len(f'.held), out \o f'.owed)
    BY <1>5, <2>3, <2>4
  <2>6. f'.held = SubSeq(job.input, p - Len(f'.held) + 1, p)
    BY <1>5, <2>2, <2>4
  <2>7. lib' = FreshLib
    BY <1>0, <1>1, <1>14, BetweenStands
  <2>7a. job.driver = "whole" => CutAfter(job, p - Len(f'.held))
    BY <1>5, <2>4
  <2>8. FrameAlong(job, fed, p, out, f', lib')
    BY <1>0, <2>2, <2>4, <2>5, <2>6, <2>7, <2>7a DEF FrameAlong
  <2>9. FrameTurned(p, out)
    <3>1. job \in Jobs /\ out \in Seq(Nat) /\ p \in 0 .. Len(job.input)
      BY <1>6, <1>7 DEF N
    <3>2. Return(ZU_NEED_INPUT, p, out) /\ flush # ZU_FINISH
      BY <1>14
    <3>. QED  BY <1>2, <2>1, <2>8, <3>1, <3>2, FrameWaits
  <2>. QED  BY <1>8, <2>9
<1>. QED  BY <1>4, <1>9, <1>12, <1>13, <1>14

\* What can be wrong with a stream.
StreamErrors == {ZU_ERR_INVALID_DATA, ZU_ERR_CHECKSUM, ZU_ERR_OUTPUT_LIMIT, ZU_ERR_UNSUPPORTED}

\* A token is wrong in one of these ways.
LEMMA RefStepErrs ==
    ASSUME NEW j \in Jobs, NEW i \in 1 .. Len(j.input), NEW r, r \in RefRecord,
           r.err \in StreamErrors \cup {ZU_OK}
    PROVE  RefStep(j, r, i).err \in StreamErrors \cup {ZU_OK}
<1>. DEFINE E == StreamErrors \cup {ZU_OK}
<1>0. \A e \in StreamErrors : e \in Status /\ RefFail(r, e).err \in E
  <2>1. \A e \in StreamErrors : e \in Status
    BY DEF StreamErrors, Status, Errors
  <2>. QED  BY <2>1, RefFailIs
<1>1. /\ ZU_ERR_INVALID_DATA \in StreamErrors /\ ZU_ERR_CHECKSUM \in StreamErrors
      /\ HeaderRefused(j) \in StreamErrors
  BY DEF StreamErrors, HeaderRefused
<1>2. CASE r.err # ZU_OK \/ r.phase = "tail"
  BY <1>2, RefStopped
<1>3. CASE r.err = ZU_OK /\ r.phase = "magic"
  <2>1. RefMagic(r).err = r.err
    BY <1>3, RefMagicIs
  <2>2. RefStep(j, r, i) \in {RefFail(r, ZU_ERR_INVALID_DATA), RefMagic(r)}
    BY <1>3, RefInMagic
  <2>. QED  BY <1>0, <1>1, <2>1, <2>2
<1>4. CASE r.err = ZU_OK /\ r.phase = "head"
  <2>. DEFINE t == j.input[i]  m == SubSeq(j.input, i - 4, i - 1)
  <2>1. RefHeadIs(j, r, i, t, m)
    BY <1>4, RefInHead
  <2>. HIDE DEF t, m
  <2>2. RefFrame(r, i).err = r.err /\ RefBlock(r, t).err = r.err
    <3>1. i \in Nat
      BY JobTypes
    <3>2. RefBlock(r, t).err = r.err
      BY RefBlockIs
    <3>. QED  BY <3>1, <3>2, RefFrameIs
  <2>3. \/ RefStep(j, r, i) = RefFrame(r, i)
        \/ RefStep(j, r, i) = RefBlock(r, t)
        \/ RefStep(j, r, i) = RefFail(r, HeaderRefused(j))
        \/ RefStep(j, r, i) = RefFail(r, ZU_ERR_INVALID_DATA)
    BY <2>1 DEF RefHeadIs
  <2>. QED  BY <1>0, <1>1, <1>4, <2>2, <2>3
<1>5. CASE r.err = ZU_OK /\ r.phase = "block"
  <2>. DEFINE u == RefTaken(j, r, i)
  <2>1. u \in RefRecord /\ u.err = r.err
    BY RefTakenIs
  <2>2. \/ RefStep(j, r, i) = u
        \/ RefStep(j, r, i) = RefSum(u)
        \/ RefStep(j, r, i) = RefFrame(u, i)
        \/ RefStep(j, r, i) = RefFail(r, ZU_ERR_INVALID_DATA)
    BY <1>5, RefInBlock
  <2>. HIDE DEF u
  <2>3. RefFrame(u, i).err = r.err /\ RefSum(u).err = r.err
    BY <2>1, RefFrameIs, RefSumIs
  <2>. QED  BY <1>0, <1>1, <1>5, <2>1, <2>2, <2>3
<1>6. CASE r.err = ZU_OK /\ r.phase = "sum"
  <2>1. RefStep(j, r, i) \in {RefFrame(r, i), RefFail(r, ZU_ERR_CHECKSUM)}
    BY <1>6, RefAtSum
  <2>2. RefFrame(r, i).err = r.err
    BY RefFrameIs
  <2>. QED  BY <1>0, <1>1, <1>6, <2>1, <2>2
<1>7. CASE r.err = ZU_OK /\ r.phase = "between"
  <2>1. RefStep(j, r, i) \in {RefOpen(r), RefTail(r)}
    BY <1>7, RefAfterFrame
  <2>2. RefOpen(r).err = r.err /\ RefTail(r).err = r.err
    BY RefOpenIs, RefTailIs
  <2>. QED  BY <1>7, <2>1, <2>2
<1>. QED  BY <1>2, <1>3, <1>4, <1>5, <1>6, <1>7 DEF RefRecord, RefPhases

\* So is a stream.
LEMMA ReadingErrs ==
    ASSUME NEW j \in Jobs, NEW q \in 0 .. Len(j.input), Readings(j)[q].err # ZU_OK
    PROVE  Readings(j)[q].err \in StreamErrors
<1>. DEFINE N == Len(j.input)  R == Readings(j)
            P == {i \in 0 .. N : R[i].err \in StreamErrors \cup {ZU_OK}}
<1>0. N \in Nat /\ 0 \in 0 .. N /\ 0 \in 0 .. N
  BY JobTypes
<1>1. 0 \in P
  <2>1. R[0].err = ZU_OK
    BY <1>0, ReadingsAre, RefInitOk
  <2>. QED  BY <1>0, <2>1
<1>2. \A i \in 0 .. N : i \in P /\ i < N => i + 1 \in P
  <2>. SUFFICES ASSUME NEW i \in 0 .. N, i \in P, i < N PROVE i + 1 \in P
    OBVIOUS
  <2>1. i \in Nat /\ i + 1 \in 0 .. N /\ i + 1 \in 1 .. N
    BY <1>0
  <2>2. R[i] \in RefRecord /\ R[i + 1] = RefStep(j, R[i], i + 1)
    BY <2>1, ReadNext
  <2>3. R[i].err \in StreamErrors \cup {ZU_OK}
    OBVIOUS
  <2>. DEFINE r == R[i]
  <2>4. r \in RefRecord /\ r.err \in StreamErrors \cup {ZU_OK} /\ R[i + 1] = RefStep(j, r, i + 1)
    BY <2>2, <2>3
  <2>. HIDE DEF r, R
  <2>5. R[i + 1].err \in StreamErrors \cup {ZU_OK}
    BY <2>1, <2>4, RefStepErrs
  <2>. QED  BY <2>1, <2>5
<1>3. \A i \in 0 .. N : i \in P
  <2>. HIDE DEF P, N
  <2>. QED  BY ONLY <1>0, <1>1, <1>2, FromOn
<1>. QED  BY <1>3

\* A stream that ends within a frame is cut short.
LEMMA FrameCutShort ==
    ASSUME NEW j \in Jobs, NEW l, LibOk(l), ~l.hostage, l.pend = <<>>,
           NEW o, o \in Seq(Nat), LibStands(j, l, Len(j.input), o)
    PROVE  VerdictOn(j, ReferenceOf(j)) = ZU_ERR_TRUNCATED /\ ReferenceOf(j).out = o
<1>. DEFINE N == Len(j.input)  r == Readings(j)[N]
<1>0. N \in Nat /\ N \in 0 .. N
  BY JobTypes
<1>1. r.err = ZU_OK /\ r.out = o
  BY NothingJoined DEF LibStands
<1>2. l.stage \in {"magic", "head", "block", "sum"}
  BY DEF LibOk, LibRecord
<1>3. ~FrameAt(j, N + 1)
  <2>1. FrameAt(j, N + 1) => (N + 1) + 3 <= N
    BY DEF FrameAt
  <2>. HIDE DEF N
  <2>. QED  BY <1>0, <2>1
<1>4. r.phase \notin {"between", "tail"}
  <2>1. CASE l.stage = "magic"
    <3>1. MagicStands(j, l, N)
      BY <2>1 DEF LibStands
    <3>2. r.phase = "magic"
      BY <1>3, <3>1 DEF MagicStands, StartsFrame
    <3>. QED  BY <3>2
  <2>2. CASE l.stage = "head"
    BY <2>2 DEF LibStands, HeadStands
  <2>3. CASE l.stage = "block"
    BY <2>3 DEF LibStands
  <2>4. CASE l.stage = "sum"
    BY <2>4 DEF LibStands
  <2>. QED  BY <1>2, <2>1, <2>2, <2>3, <2>4
<1>5. ReferenceOf(j) = r
  BY <1>0, ReferenceGrows
<1>. HIDE DEF r
<1>6. VerdictOn(j, r) = ZU_ERR_TRUNCATED
  BY <1>1, <1>4, VerdictIs
<1>. QED  BY <1>1, <1>5, <1>6

\* The library where a call finds it.
LibAt ==
    /\ f.owed = <<>> /\ f.state = "BODY"
    /\ LibStands(job, lib, Place(lib, pos), out)
    /\ lib.hostage => lib.stage = "done" /\ 0 < AvailIn
    /\ FrameAlong(job, fed, pos, out, f, lib)

\* It stands in its stream.
LEMMA LibIsAt ==
    ASSUME FramedCall, FrameAlong(job, fed, pos, out, f, lib), f.owed = <<>>, f.state = "BODY"
    PROVE  LibAt
<1>1. out \o f.owed = out
  BY NothingJoined DEF FramedCall
<1>2. LibStands(job, lib, Place(lib, pos), out)
  BY <1>1 DEF FrameAlong
<1>3. lib.hostage => lib.stage = "done" /\ pos < fed
  BY DEF FrameAlong
<1>4. lib.hostage => 0 < AvailIn
  BY <1>3 DEF FramedCall
<1>. QED  BY <1>2, <1>3, <1>4 DEF LibAt

\* The stream ends within a frame, and all of it is written.
LEMMA CutShortFails ==
    ASSUME FramedCall, fed = Len(job.input), pos = fed, NEW l, LibOk(l), ~l.hostage,
           l.pend = <<>>, LibStands(job, l, pos, out), Return(ZU_ERR_TRUNCATED, pos, out)
    PROVE  FrameTurned(pos, out)
<1>. DEFINE r == ReferenceOf(job)
<1>1. /\ job \in Jobs /\ out \in Seq(Nat) /\ pos \in 0 .. Len(job.input) /\ pos \in Nat
      /\ pos <= pos /\ pos <= fed /\ pos = Len(job.input)
  BY DEF FramedCall
<1>2. VerdictOn(job, r) = ZU_ERR_TRUNCATED /\ r.out = out
  BY <1>1, FrameCutShort
<1>3. Len(out) <= call.out + call.allowance
  BY <1>1, FrameAdvanceIn
<1>4. r \in RefRecord
  BY <1>1, ReferenceGrows
<1>. HIDE DEF r
<1>5. Held(r, out)
  BY <1>1, <1>2, <1>4, HeldAll
<1>6. ZU_ERR_TRUNCATED \in Errors \ {ZU_ERR_MEMORY, ZU_ERR_TRAILING}
  BY Words DEF ZU_ERR_TRUNCATED, ZU_ERR_TRAILING
<1>. QED  BY <1>2, <1>3, <1>5, <1>6, FrameFails DEF r

\* More is to come than what is written.
LEMMA MoreIsInReference ==
    ASSUME NEW j \in Jobs, NEW o, o \in Seq(Nat), MoreComes(j, o)
    PROVE  Len(ReferenceOf(j).out) > Len(o)
<1>1. PICK q \in 0 .. Len(j.input) : Len(Readings(j)[q].out) > Len(o)
  BY DEF MoreComes
<1>. DEFINE r == ReferenceOf(j)  s == Readings(j)[q]
<1>2. s \in RefRecord /\ r \in RefRecord /\ Grown(s, r)
  BY ReferenceGrows
<1>3. Len(s.out) > Len(o)
  BY <1>1
<1>. HIDE DEF r, s
<1>4. s.out \in Seq(Nat) /\ r.out \in Seq(Nat)
  BY <1>2 DEF RefRecord
<1>5. Held(r, s.out)
  BY <1>2 DEF Grown, Held
<1>6. Len(s.out) <= Len(r.out) /\ Len(s.out) \in Nat /\ Len(r.out) \in Nat /\ Len(o) \in Nat
  BY <1>2, <1>4, <1>5, HeldIsPrefix
<1>7. Len(r.out) > Len(o)
  BY ONLY <1>3, <1>6
<1>. QED  BY <1>7 DEF r

\* The library found nothing to do: a call that moved nothing.
Idle(c) ==
    /\ TurnAlong(job, pos, out, AvailIn, AvailOut, c) /\ TurnOk(c, AvailIn, AvailOut)
    /\ c.stop \in {"starved", "full"} /\ c.used = 0 /\ c.bytes = <<>>

\* What that says of the buffers and the stream.
LEMMA IdleMeans ==
    ASSUME FramedCall, NEW c, Idle(c)
    PROVE  \/ /\ AvailIn = 0 /\ c.l.pend = <<>> /\ ~c.l.hostage /\ LibOk(c.l)
              /\ LibStands(job, c.l, pos, out)
           \/ AvailOut = 0 /\ MoreComes(job, out)
<1>1. /\ job \in Jobs /\ pos \in Nat /\ out \in Seq(Nat) /\ AvailIn \in Nat /\ AvailOut \in Nat
      /\ pos + 0 = pos
  BY DEF FramedCall
<1>2. out \o <<>> = out
  BY <1>1, NothingJoined
<1>3. c.used = 0 /\ c.bytes = <<>> /\ LibOk(c.l) /\ pos + c.used = pos /\ out \o c.bytes = out
  BY <1>1, <1>2 DEF Idle, TurnOk
<1>4. CASE c.stop = "starved"
  <2>1. /\ c.used = AvailIn /\ c.l.pend = <<>>
        /\ LibStands(job, c.l, Place(c.l, pos + c.used), out \o c.bytes)
        /\ c.l.hostage => c.used < AvailIn
    BY <1>4 DEF Idle, TurnAlong
  <2>2. AvailIn = 0 /\ ~c.l.hostage
    BY <1>3, <2>1
  <2>3. Place(c.l, pos) = pos
    BY <2>2 DEF Place
  <2>. QED  BY <1>3, <2>1, <2>2, <2>3
<1>5. CASE c.stop = "full"
  <2>1. Len(c.bytes) = AvailOut /\ MoreComes(job, out \o c.bytes)
    BY <1>5 DEF Idle, TurnAlong
  <2>2. Len(<<>>) = 0
    OBVIOUS
  <2>. QED  BY <1>3, <2>1, <2>2
<1>. QED  BY <1>4, <1>5 DEF Idle

\* The probe: one byte of room, and no input.
ProbeStands(c, g) ==
    /\ FrameAlong(job, fed, pos, out, g, c.l)
    /\ g = [IF c.stop = "frame" THEN Ended ELSE f EXCEPT !.owed = c.bytes]
    /\ g.owed = c.bytes
    /\ c.stop # "error"
    /\ c.bytes = <<>> /\ c.stop # "frame" =>
         /\ c.l.pend = <<>> /\ ~c.l.hostage /\ LibOk(c.l) /\ LibStands(job, c.l, pos, out)

\* It follows the stream.
LEMMA ProbeFollows ==
    ASSUME LoopInv, FrameInv, pc = "codec", LibAt, AvailIn = 0, NEW c, c = Probe
    PROVE  \E g : ProbeStands(c, g)
<1>. DEFINE h == IF c.stop = "frame" THEN Ended ELSE f
            g == [h EXCEPT !.owed = c.bytes]
<1>1. FramedCall /\ FramesOk(f)
  BY FramedCallIs DEF FrameInv
<1>2. /\ job \in Jobs /\ pos \in Nat /\ out \in Seq(Nat) /\ pos \in 0 .. Len(job.input)
      /\ pos + 0 = pos /\ f \in FrameRecord
  BY <1>1 DEF FramedCall
<1>3. Visible(0) /\ 1 \in Nat
  BY LoopFacts DEF Visible
<1>4. /\ LibOk(lib) /\ LibStands(job, lib, Place(lib, pos), out)
      /\ lib.hostage => lib.stage = "done" /\ 0 < 0
  BY DEF FrameInv, LibAt
<1>5. TurnAlong(job, pos, out, 0, 1, c) /\ TurnOk(c, 0, 1) /\ c.stop # "go"
  BY <1>2, <1>3, <1>4, DecompressFollows DEF Probe
<1>6. /\ c.used \in Nat /\ c.used <= 0 /\ c.bytes \in Seq(Nat) /\ LibOk(c.l)
      /\ c.stop \in {"go", "starved", "full", "frame", "error"}
  BY <1>5 DEF TurnOk, CallRecord
<1>7. c.used = 0 /\ pos + c.used = pos
  BY <1>2, <1>6
<1>8. c.stop \in {"starved", "full", "frame"}
  <2>1. c.stop = "error" => c.used < 0
    BY <1>5 DEF TurnAlong
  <2>. QED  BY <1>5, <1>6, <1>7, <2>1
<1>9. h \in FrameRecord /\ h.owed = <<>>
  <2>1. Ended \in FrameRecord
    <3>1. FramesOk(Ended)
      BY <1>1, FramesChange DEF Ended
    <3>. QED  BY <3>1 DEF FramesOk
  <2>2. Ended.owed = f.owed /\ f.owed = <<>>
    BY <1>2 DEF Ended, FrameRecord, LibAt
  <2>. QED  BY <1>2, <2>1, <2>2
<1>. HIDE DEF h
<1>10. g.state = h.state /\ g.held = h.held /\ g.owed = c.bytes
  BY <1>9 DEF FrameRecord
<1>11. c.stop = "frame" => h.state = "BETWEEN" /\ h.held = <<>>
  BY <1>2 DEF Ended, FrameRecord, h
<1>12. c.stop # "frame" => h.state = "BODY"
  BY DEF LibAt, h
<1>. HIDE DEF g
<1>13. CASE c.stop = "frame"
  <2>1. c.l = FreshLib /\ FrameEnds(job, pos, out \o c.bytes)
    BY <1>5, <1>7, <1>13 DEF TurnAlong
  <2>2. Len(<<>>) = 0 /\ pos - 0 = pos /\ 0 <= pos
    BY <1>2
  <2>3. g.state = "BETWEEN" /\ g.held = <<>>
    BY <1>10, <1>11, <1>13
  <2>4. SubSeq(job.input, pos + 1, pos) = <<>>
    <3>1. Len(SubSeq(job.input, pos + 1, pos)) = pos - pos /\ pos - pos = 0
          /\ SubSeq(job.input, pos + 1, pos) \in Seq(STRING \X Nat)
      <4>1. pos <= pos /\ pos <= Len(job.input)
        BY <1>2, JobTypes
      <4>2. pos - pos = 0
        BY <1>2
      <4>. QED  BY <1>2, <4>1, <4>2, WindowIs
    <3>. QED  BY <3>1, EmptySeq
  <2>5. FrameAlong(job, fed, pos, out, g, c.l)
    BY <1>10, <2>1, <2>2, <2>3, <2>4 DEF FrameAlong
  <2>6. ProbeStands(c, g)
    BY <1>8, <1>10, <1>13, <2>5 DEF ProbeStands, g, h
  <2>. QED  BY <2>6
<1>14. CASE c.stop # "frame"
  <2>1. /\ LibStands(job, c.l, Place(c.l, pos), out \o c.bytes)
        /\ c.l.hostage => c.l.stage = "done" /\ c.used < 0
    BY <1>5, <1>7, <1>8, <1>14 DEF TurnAlong
  <2>2. ~c.l.hostage
    BY <1>7, <2>1
  <2>3. g.state = "BODY"
    BY <1>10, <1>12, <1>14
  <2>4. FrameAlong(job, fed, pos, out, g, c.l)
    BY <1>10, <2>1, <2>2, <2>3 DEF FrameAlong
  <2>5. ASSUME c.bytes = <<>>
        PROVE  c.l.pend = <<>> /\ LibStands(job, c.l, pos, out)
    <3>1. c.stop # "full"
      <4>1. c.stop = "full" => Len(c.bytes) = 1
        BY <1>5 DEF TurnAlong
      <4>2. Len(<<>>) # 1
        OBVIOUS
      <4>. QED  BY <2>5, <4>1, <4>2
    <3>2. c.l.pend = <<>>
      BY <1>5, <1>8, <1>14, <3>1 DEF TurnAlong
    <3>3. out \o c.bytes = out /\ Place(c.l, pos) = pos
      BY <1>2, <2>2, <2>5, NothingJoined DEF Place
    <3>. QED  BY <2>1, <3>2, <3>3
  <2>6. ProbeStands(c, g)
    BY <1>6, <1>8, <1>10, <1>14, <2>2, <2>4, <2>5 DEF ProbeStands, g, h
  <2>. QED  BY <2>6
<1>. QED  BY <1>13, <1>14

\* The answers to a probe the library did not refuse.
ProbeAnswer(c) ==
    \/ c.bytes # <<>> /\ Return(ZU_NEED_OUTPUT, pos, out)
    \/ c.bytes = <<>> /\ c.stop = "frame" /\ Continue(pos, out)
    \/ c.bytes = <<>> /\ c.stop # "frame" /\ Return(ZU_ERR_TRUNCATED, pos, out)

\* The library could not move, and the probe tells why.
LEMMA ProbedAlong ==
    ASSUME LoopInv, FrameInv, pc = "codec", LibAt, Stalled, AvailOut = 0, AvailIn = 0,
           flush = ZU_FINISH
    PROVE  FrameTurned(pos, out)
<1>. DEFINE c == Probe
            g == [IF c.stop = "frame" THEN Ended ELSE f EXCEPT !.owed = c.bytes]
<1>1. FramedCall
  BY FramedCallIs
<1>2. /\ job \in Jobs /\ out \in Seq(Nat) /\ pos \in 0 .. Len(job.input) /\ fed = Len(job.input)
      /\ pos = fed /\ Len(out) = call.out + call.allowance /\ Len(out) \in Nat
  BY <1>1 DEF FramedCall
<1>3. FramesOk(f') /\ LibOk(lib')
  BY StalledStep DEF FrameInv
<1>4. lib' = c.l /\ (c.stop # "error" => f' = g) /\ CarryOn(Probed(c), pos)
  BY DEF Stalled
<1>5. c.stop = "error" \/ ProbeAnswer(c)
  <2>. HIDE DEF c
  <2>. QED  BY <1>4, ProbedIs, Words DEF CarryOn, ProbeAnswer
<1>6. ProbeStands(c, g) /\ c.stop # "error"
  <2>1. PICK h : ProbeStands(c, h)
    BY ProbeFollows
  <2>2. h = g
    BY <2>1 DEF ProbeStands
  <2>3. c.stop # "error"
    BY <2>1 DEF ProbeStands
  <2>. QED  BY <2>1, <2>2, <2>3
<1>. HIDE DEF c, g
<1>7. FrameAlong(job, fed, pos, out, f', lib') /\ f'.owed = c.bytes
  BY <1>4, <1>6 DEF ProbeStands
<1>8. CASE c.bytes # <<>> /\ Return(ZU_NEED_OUTPUT, pos, out)
  <2>. DEFINE w == out \o f'.owed
  <2>1. Held(ReferenceOf(job), w) /\ w \in Seq(Nat) /\ f'.owed \in Seq(Nat)
    BY <1>2, <1>3, <1>7, FrameAlongHolds
  <2>2. Len(f'.owed) \in Nat /\ Len(f'.owed) # 0
    BY <1>7, <1>8, <2>1, EmptySeq
  <2>3. Len(w) = Len(out) + Len(f'.owed)
    BY <1>2, <2>1, Joined
  <2>4. ReferenceOf(job) \in RefRecord
    BY <1>2, ReferenceGrows
  <2>. DEFINE m == Len(ReferenceOf(job).out)
  <2>5. Len(w) <= m /\ m \in Nat
    BY <2>1, <2>4, HeldIsPrefix
  <2>. HIDE DEF w, m
  <2>6. m > Len(out)
    BY <1>2, <2>2, <2>3, <2>5
  <2>7. Len(ReferenceOf(job).out) > Len(out)
    BY <2>6 DEF m
  <2>. QED  BY <1>2, <1>3, <1>7, <1>8, <2>7, FrameWantsRoom
<1>9. CASE c.bytes = <<>> /\ c.stop = "frame" /\ Continue(pos, out)
  BY <1>2, <1>3, <1>7, <1>9, FrameGoesOn
<1>10. CASE c.bytes = <<>> /\ c.stop # "frame" /\ Return(ZU_ERR_TRUNCATED, pos, out)
  <2>. DEFINE l == c.l
  <2>1. l.pend = <<>> /\ ~l.hostage /\ LibOk(l) /\ LibStands(job, l, pos, out)
    BY <1>6, <1>10 DEF ProbeStands
  <2>. HIDE DEF l
  <2>. QED  BY <1>1, <1>2, <1>10, <2>1, CutShortFails
<1>. QED  BY <1>5, <1>6, <1>8, <1>9, <1>10 DEF ProbeAnswer

\* The library could not move.
LEMMA StalledAlong ==
    ASSUME LoopInv, FrameInv, pc = "codec", LibAt, Stalled, NEW c, Idle(c)
    PROVE  FrameTurned(pos, out)
<1>1. FramedCall
  BY FramedCallIs
<1>2. /\ job \in Jobs /\ out \in Seq(Nat) /\ pos \in 0 .. Len(job.input) /\ pos \in Nat
      /\ fed \in Nat /\ AvailIn \in Nat /\ AvailOut \in Nat /\ AvailIn = fed - pos
      /\ flush = ZU_FINISH => fed = Len(job.input)
      /\ Len(out) + AvailOut = call.out + call.allowance /\ Len(out) \in Nat
  BY <1>1 DEF FramedCall
<1>3. CASE AvailOut = 0 /\ AvailIn = 0 /\ flush = ZU_FINISH
  BY <1>3, ProbedAlong
<1>4. CASE ~(AvailOut = 0 /\ AvailIn = 0 /\ flush = ZU_FINISH)
  <2>1. /\ AvailOut = 0 /\ AvailIn > 0 => Return(ZU_NEED_OUTPUT, pos, out)
        /\ AvailIn = 0 /\ flush # ZU_FINISH => Return(ZU_NEED_INPUT, pos, out)
        /\ AvailOut > 0 /\ AvailIn = 0 /\ flush = ZU_FINISH => Return(ZU_ERR_TRUNCATED, pos, out)
        /\ f' = f /\ lib' = lib
    <3>. DEFINE st == CASE AvailOut = 0 /\ AvailIn > 0 -> ZU_NEED_OUTPUT
                       [] AvailIn = 0 /\ flush # ZU_FINISH -> ZU_NEED_INPUT
                       [] AvailOut > 0 /\ AvailIn = 0 /\ flush = ZU_FINISH -> ZU_ERR_TRUNCATED
                       [] AvailOut > 0 /\ AvailIn > 0 -> ZU_ERR_INTERNAL
    <3>1. Return(st, pos, out) /\ f' = f /\ lib' = lib
      BY <1>4 DEF Stalled
    <3>2. /\ AvailOut = 0 => ~(AvailOut > 0)
          /\ AvailIn = 0 => ~(AvailIn > 0)
      BY <1>2
    <3>3. AvailOut = 0 /\ AvailIn > 0 => st = ZU_NEED_OUTPUT
      BY <3>2, Zenon
    <3>4. AvailIn = 0 /\ flush # ZU_FINISH => st = ZU_NEED_INPUT
      BY <3>2, Zenon
    <3>5. AvailOut > 0 /\ AvailIn = 0 /\ flush = ZU_FINISH => st = ZU_ERR_TRUNCATED
      BY <3>2, Zenon
    <3>. HIDE DEF st
    <3>. QED  BY <3>1, <3>3, <3>4, <3>5
  <2>2. FramesOk(f') /\ LibOk(lib') /\ FrameAlong(job, fed, pos, out, f', lib')
    BY <2>1 DEF FrameInv, LibAt
  <2>3. CASE AvailOut = 0 /\ AvailIn > 0
    <3>1. MoreComes(job, out)
      BY <1>1, <1>2, <2>3, IdleMeans
    <3>2. Len(ReferenceOf(job).out) > Len(out)
      BY <1>2, <3>1, MoreIsInReference
    <3>3. Len(out) = call.out + call.allowance
      BY <1>2, <2>3
    <3>. QED  BY <1>2, <2>1, <2>2, <2>3, <3>2, <3>3, FrameWantsRoom
  <2>4. CASE AvailIn = 0 /\ flush # ZU_FINISH
    <3>1. pos = fed
      BY <1>2, <2>4
    <3>. QED  BY <1>2, <2>1, <2>2, <2>4, <3>1, FrameWaits
  <2>5. CASE AvailOut > 0 /\ AvailIn = 0 /\ flush = ZU_FINISH
    <3>1. pos = fed /\ fed = Len(job.input)
      BY <1>2, <2>5
    <3>. DEFINE l == c.l
    <3>2. l.pend = <<>> /\ ~l.hostage /\ LibOk(l) /\ LibStands(job, l, pos, out)
      BY <1>1, <1>2, <2>5, IdleMeans
    <3>. HIDE DEF l
    <3>. QED  BY <1>1, <2>1, <2>5, <3>1, <3>2, CutShortFails
  <2>6. CASE AvailOut > 0 /\ AvailIn > 0
    BY <1>1, <1>2, <2>6, IdleMeans
  <2>. QED  BY <1>2, <1>4, <2>3, <2>4, <2>5, <2>6
<1>. QED  BY <1>3, <1>4

\* An error of the library's is the stream's.
LEMMA LibErrorAlong ==
    ASSUME LoopInv, FrameInv, pc = "codec", FramedCall, LibAt, NEW c,
           TurnAlong(job, pos, out, AvailIn, AvailOut, c), TurnOk(c, AvailIn, AvailOut),
           c.stop = "error", Return(c.err, pos, out)
    PROVE  FrameTurned(pos, out)
<1>. DEFINE q == pos + c.used + 1  s == Readings(job)[q]  r == ReferenceOf(job)  w == c.bytes
            e == c.err
<1>1. /\ job \in Jobs /\ out \in Seq(Nat) /\ pos \in 0 .. Len(job.input) /\ pos \in Nat
      /\ fed \in Nat /\ AvailIn \in Nat /\ AvailOut \in Nat /\ AvailIn = fed - pos
      /\ fed <= Len(job.input) /\ Len(job.input) \in Nat /\ pos <= pos /\ pos <= fed
  BY DEF FramedCall
<1>2. /\ c.used < AvailIn /\ e # ZU_OK /\ s.err = e /\ s.out = out \o w
  BY DEF TurnAlong
<1>3. c.used \in Nat /\ w \in Seq(Nat) /\ Len(w) <= AvailOut
  BY DEF TurnOk, CallRecord
<1>4. q \in 0 .. Len(job.input)
  BY <1>1, <1>2, <1>3
<1>5. r = s /\ e \in StreamErrors
  <2>1. Readings(job)[q].err # ZU_OK
    BY <1>2
  <2>. HIDE DEF q
  <2>2. ReferenceOf(job) = Readings(job)[q] /\ Readings(job)[q].err \in StreamErrors
    BY <1>1, <1>4, <2>1, ReferenceGrows, ReadingErrs
  <2>. QED  BY <1>2, <2>2
<1>. HIDE DEF q, s, r, w, e
<1>6. VerdictOn(job, r) = e
  BY <1>2, <1>5, VerdictIs
<1>7. Len(r.out) <= call.out + call.allowance
  <2>. DEFINE o == out \o w
  <2>1. o = out \o w
    OBVIOUS
  <2>. HIDE DEF o
  <2>2. Len(o) <= call.out + call.allowance
    BY <1>1, <1>3, <2>1, FrameAdvance
  <2>. QED  BY <1>2, <1>5, <2>1, <2>2
<1>8. Held(r, out)
  <2>1. FramesOk(f) /\ LibOk(lib) /\ FrameAlong(job, fed, pos, out, f, lib)
    BY DEF FrameInv, LibAt
  <2>. QED  BY <1>1, <2>1, FrameAlongHolds DEF r
<1>9. e \in Errors /\ e \notin {ZU_ERR_MEMORY, ZU_ERR_TRAILING}
  BY <1>5, Words DEF StreamErrors, ZU_ERR_INVALID_DATA, ZU_ERR_CHECKSUM, ZU_ERR_OUTPUT_LIMIT,
       ZU_ERR_UNSUPPORTED, ZU_ERR_TRAILING
<1>10. r.err # ZU_OK
  BY <1>2, <1>5
<1>. QED  BY <1>6, <1>7, <1>8, <1>9, <1>10, FrameFails DEF e, r

\* A turn of the library that moved.
LEMMA MovedAlong ==
    ASSUME LoopInv, FrameInv, pc = "codec", FramedCall, LibAt, FrameInv', NEW c,
           TurnAlong(job, pos, out, AvailIn, AvailOut, c), TurnOk(c, AvailIn, AvailOut),
           c.stop \in {"starved", "full", "frame"},
           Continue(pos + c.used, out \o c.bytes), lib' = c.l,
           f' = IF c.stop = "frame" THEN Ended ELSE f
    PROVE  \E p, o : Advance(p, o) /\ FrameTurned(p, o)
<1>. DEFINE p == pos + c.used  o == out \o c.bytes
<1>1. /\ job \in Jobs /\ out \in Seq(Nat) /\ pos \in 0 .. Len(job.input) /\ pos \in Nat
      /\ fed \in Nat /\ AvailIn \in Nat /\ AvailOut \in Nat /\ AvailIn = fed - pos
      /\ fed <= Len(job.input) /\ Len(job.input) \in Nat /\ f \in FrameRecord
  BY DEF FramedCall
<1>2. /\ c.used \in Nat /\ c.used <= AvailIn /\ c.bytes \in Seq(Nat) /\ Len(c.bytes) <= AvailOut
  BY DEF TurnOk, CallRecord
<1>3. p \in Nat /\ pos <= p /\ p <= fed /\ (c.used < AvailIn => p < fed)
  BY <1>1, <1>2
<1>4. Continue(p, o)
  OBVIOUS
<1>5. o = out \o c.bytes
  OBVIOUS
<1>6. c.stop \in {"starved", "full"} =>
        /\ LibStands(job, c.l, Place(c.l, p), o)
        /\ c.l.hostage => c.l.stage = "done" /\ c.used < AvailIn
  BY DEF TurnAlong
<1>7. c.stop = "frame" => c.l = FreshLib /\ FrameEnds(job, p, o)
  BY DEF TurnAlong
<1>8. FramesOk(f') /\ LibOk(lib')
  BY DEF FrameInv
<1>. HIDE DEF p, o
<1>9. Advance(p, o) /\ o \in Seq(Nat) /\ p \in 0 .. Len(job.input)
  BY <1>2, <1>3, <1>5, FrameAdvance
<1>10. f.owed = <<>> /\ f.state = "BODY" /\ o \o <<>> = o
  BY <1>9, NothingJoined DEF LibAt
<1>11. CASE c.stop = "frame"
  <2>1. f'.state = "BETWEEN" /\ f'.held = <<>> /\ f'.owed = <<>>
    BY <1>1, <1>10, <1>11 DEF Ended, FrameRecord
  <2>2. Len(<<>>) = 0 /\ p - 0 = p /\ 0 <= p
    BY <1>3
  <2>3. SubSeq(job.input, p + 1, p) = <<>>
    <3>1. Len(SubSeq(job.input, p + 1, p)) = p - p /\ p - p = 0
          /\ SubSeq(job.input, p + 1, p) \in Seq(STRING \X Nat)
      <4>1. p <= p /\ p <= Len(job.input)
        BY <1>1, <1>3
      <4>2. p - p = 0
        BY <1>3
      <4>. QED  BY <1>1, <1>3, <4>1, <4>2, WindowIs
    <3>. QED  BY <3>1, EmptySeq
  <2>4. FrameAlong(job, fed, p, o, f', lib')
    BY <1>7, <1>10, <1>11, <2>1, <2>2, <2>3 DEF FrameAlong
  <2>. QED  BY <1>1, <1>4, <1>8, <1>9, <2>4, FrameGoesOn
<1>12. CASE c.stop # "frame"
  <2>1. f' = f /\ c.stop \in {"starved", "full"}
    BY <1>12
  <2>2. c.l.hostage => c.l.stage = "done" /\ p < fed
    BY <1>3, <1>6, <2>1
  <2>3. FrameAlong(job, fed, p, o, f', lib')
    BY <1>6, <1>10, <2>1, <2>2 DEF FrameAlong
  <2>. QED  BY <1>1, <1>4, <1>8, <1>9, <2>3, FrameGoesOn
<1>. QED  BY <1>11, <1>12

\* A turn of the library.
LEMMA BodyAlong ==
    ASSUME LoopInv, FrameInv, FrameAlong(job, fed, pos, out, f, lib), Body
    PROVE  \E p, o : Advance(p, o) /\ FrameTurned(p, o)
<1>0. pc = "codec" /\ f.owed = <<>> /\ f.state = "BODY"
  BY DEF Body, InState
<1>1. FramedCall /\ FrameInv'
  BY <1>0, FramedCallIs, BodyStep
<1>2. LibAt
  BY <1>0, <1>1, LibIsAt
<1>3. /\ job \in Jobs /\ out \in Seq(Nat) /\ pos \in Nat /\ pos <= pos /\ pos <= fed
      /\ Visible(AvailIn) /\ AvailOut \in Nat /\ LibOk(lib)
  BY <1>0, <1>1, VisibleFacts DEF FramedCall
<1>. DEFINE c == Decompress(AvailIn, AvailOut)
<1>4. TurnAlong(job, pos, out, AvailIn, AvailOut, c) /\ TurnOk(c, AvailIn, AvailOut)
      /\ c.stop # "go"
  BY <1>2, <1>3, DecompressFollows DEF LibAt
<1>5. \/ c.stop = "error" /\ Return(c.err, pos, out)
      \/ c.stop # "error" /\ c.stop # "frame" /\ c.used = 0 /\ c.bytes = <<>> /\ Stalled
      \/ /\ c.stop # "error" /\ Continue(pos + c.used, out \o c.bytes)
         /\ lib' = c.l /\ f' = IF c.stop = "frame" THEN Ended ELSE f
  <2>1. \E x \in {c} :
           IF x.stop = "error"
             THEN Return(x.err, pos, out) /\ UNCHANGED <<f, lib>>
           ELSE IF x.stop # "frame" /\ x.used = 0 /\ x.bytes = <<>>
             THEN Stalled
           ELSE /\ Continue(pos + x.used, out \o x.bytes)
                /\ lib' = x.l
                /\ f' = IF x.stop = "frame" THEN Ended ELSE f
    BY DEF Body
  <2>. HIDE DEF c
  <2>. QED  BY <2>1
<1>. HIDE DEF c
<1>6. c.stop \in {"starved", "full", "frame", "error"}
  <2>1. c.stop \in {"go", "starved", "full", "frame", "error"}
    BY <1>4 DEF TurnOk, CallRecord
  <2>. QED  BY <1>4, <2>1
<1>7. Advance(pos, out)
  BY <1>1, <1>3, FrameAdvanceIn
<1>8. CASE c.stop = "error" /\ Return(c.err, pos, out)
  <2>1. FrameTurned(pos, out)
    BY <1>0, <1>1, <1>2, <1>4, <1>8, LibErrorAlong
  <2>. QED  BY <1>7, <2>1
<1>9. CASE c.stop # "error" /\ c.stop # "frame" /\ c.used = 0 /\ c.bytes = <<>> /\ Stalled
  <2>1. Idle(c)
    BY <1>4, <1>6, <1>9 DEF Idle
  <2>2. FrameTurned(pos, out)
    BY <1>0, <1>2, <1>9, <2>1, StalledAlong
  <2>. QED  BY <1>7, <2>2
<1>10. CASE /\ c.stop # "error" /\ Continue(pos + c.used, out \o c.bytes)
            /\ lib' = c.l /\ f' = IF c.stop = "frame" THEN Ended ELSE f
  <2>1. c.stop \in {"starved", "full", "frame"}
    BY <1>6, <1>10
  <2>. QED  BY <1>0, <1>1, <1>2, <1>4, <1>10, <2>1, MovedAlong
<1>. QED  BY <1>5, <1>8, <1>9, <1>10

\* Every turn of a framed decoder follows the stream.
LEMMA FrameTurns ==
    ASSUME LoopInv, FrameInv, FrameAlong(job, fed, pos, out, f, lib), FrameStep, SliceInSight
    PROVE  \E p, o : Advance(p, o) /\ FrameTurned(p, o)
BY PayAlong, BetweenNoMoreAlong, BetweenLookAlong, BetweenHeldAlong, BodyAlong DEF FrameStep

----------------------------------------------------------------------------
(***************************************************************************)
(* What a decode of frames returns.                                        *)
(***************************************************************************)
\* Of the end of a stream, the verdict on it.
LEMMA FrameEndVerdict ==
    ASSUME NEW j \in Jobs, NEW p \in Nat, NEW fedTo \in Nat, p <= fedTo, fedTo <= Len(j.input),
           NEW o, StreamEndsAt(j, fedTo, p, o),
           NEW r, r = ReferenceOf(j), NEW v, v = VerdictOn(j, r)
    PROVE  /\ o = r.out /\ r.end \in Nat /\ r.end <= p /\ p <= r.end + 3
           /\ IsMagicPrefix(SubSeq(j.input, r.end + 1, p))
           /\ v \in {ZU_STREAM_END, ZU_ERR_TRAILING}
           /\ p < fedTo => v = IF j.opts.reject THEN ZU_ERR_TRAILING ELSE ZU_STREAM_END
           /\ p = fedTo => \/ v = ZU_STREAM_END
                           \/ /\ v = ZU_ERR_TRAILING /\ ~j.opts.concat /\ r.end = fedTo
                              /\ fedTo < Len(j.input)
           /\ v = ZU_ERR_TRAILING /\ j.driver = "whole" => ~HeldTail(j, r.end)
<1>. DEFINE N == Len(j.input)
<1>0. N \in Nat /\ 0 \in 0 .. N
  BY JobTypes
<1>1. /\ r.err = ZU_OK /\ r.out = o
      /\ r.phase = IF r.end = N THEN "between" ELSE "tail"
      /\ r.end <= p /\ p <= r.end + 3
      /\ IsMagicPrefix(SubSeq(j.input, r.end + 1, p))
      /\ fedTo = p =>
             \/ p = N /\ (r.end = p \/ ~j.opts.reject)
             \/ ~j.opts.concat /\ p = r.end
      /\ j.driver = "whole" /\ j.opts.reject => ~HeldTail(j, r.end)
  BY DEF StreamEndsAt
<1>2. r.end \in Nat
  <2>1. r \in RefRecord
    BY <1>0, ReferenceGrows
  <2>. QED  BY <2>1 DEF RefRecord
<1>3. v = IF r.end = N \/ ~j.opts.reject THEN ZU_STREAM_END ELSE ZU_ERR_TRAILING
  <2>1. CASE r.end = N
    <3>1. r.phase = "between"
      BY <1>1, <2>1
    <3>. QED  BY <1>1, <2>1, <3>1, VerdictIs
  <2>2. CASE r.end # N
    <3>1. r.phase = "tail"
      BY <1>1, <2>2
    <3>. QED  BY <1>1, <2>2, <3>1, VerdictIs
  <2>. QED  BY <2>1, <2>2
<1>. HIDE DEF N
<1>4. p < fedTo => r.end # N
  BY <1>0, <1>1, <1>2 DEF N
<1>5. p = fedTo => \/ v = ZU_STREAM_END
                   \/ /\ v = ZU_ERR_TRAILING /\ ~j.opts.concat /\ r.end = fedTo
                      /\ fedTo < N
  <2>. SUFFICES ASSUME p = fedTo, v # ZU_STREAM_END
                PROVE  v = ZU_ERR_TRAILING /\ ~j.opts.concat /\ r.end = fedTo /\ fedTo < N
    OBVIOUS
  <2>1. r.end # N /\ j.opts.reject /\ v = ZU_ERR_TRAILING
    BY <1>3
  <2>2. ~j.opts.concat /\ p = r.end
    BY <1>1, <2>1
  <2>3. fedTo <= N
    BY DEF N
  <2>. QED  BY <1>0, <1>2, <2>1, <2>2, <2>3
<1>6. v = ZU_ERR_TRAILING => j.opts.reject
  BY <1>3, Words
<1>. QED  BY <1>1, <1>2, <1>3, <1>4, <1>5, <1>6 DEF N

\* The answer of a whole-buffer decode.
FrameVerdictRight(res, o) ==
    LET r == ReferenceOf(job)
        v == VerdictOn(job, r)
    IN  /\ \/ res = LimitedVerdict
           \/ /\ HasCeiling(job.opts) /\ res = OverStatus(job.opts)
              /\ Len(r.out) = Ceiling(job.opts) /\ r.err # ZU_OK
           \/ /\ ~job.opts.concat /\ r.end % job.in_chunk = 0
              /\ v = ZU_ERR_TRAILING /\ res = ZU_STREAM_END
           \/ job.opts.max_ratio # 0 /\ res = ZU_ERR_RATIO_LIMIT
        /\ res = ZU_STREAM_END =>
             /\ o = r.out
             /\ job.opts.has_expected => Len(o) = job.opts.expected_size

\* The place it stops at.
FrameConsumedRight(res, p) ==
    LET end == ReferenceOf(job).end
    IN  res = ZU_STREAM_END =>
          p \in end .. end + 3 /\ IsMagicPrefix(SubSeq(job.input, end + 1, p))

\* The limits on the stream's verdict.
LEMMA LimitedIs ==
    ASSUME NEW r, r = ReferenceOf(job), NEW v, v = VerdictOn(job, r),
           NEW m, m = Len(r.out), NEW held, held = HeldTail(job, r.end)
    PROVE  /\ HasCeiling(job.opts) /\ m > Ceiling(job.opts) =>
                LimitedVerdict = OverStatus(job.opts)
           /\ ~(HasCeiling(job.opts) /\ m > Ceiling(job.opts)) =>
                /\ /\ job.opts.has_expected /\ m # job.opts.expected_size
                   /\ v = ZU_STREAM_END \/ (v = ZU_ERR_TRAILING /\ ~held)
                   => LimitedVerdict = ZU_ERR_INVALID_DATA
                /\ ~(/\ job.opts.has_expected /\ m # job.opts.expected_size
                     /\ v = ZU_STREAM_END \/ (v = ZU_ERR_TRAILING /\ ~held))
                   => LimitedVerdict = v
BY DEF LimitedVerdict, RefVerdict, Reference

\* No answer of the codec's is over a limit.
LEMMA WithinLimits ==
    ASSUME LoopInv, pc = "codec", NEW p, NEW o, Advance(p, o)
    PROVE  /\ HasCeiling(job.opts) =>
                /\ Ceiling(job.opts) \in Nat /\ Len(o) <= Ceiling(job.opts)
                /\ call.out + call.allowance <= Ceiling(job.opts)
           /\ job.opts.max_output # 0 => Len(o) <= job.opts.max_output
           /\ job.opts.has_expected => Len(o) <= job.opts.expected_size
<1>1. /\ Len(o) \in Nat /\ job.opts \in LimitOpts
  BY ReturnPlaces
<1>2. HasCeiling(job.opts) => Len(o) <= Ceiling(job.opts)
  BY AdvanceKeepsCeiling
<1>3. Ceiling(job.opts) \in Nat /\ (HasCeiling(job.opts) => call.out + call.allowance <= Ceiling(job.opts))
  <2>1. /\ call.out = total_out /\ call.allowance = Allowance(job.opts, total_out, Window)
        /\ Window \in Nat
    BY DEF LoopInv, CallInProgress
  <2>2. total_out \in Nat /\ total_out <= Len(out) /\ (HasCeiling(job.opts) => Len(out) <= Ceiling(job.opts))
    BY <2>1 DEF LoopInv, CallInProgress, CursorsInOrder, CountersAreCursors
  <2>3. Ceiling(job.opts) \in Nat
    BY <1>1, <2>1, <2>2, AllowanceKeepsCeiling
  <2>4. Len(out) \in Nat
    BY LoopFacts
  <2>5. HasCeiling(job.opts) => total_out <= Ceiling(job.opts)
    BY <2>2, <2>3, <2>4
  <2>6. HasCeiling(job.opts) => total_out + Allowance(job.opts, total_out, Window) <= Ceiling(job.opts)
    BY <1>1, <2>1, <2>2, <2>5, AllowanceKeepsCeiling
  <2>. QED  BY <2>1, <2>3, <2>6
<1>4. /\ job.opts.max_output \in Nat /\ job.opts.expected_size \in Nat
      /\ job.opts.has_expected \in BOOLEAN
  BY <1>1, U64MaxAssumption DEF LimitOpts
<1>5. /\ job.opts.max_output # 0 => HasCeiling(job.opts) /\ Ceiling(job.opts) <= job.opts.max_output
      /\ job.opts.has_expected => HasCeiling(job.opts) /\ Ceiling(job.opts) <= job.opts.expected_size
  BY <1>4 DEF HasCeiling, Ceiling, ExpectedBinds
<1>6. job.opts.max_output # 0 => Len(o) <= job.opts.max_output
  BY <1>1, <1>2, <1>3, <1>4, <1>5
<1>7. job.opts.has_expected => Len(o) <= job.opts.expected_size
  BY <1>1, <1>2, <1>3, <1>4, <1>5
<1>. QED  BY <1>2, <1>3, <1>6, <1>7

\* A return that ends a whole-buffer decode answers rightly and stops at the
\* right place.
LEMMA FrameWholeCloses ==
    ASSUME LoopInv, pc = "codec", Whole, fed < Len(job.input) => fed % job.in_chunk = 0,
           NEW p, NEW o, NEW st \in Status, Advance(p, o), Return(st, p, o),
           FrameJudged(job, fed, flush, call.out + call.allowance, st, p, o),
           Held(ReferenceOf(job), o), result' # Running
    PROVE  FrameVerdictRight(result', o) /\ FrameConsumedRight(result', p)
<1>. DEFINE r == ReferenceOf(job)  v == VerdictOn(job, r)  n == Len(o)  N == Len(job.input)
            opts == job.opts  m == Len(r.out)  top == Ceiling(opts)
            room == call.out + call.allowance  held == HeldTail(job, r.end)
<1>1. PICK c, d : ReturnedWith(c, d, st, p, o)
  BY ReturnDecides
<1>2. /\ p \in Nat /\ fed \in Nat /\ p <= fed /\ fed <= N /\ N \in Nat
      /\ job \in Jobs /\ o \in Seq(Nat) /\ n \in Nat /\ opts \in LimitOpts
      /\ flush = ZU_FINISH <=> fed = N
      /\ call.out \in Nat /\ call.allowance \in Nat /\ room \in Nat
      /\ call.out <= n /\ n <= room
      /\ call.capped => HasCeiling(opts) /\ room = top
  BY ReturnPlaces
<1>3. r \in RefRecord
  <2>1. 0 \in 0 .. Len(job.input)
    BY <1>2
  <2>. QED  BY <1>2, <2>1, ReferenceGrows
<1>4. n <= m /\ m \in Nat
  BY <1>2, <1>3, HeldIsPrefix
<1>5. /\ HasCeiling(opts) => top \in Nat /\ n <= top /\ room <= top
      /\ opts.max_output # 0 => n <= opts.max_output
      /\ opts.has_expected => n <= opts.expected_size
  BY WithinLimits
<1>6. result' = WholeResult(d, o)
  BY <1>1 DEF ReturnedWith
<1>7. Decides(opts, c, d) /\ c.st = st /\ c.left = fed - p /\ c.total_out = n
      /\ c.capped = call.capped /\ c.allowance = call.allowance /\ c.produced = n - call.out
  BY <1>1 DEF ReturnedWith
<1>8. st = ZU_STREAM_END =>
         /\ o = r.out /\ r.end \in Nat /\ r.end <= p /\ p <= r.end + 3
         /\ IsMagicPrefix(SubSeq(job.input, r.end + 1, p))
         /\ v \in {ZU_STREAM_END, ZU_ERR_TRAILING}
         /\ p < fed => v = IF opts.reject THEN ZU_ERR_TRAILING ELSE ZU_STREAM_END
         /\ p = fed => \/ v = ZU_STREAM_END
                       \/ /\ v = ZU_ERR_TRAILING /\ ~opts.concat /\ r.end = fed
                          /\ fed < N
         /\ v = ZU_ERR_TRAILING => ~held
  BY <1>2, FrameEndVerdict DEF FrameJudged, Whole
<1>9. /\ st \in Errors => v = st /\ m <= room
      /\ st \in Errors /\ p # fed => r.err # ZU_OK
      /\ st = ZU_ERR_TRAILING => held
      /\ st = ZU_NEED_INPUT => fed # N /\ p = fed
      /\ st = ZU_NEED_OUTPUT => n = room /\ m > n
      /\ st # ZU_OK
  BY <1>2 DEF FrameJudged, Whole
<1>10. /\ FrameVerdictRight(result', o) <=>
            /\ \/ result' = LimitedVerdict
               \/ HasCeiling(opts) /\ result' = OverStatus(opts) /\ m = top /\ r.err # ZU_OK
               \/ /\ ~opts.concat /\ r.end % job.in_chunk = 0
                  /\ v = ZU_ERR_TRAILING /\ result' = ZU_STREAM_END
               \/ opts.max_ratio # 0 /\ result' = ZU_ERR_RATIO_LIMIT
            /\ result' = ZU_STREAM_END =>
                 /\ o = r.out
                 /\ opts.has_expected => n = opts.expected_size
       /\ FrameConsumedRight(result', p) <=>
            (result' = ZU_STREAM_END =>
               p \in r.end .. r.end + 3 /\ IsMagicPrefix(SubSeq(job.input, r.end + 1, p)))
  BY DEF FrameVerdictRight, FrameConsumedRight
<1>11. /\ HasCeiling(opts) /\ m > top => LimitedVerdict = OverStatus(opts)
       /\ ~(HasCeiling(opts) /\ m > top) =>
            /\ /\ opts.has_expected /\ m # opts.expected_size
               /\ v = ZU_STREAM_END \/ (v = ZU_ERR_TRAILING /\ ~held)
               => LimitedVerdict = ZU_ERR_INVALID_DATA
            /\ ~(/\ opts.has_expected /\ m # opts.expected_size
                 /\ v = ZU_STREAM_END \/ (v = ZU_ERR_TRAILING /\ ~held))
               => LimitedVerdict = v
  BY LimitedIs
<1>12. HasCeiling(opts) =>
         OverStatus(opts) \in {ZU_ERR_INVALID_DATA, ZU_ERR_OUTPUT_LIMIT}
  BY <1>2, OverIs
<1>. HIDE DEF r, v, n, N, opts, m, top, room, held
<1>13. d \in Errors => result' = d
  BY <1>6, Words DEF WholeResult, Progress
<1>14. d = ZU_STREAM_END => result' = d
  BY <1>6 DEF WholeResult
<1>15. \A e \in {ZU_ERR_INVALID_DATA, ZU_ERR_OUTPUT_LIMIT, ZU_ERR_TRAILING, ZU_ERR_RATIO_LIMIT} :
          e \in Errors /\ e # ZU_STREAM_END
  BY Words
<1>16. CASE c.st = ZU_STREAM_END /\ opts.has_expected /\ c.total_out # opts.expected_size
            /\ d = ZU_ERR_INVALID_DATA
  <2>1. result' = ZU_ERR_INVALID_DATA /\ result' # ZU_STREAM_END
    BY <1>13, <1>15, <1>16
  <2>2. /\ m = n /\ m # opts.expected_size
        /\ v = ZU_STREAM_END \/ (v = ZU_ERR_TRAILING /\ ~held)
    BY <1>7, <1>8, <1>16 DEF m, n
  <2>3. ~(HasCeiling(opts) /\ m > top)
    BY <1>2, <1>5, <2>2
  <2>4. LimitedVerdict = ZU_ERR_INVALID_DATA
    BY <1>11, <1>16, <2>2, <2>3, Zenon
  <2>. QED  BY <1>10, <2>1, <2>4, Zenon
<1>17. CASE /\ c.st = ZU_STREAM_END /\ c.left > 0 /\ opts.reject /\ d = ZU_ERR_TRAILING
            /\ opts.has_expected => c.total_out = opts.expected_size
  <2>1. result' = ZU_ERR_TRAILING /\ result' # ZU_STREAM_END
    BY <1>13, <1>15, <1>17
  <2>2. p < fed
    BY <1>2, <1>7, <1>17
  <2>3. v = ZU_ERR_TRAILING
    BY <1>7, <1>8, <1>17, <2>2
  <2>4. m = n /\ (opts.has_expected => m = opts.expected_size)
    BY <1>7, <1>8, <1>17 DEF m, n
  <2>5. ~(HasCeiling(opts) /\ m > top)
    BY <1>2, <1>5, <2>4
  <2>6. LimitedVerdict = v
    BY <1>11, <2>4, <2>5, Zenon
  <2>. QED  BY <1>10, <2>1, <2>3, <2>6, Zenon
<1>18. CASE /\ c.capped /\ c.st # ZU_STREAM_END /\ d = OverStatus(opts)
            /\ \/ c.st = ZU_NEED_OUTPUT /\ c.produced = c.allowance
               \/ c.allowance = 0 /\ c.left > 0
  <2>1. HasCeiling(opts) /\ room = top /\ top \in Nat
    BY <1>2, <1>5, <1>7, <1>18
  <2>2. result' = OverStatus(opts) /\ result' # ZU_STREAM_END
    BY <1>12, <1>13, <1>15, <1>18, <2>1
  <2>3. CASE st = ZU_NEED_OUTPUT
    <3>1. m > top
      BY <1>9, <2>1, <2>3
    <3>2. LimitedVerdict = OverStatus(opts)
      BY <1>11, <2>1, <3>1, Zenon
    <3>. QED  BY <1>10, <2>2, <3>2, Zenon
  <2>4. CASE st # ZU_NEED_OUTPUT
    <3>1. c.allowance = 0 /\ c.left > 0
      BY <1>7, <1>18, <2>4
    <3>2. call.allowance = 0 /\ p < fed
      BY <1>2, <1>7, <3>1
    <3>3. st \in Errors
      BY <1>7, <1>9, <1>18, <2>4, <3>2, <1>2 DEF Status, Progress
    <3>4. m <= room /\ r.err # ZU_OK
      BY <1>2, <1>9, <3>2, <3>3
    <3>5. room = call.out
      BY <1>2, <3>2 DEF room
    <3>6. m = top
      BY <1>2, <1>4, <2>1, <3>4, <3>5
    <3>. QED  BY <1>10, <2>1, <2>2, <3>4, <3>6, Zenon
  <2>. QED  BY <2>3, <2>4
<1>19. CASE opts.max_output # 0 /\ c.total_out > opts.max_output /\ d = ZU_ERR_OUTPUT_LIMIT
  <2>1. n <= opts.max_output /\ n > opts.max_output /\ opts.max_output \in Nat
    BY <1>2, <1>5, <1>7, <1>19, U64MaxAssumption DEF LimitOpts
  <2>. QED  BY <1>2, <2>1
<1>20. CASE opts.has_expected /\ c.total_out > opts.expected_size /\ d = ZU_ERR_INVALID_DATA
  <2>1. n <= opts.expected_size /\ n > opts.expected_size /\ opts.expected_size \in Nat
    BY <1>2, <1>5, <1>7, <1>20, U64MaxAssumption DEF LimitOpts
  <2>. QED  BY <1>2, <2>1
<1>21. CASE opts.max_ratio # 0 /\ d = ZU_ERR_RATIO_LIMIT
  <2>1. result' = ZU_ERR_RATIO_LIMIT /\ result' # ZU_STREAM_END
    BY <1>13, <1>15, <1>21
  <2>. QED  BY <1>10, <1>21, <2>1, Zenon
<1>22. CASE /\ d = c.st
            /\ c.st = ZU_STREAM_END => /\ opts.has_expected => c.total_out = opts.expected_size
                                       /\ ~(c.left > 0 /\ opts.reject)
  <2>1. d = st
    BY <1>7, <1>22
  <2>2. CASE st \in Errors
    <3>1. result' = v /\ result' # ZU_STREAM_END /\ m <= room
      BY <1>9, <1>13, <2>1, <2>2, Words
    <3>2. ~(HasCeiling(opts) /\ m > top)
      BY <1>2, <1>4, <1>5, <3>1
    <3>3. v # ZU_STREAM_END /\ (v = ZU_ERR_TRAILING => held)
      BY <1>9, <2>2, <3>1
    <3>4. LimitedVerdict = v
      BY <1>11, <3>2, <3>3, Zenon
    <3>. QED  BY <1>10, <3>1, <3>4, Zenon
  <2>3. CASE st = ZU_STREAM_END
    <3>1. result' = ZU_STREAM_END
      BY <1>14, <2>1, <2>3
    <3>2. /\ o = r.out /\ r.end \in Nat /\ r.end <= p /\ p <= r.end + 3
          /\ IsMagicPrefix(SubSeq(job.input, r.end + 1, p))
          /\ v \in {ZU_STREAM_END, ZU_ERR_TRAILING}
          /\ p < fed => v = IF opts.reject THEN ZU_ERR_TRAILING ELSE ZU_STREAM_END
          /\ p = fed => \/ v = ZU_STREAM_END
                        \/ /\ v = ZU_ERR_TRAILING /\ ~opts.concat /\ r.end = fed
                           /\ fed < N
      BY <1>8, <2>3, Zenon
    <3>3. p \in r.end .. r.end + 3
      BY <1>2, <3>2
    <3>4. v = ZU_STREAM_END \/ (v = ZU_ERR_TRAILING /\ ~opts.concat /\ r.end % job.in_chunk = 0)
      <4>1. CASE p < fed
        <5>1. ~opts.reject
          BY <1>2, <1>7, <1>22, <2>3, <4>1
        <5>. QED  BY <3>2, <4>1, <5>1
      <4>2. CASE p = fed
        <5>. SUFFICES ASSUME v # ZU_STREAM_END
                      PROVE  v = ZU_ERR_TRAILING /\ ~opts.concat /\ r.end % job.in_chunk = 0
          OBVIOUS
        <5>1. v = ZU_ERR_TRAILING /\ ~opts.concat /\ r.end = fed /\ fed < N
          BY <3>2, <4>2, Zenon
        <5>2. fed % job.in_chunk = 0
          BY <5>1 DEF N
        <5>. QED  BY <5>1, <5>2, Zenon
      <4>. QED  BY <1>2, <4>1, <4>2
    <3>5. m = n
      BY <3>2 DEF m, n
    <3>6. opts.has_expected => m = opts.expected_size
      BY <1>7, <1>22, <2>3, <3>5
    <3>7. ~(HasCeiling(opts) /\ m > top)
      BY <1>2, <1>5, <3>5
    <3>8. LimitedVerdict = v
      BY <1>11, <3>6, <3>7, Zenon
    <3>9. \/ result' = LimitedVerdict
          \/ /\ ~opts.concat /\ r.end % job.in_chunk = 0
             /\ v = ZU_ERR_TRAILING /\ result' = ZU_STREAM_END
      BY <3>1, <3>4, <3>8, Zenon
    <3>10. opts.has_expected => n = opts.expected_size
      BY <3>5, <3>6
    <3>. QED  BY <1>10, <3>2, <3>3, <3>9, <3>10, Zenon
  <2>4. CASE st \in {ZU_NEED_INPUT, ZU_NEED_OUTPUT}
    <3>1. st = ZU_NEED_INPUT => ~(fed >= Len(job.input))
      BY <1>2, <1>9 DEF N
    <3>2. result' = Running
      BY <1>6, <2>1, <2>4, <3>1, Words DEF WholeResult, Progress
    <3>. QED  BY <3>2
  <2>. QED  BY <1>9, <2>2, <2>3, <2>4 DEF Status, Progress
<1>. QED  BY <1>7, <1>16, <1>17, <1>18, <1>19, <1>20, <1>21, <1>22 DEF Decides

----------------------------------------------------------------------------
(***************************************************************************)
(* One-shot decodes, by each of the codecs.                                *)
(***************************************************************************)
\* No limits but the buffer.
NoLimit == ~HasCeiling(job.opts) /\ job.opts.max_ratio = 0

\* What a one-shot call on a stream with this verdict and these bytes gives.
OneShotIs(verdicts, bytes, res, o) ==
    LET cap == job.out_chunk
    IN  IF verdicts = {ZU_STREAM_END}
          THEN IF Len(bytes) <= cap THEN res = ZU_OK /\ o = bytes
               ELSE res = ZU_ERR_OUTPUT_LIMIT
          ELSE \/ res \in verdicts
               \/ res = ZU_ERR_OUTPUT_LIMIT /\ Len(bytes) >= cap

\* For frames.
FrameOneShot(res, o) ==
    OneShotIs({VerdictOn(job, ReferenceOf(job))}, ReferenceOf(job).out, res, o)

\* A return that ends a one-shot decode without limits gives it.
LEMMA FrameOneShotCloses ==
    ASSUME LoopInv, pc = "codec", ~Whole, fed = Len(job.input), NoLimit,
           NEW p, NEW o, NEW st \in Status, Advance(p, o), Return(st, p, o),
           FrameJudged(job, fed, flush, call.out + call.allowance, st, p, o),
           Held(ReferenceOf(job), o), result' # Running
    PROVE  FrameOneShot(result', o)
<1>. DEFINE r == ReferenceOf(job)  v == VerdictOn(job, r)  n == Len(o)  N == Len(job.input)
            opts == job.opts  m == Len(r.out)  cap == job.out_chunk
<1>1. PICK c, d : ReturnedWith(c, d, st, p, o)
  BY ReturnDecides
<1>2. /\ p \in Nat /\ fed \in Nat /\ p <= fed /\ fed = N /\ N \in Nat
      /\ job \in Jobs /\ o \in Seq(Nat) /\ n \in Nat /\ opts \in LimitOpts
      /\ flush = ZU_FINISH /\ cap \in Nat
  BY ReturnPlaces
<1>3. r \in RefRecord
  <2>1. 0 \in 0 .. Len(job.input)
    BY <1>2
  <2>. QED  BY <1>2, <2>1, ReferenceGrows
<1>4. n <= m /\ m \in Nat
  BY <1>2, <1>3, HeldIsPrefix
<1>5. opts.max_output = 0 /\ opts.has_expected = FALSE /\ opts.max_ratio = 0
  BY <1>2 DEF NoLimit, HasCeiling, LimitOpts
<1>6. result' = OneShotResult(d, p, o)
  BY <1>1 DEF ReturnedWith
<1>7. Decides(opts, c, d) /\ c.st = st /\ c.left = fed - p /\ c.capped = call.capped
  BY <1>1 DEF ReturnedWith
<1>8. call.capped = FALSE /\ call.out + call.allowance = cap /\ n <= cap
  <2>1. call.capped = FALSE
    BY ReturnPlaces DEF NoLimit
  <2>. QED  BY <2>1, ReturnPlaces
<1>9. st = ZU_STREAM_END =>
         /\ o = r.out /\ v \in {ZU_STREAM_END, ZU_ERR_TRAILING}
         /\ p = N => v = ZU_STREAM_END
         /\ p # N => v = IF opts.reject THEN ZU_ERR_TRAILING ELSE ZU_STREAM_END
  <2>. SUFFICES ASSUME st = ZU_STREAM_END
                PROVE  /\ o = r.out /\ v \in {ZU_STREAM_END, ZU_ERR_TRAILING}
                       /\ p = N => v = ZU_STREAM_END
                       /\ p # N => v = IF opts.reject THEN ZU_ERR_TRAILING ELSE ZU_STREAM_END
    OBVIOUS
  <2>1. StreamEndsAt(job, fed, p, o)
    BY DEF FrameJudged
  <2>2. /\ o = r.out /\ v \in {ZU_STREAM_END, ZU_ERR_TRAILING}
        /\ p < fed => v = IF opts.reject THEN ZU_ERR_TRAILING ELSE ZU_STREAM_END
        /\ p = fed => v = ZU_STREAM_END \/ fed < N
    BY <1>2, <2>1, FrameEndVerdict
  <2>. HIDE DEF v, r, opts, N
  <2>. QED  BY <1>2, <2>2
<1>10. st \in Errors => v = st
  BY DEF FrameJudged
<1>11. st # ZU_NEED_INPUT /\ st # ZU_OK
  BY <1>2 DEF FrameJudged
<1>12. st = ZU_NEED_OUTPUT => n = cap /\ m > n
  BY <1>2, <1>8 DEF FrameJudged
<1>13. FrameOneShot(result', o) <=>
         IF v = ZU_STREAM_END
          THEN IF m <= cap THEN result' = ZU_OK /\ o = r.out ELSE result' = ZU_ERR_OUTPUT_LIMIT
          ELSE result' = v \/ (result' = ZU_ERR_OUTPUT_LIMIT /\ m >= cap)
  <2>1. FrameOneShot(result', o) <=> OneShotIs({v}, r.out, result', o)
    BY DEF FrameOneShot
  <2>. HIDE DEF v, r
  <2>2. {v} = {ZU_STREAM_END} <=> v = ZU_STREAM_END
    OBVIOUS
  <2>3. result' \in {v} <=> result' = v
    OBVIOUS
  <2>. QED  BY <2>1, <2>2, <2>3 DEF OneShotIs
<1>14. st = ZU_STREAM_END => m = n
  BY <1>9
<1>15. st = ZU_NEED_OUTPUT /\ d = st => result' = ZU_ERR_OUTPUT_LIMIT
  BY <1>6, <1>12, Words DEF OneShotResult, Progress
<1>. HIDE DEF r, v, n, N, opts, m, cap
<1>16. d \in Errors => result' = d
  BY <1>6, Words DEF OneShotResult, Progress
<1>17. d = ZU_STREAM_END => result' = ZU_OK
  BY <1>6 DEF OneShotResult
<1>18. \/ c.st = ZU_STREAM_END /\ c.left > 0 /\ opts.reject /\ d = ZU_ERR_TRAILING
       \/ d = c.st /\ (c.st = ZU_STREAM_END => ~(c.left > 0 /\ opts.reject))
  BY <1>5, <1>7, <1>8 DEF Decides
<1>19. CASE c.st = ZU_STREAM_END /\ c.left > 0 /\ opts.reject /\ d = ZU_ERR_TRAILING
  <2>1. p # N
    BY <1>2, <1>7, <1>19
  <2>2. v = ZU_ERR_TRAILING /\ result' = ZU_ERR_TRAILING
    BY <1>7, <1>9, <1>16, <1>19, <2>1, Words
  <2>. QED  BY <1>13, <2>2, Words
<1>20. CASE d = c.st /\ (c.st = ZU_STREAM_END => ~(c.left > 0 /\ opts.reject))
  <2>1. d = st
    BY <1>7, <1>20
  <2>2. CASE st \in Errors
    <3>1. result' = v /\ v # ZU_STREAM_END
      BY <1>10, <1>16, <2>1, <2>2, Words
    <3>. QED  BY <1>13, <3>1
  <2>3. CASE st = ZU_STREAM_END
    <3>1. v = ZU_STREAM_END
      <4>1. CASE p = N \/ ~opts.reject
        BY <1>9, <2>3, <4>1
      <4>2. CASE p # N /\ opts.reject
        BY <1>2, <1>7, <1>20, <2>3, <4>2
      <4>. QED  BY <4>1, <4>2
    <3>2. result' = ZU_OK /\ o = r.out /\ m <= cap
      BY <1>8, <1>9, <1>14, <1>17, <2>1, <2>3
    <3>. QED  BY <1>13, <3>1, <3>2
  <2>4. CASE st = ZU_NEED_OUTPUT
    <3>1. result' = ZU_ERR_OUTPUT_LIMIT /\ n = cap /\ m > n
      BY <1>12, <1>15, <2>1, <2>4
    <3>2. m >= cap /\ ~(m <= cap)
      BY <1>2, <1>4, <3>1
    <3>. QED  BY <1>13, <3>1, <3>2
  <2>. QED  BY <1>11, <2>2, <2>3, <2>4 DEF Status, Progress
<1>. QED  BY <1>18, <1>19, <1>20

\* Without limits the driver of a one-shot call passes on what the codec says.
LEMMA PlainReturn ==
    ASSUME LoopInv, pc = "codec", ~Whole, NoLimit, NEW p, NEW o, NEW st, Advance(p, o),
           Return(st, p, o), st = ZU_STREAM_END => p = fed
    PROVE  /\ out' = o /\ job' = job /\ Len(o) \in Nat /\ Len(o) <= job.out_chunk
           /\ call.out + call.allowance = job.out_chunk /\ job.out_chunk \in Nat
           /\ st \in Errors => result' = st
           /\ st = ZU_STREAM_END => result' = ZU_OK
           /\ st = ZU_NEED_OUTPUT /\ Len(o) = call.out + call.allowance =>
                result' = ZU_ERR_OUTPUT_LIMIT
<1>1. PICK c, d : ReturnedWith(c, d, st, p, o)
  BY ReturnDecides
<1>2. /\ p \in Nat /\ fed \in Nat /\ job.opts \in LimitOpts /\ job.out_chunk \in Nat
      /\ Len(o) \in Nat /\ Len(o) <= call.out + call.allowance
  BY ReturnPlaces
<1>3. job.opts.max_output = 0 /\ job.opts.has_expected = FALSE /\ job.opts.max_ratio = 0
  BY <1>2 DEF NoLimit, HasCeiling, LimitOpts
<1>4. call.capped = FALSE /\ call.out + call.allowance = job.out_chunk
  <2>1. call.capped = FALSE
    BY ReturnPlaces DEF NoLimit
  <2>. QED  BY <2>1, ReturnPlaces
<1>5. /\ Decides(job.opts, c, d) /\ c.st = st /\ c.left = fed - p /\ c.capped = FALSE
      /\ result' = OneShotResult(d, p, o)
  BY <1>1, <1>4 DEF ReturnedWith
<1>6. c.st = ZU_STREAM_END => c.left = 0
  BY <1>2, <1>5
<1>7. d = st
  BY <1>3, <1>5, <1>6 DEF Decides
<1>8. st \in Errors => result' = st
  BY <1>5, <1>7, Words DEF OneShotResult, Progress
<1>9. st = ZU_STREAM_END => result' = ZU_OK
  BY <1>5, <1>7 DEF OneShotResult
<1>10. st = ZU_NEED_OUTPUT /\ Len(o) = call.out + call.allowance =>
         result' = ZU_ERR_OUTPUT_LIMIT
  BY <1>4, <1>5, <1>7, Words DEF OneShotResult, Progress
<1>11. out' = o /\ job' = job
  BY DEF Return
<1>. QED  BY <1>2, <1>4, <1>8, <1>9, <1>10, <1>11

\* A stream that is sound, delivered or filling the buffer.
LEMMA SoundOneShot ==
    ASSUME LoopInv, pc = "codec", ~Whole, NoLimit, NEW p, NEW o, NEW st, Advance(p, o),
           Return(st, p, o), NEW bytes, Len(bytes) \in Nat,
           \/ st = ZU_STREAM_END /\ p = fed /\ o = bytes
           \/ st = ZU_NEED_OUTPUT /\ Len(o) = call.out + call.allowance /\ Len(o) < Len(bytes)
    PROVE  OneShotIs({ZU_STREAM_END}, bytes, result', o)
<1>1. st = ZU_STREAM_END => p = fed
  BY Words
<1>2. /\ Len(o) \in Nat /\ Len(o) <= job.out_chunk /\ job.out_chunk \in Nat
      /\ call.out + call.allowance = job.out_chunk
      /\ st = ZU_STREAM_END => result' = ZU_OK
      /\ st = ZU_NEED_OUTPUT /\ Len(o) = call.out + call.allowance =>
           result' = ZU_ERR_OUTPUT_LIMIT
  BY <1>1, PlainReturn
<1>3. CASE st = ZU_STREAM_END /\ p = fed /\ o = bytes
  BY <1>2, <1>3 DEF OneShotIs
<1>4. CASE st = ZU_NEED_OUTPUT /\ Len(o) = call.out + call.allowance /\ Len(o) < Len(bytes)
  <2>1. result' = ZU_ERR_OUTPUT_LIMIT /\ ~(Len(bytes) <= job.out_chunk)
    BY <1>2, <1>4
  <2>. QED  BY <2>1 DEF OneShotIs
<1>. QED  BY <1>3, <1>4

\* The identity codec.
IdentityOneShot(res, o) ==
    OneShotIs({ZU_STREAM_END}, Decoded(Len(job.input)), res, o)

\* Its call that ends a one-shot decode succeeds in a buffer of the input's size.
LEMMA IdentityOneShotCloses ==
    ASSUME LoopInv, IdentityInv, IdentityDecode, ~Whole, NoLimit, fed = Len(job.input)
    PROVE  IdentityOneShot(result', out')
<1>. DEFINE n  == LeastOf(AvailIn, AvailOut)
            st == IF n < AvailIn THEN ZU_NEED_OUTPUT
                  ELSE IF flush = ZU_FINISH THEN ZU_STREAM_END ELSE ZU_NEED_INPUT
            p  == pos + n
            o  == Decoded(pos + n)
<1>0. pc = "codec" /\ job.wrap = "identity"
  BY DEF IdentityDecode
<1>1. Return(st, p, out \o FlattenSeq([i \in 1 .. n |-> BytesOf(pos + i)]))
  BY DEF IdentityDecode
<1>2. /\ n \in Nat /\ AvailIn \in Nat /\ n <= AvailIn
      /\ n < AvailIn => n = call.allowance
      /\ out \o FlattenSeq([i \in 1 .. n |-> BytesOf(pos + i)]) = o
      /\ Len(o) = p /\ Advance(p, o)
  BY <1>0, IdentityMoves
<1>3. Return(st, p, o) /\ Advance(p, o)
  BY <1>1, <1>2
<1>4. /\ pos \in Nat /\ fed \in Nat /\ AvailIn = fed - pos /\ job \in Jobs
      /\ flush = ZU_FINISH
  BY <1>0, <1>3, ReturnPlaces, LoopFacts DEF AvailIn
<1>5. call.out = pos
  BY <1>0 DEF IdentityInv
<1>6. Len(Decoded(Len(job.input))) = Len(job.input)
  <2>1. fed \in Nat /\ 0 + fed <= Len(job.input) /\ Decoded(fed) = FlattenSeq(Run(0, fed))
    BY <1>4, DecodedIsRun
  <2>. QED  BY <1>0, <1>4, <2>1, IdentityBytes
<1>7. \/ st = ZU_STREAM_END /\ p = fed /\ o = Decoded(Len(job.input))
      \/ st = ZU_NEED_OUTPUT /\ Len(o) = call.out + call.allowance
           /\ Len(o) < Len(Decoded(Len(job.input)))
  <2>1. CASE n < AvailIn
    <3>1. st = ZU_NEED_OUTPUT /\ Len(o) = call.out + call.allowance
      BY <1>2, <1>5, <2>1
    <3>2. Len(o) < fed
      BY <1>2, <1>4, <2>1
    <3>. QED  BY <1>6, <3>1, <3>2
  <2>2. CASE ~(n < AvailIn)
    <3>1. st = ZU_STREAM_END
      BY <1>4, <2>2
    <3>2. pos + n = fed
      BY <1>2, <1>4, <2>2
    <3>. QED  BY <3>1, <3>2
  <2>. QED  BY <2>1, <2>2
<1>8. Len(Decoded(Len(job.input))) \in Nat
  BY <1>4, <1>6
<1>9. out' = o
  BY <1>3 DEF Return
<1>. HIDE DEF n, st, p, o
<1>10. OneShotIs({ZU_STREAM_END}, Decoded(Len(job.input)), result', o)
  BY <1>0, <1>3, <1>7, <1>8, SoundOneShot
<1>. QED  BY <1>9, <1>10 DEF IdentityOneShot

\* The lz4-block codec.
BlockOneShot(res, o) ==
    OneShotIs(BlockVerdict, Decoded(SoundPart(Len(job.input))), res, o)

\* The stage of an allowed block, delivered or filling the buffer.
LEMMA BlockOneShotDelivers ==
    ASSUME LoopInv, pc = "codec", IsBlock, ~Whole, NoLimit, Allowed, fed = Len(job.input),
           NEW p, p = fed, NEW d \in BlockRecord, d.stage_pos <= Len(d.stage),
           out \o Undelivered(d) = Decoded(Len(job.input)), DrainAndReturn(p, d)
    PROVE  BlockOneShot(result', out')
<1>. DEFINE bytes == Decoded(Len(job.input))
<1>1. p \in pos .. fed
  BY LoopFacts
<1>2. PICK st \in {ZU_STREAM_END, ZU_NEED_OUTPUT}, o \in Seq(Nat) :
        /\ Return(st, p, o) /\ Advance(p, o)
        /\ b' \in BlockRecord /\ b'.stage_pos <= Len(b'.stage)
        /\ b'.in = d.in /\ b'.cap = d.cap /\ b'.stage_cap = d.stage_cap /\ b'.done = d.done
        /\ st = ZU_STREAM_END => o = out \o Undelivered(d) /\ Undelivered(b') = <<>>
        /\ st = ZU_NEED_OUTPUT =>
             /\ Len(o) = call.out + call.allowance
             /\ o \o Undelivered(b') = out \o Undelivered(d)
             /\ Len(o) < Len(out) + Len(Undelivered(d))
  BY <1>1, DrainMoves
<1>3. bytes \in Seq(Nat) /\ Len(bytes) \in Nat /\ Len(bytes) = Len(out) + Len(Undelivered(d))
  <2>1. d.stage \in Seq(Nat) /\ d.stage_pos \in Nat /\ d.stage_pos + 0 <= Len(d.stage)
    BY DEF BlockRecord
  <2>2. Undelivered(d) \in Seq(Nat) /\ out \in Seq(Nat)
    BY <2>1, Slice, LoopFacts DEF Undelivered
  <2>3. Len(out \o Undelivered(d)) = Len(out) + Len(Undelivered(d))
    BY <2>2, Joined
  <2>. QED  BY <2>2, <2>3, WholeBlock
<1>4. \/ st = ZU_STREAM_END /\ p = fed /\ o = bytes
      \/ st = ZU_NEED_OUTPUT /\ Len(o) = call.out + call.allowance /\ Len(o) < Len(bytes)
  BY <1>2, <1>3
<1>5. out' = o
  BY <1>2 DEF Return
<1>6. BlockVerdict = {ZU_STREAM_END} /\ SoundPart(Len(job.input)) = Len(job.input)
  BY AllowedIsAccepted DEF Allowed, BlockFits, SoundBlock
<1>. HIDE DEF bytes
<1>7. OneShotIs({ZU_STREAM_END}, bytes, result', o)
  BY <1>2, <1>3, <1>4, SoundOneShot
<1>. QED  BY <1>5, <1>6, <1>7 DEF BlockOneShot, bytes

\* A block refused with its own verdict.
LEMMA BlockOneShotFails ==
    ASSUME LoopInv, pc = "codec", IsBlock, ~Whole, NoLimit, NEW p \in pos .. fed,
           NEW st \in Errors, st \in BlockVerdict, Return(st, p, out), Advance(p, out)
    PROVE  BlockOneShot(result', out')
<1>1. st # ZU_STREAM_END
  BY Words
<1>2. result' = st
  BY <1>1, PlainReturn
<1>3. BlockVerdict # {ZU_STREAM_END}
  BY <1>1
<1>. QED  BY <1>2, <1>3 DEF BlockOneShot, OneShotIs

\* Nothing to move is within every window.
LEMMA NothingMoves ==
    ASSUME LoopInv, pc = "codec", NEW p \in pos .. fed
    PROVE  Advance(p, out)
BY LoopFacts DEF Advance, LoopInv, CallInProgress

\* A call that fails for lack of memory says so.
LEMMA MemoryIsTold ==
    ASSUME LoopInv, pc = "codec", ~Whole, NoLimit, NEW p \in pos .. fed,
           Return(ZU_ERR_MEMORY, p, out)
    PROVE  result' = ZU_ERR_MEMORY
<1>1. Advance(p, out)
  BY NothingMoves
<1>2. ZU_ERR_MEMORY \in Errors /\ ZU_ERR_MEMORY # ZU_STREAM_END
  BY Words DEF Errors
<1>. QED  BY <1>1, <1>2, PlainReturn

\* Where the search for a size begins.
LEMMA SearchBeginsOneShot ==
    ASSUME LoopInv, BlockInv, SearchBegins, ~Whole, NoLimit, pc' = "close",
           result' # ZU_ERR_MEMORY
    PROVE  BlockOneShot(result', out')
<1>0. AtEnd /\ ~job.opts.has_expected /\ b.cap = 0
  BY DEF SearchBegins
<1>1. /\ pc = "codec" /\ IsBlock /\ b.done = FALSE
      /\ fed = Len(job.input) /\ out = <<>>
  BY <1>0, AtEndFacts
<1>2. PICK g \in Gather :
         IF g[1] = ZU_OK /\ g[2] > 0
           THEN /\ Continue(Gathered(g), out)
                /\ b' = [b EXCEPT !.in = g[2], !.cap = FirstCap(g[2])]
           ELSE /\ Return(IF g[1] = ZU_OK THEN ZU_ERR_INVALID_DATA ELSE g[1],
                          Gathered(g), out)
                /\ b' = [b EXCEPT !.in = g[2]]
  BY DEF SearchBegins
<1>3. /\ g[1] \in {ZU_OK, ZU_ERR_INVALID_DATA, ZU_ERR_MEMORY}
      /\ g[2] \in Nat /\ Gathered(g) = g[2] /\ Gathered(g) \in pos .. fed
      /\ g[1] = ZU_OK => Gathered(g) = fed
      /\ g[1] = ZU_ERR_INVALID_DATA => ZU_ERR_INVALID_DATA \in BlockVerdict
  BY <1>1, GatherTakes
<1>4. ~(g[1] = ZU_OK /\ g[2] > 0)
  <2>. SUFFICES ASSUME g[1] = ZU_OK /\ g[2] > 0 PROVE FALSE
    OBVIOUS
  <2>1. Continue(Gathered(g), out)
    BY <1>2
  <2>. QED  BY <1>1, <2>1 DEF Continue
<1>5. Return(IF g[1] = ZU_OK THEN ZU_ERR_INVALID_DATA ELSE g[1], Gathered(g), out)
  BY <1>2, <1>4
<1>6. ZU_ERR_INVALID_DATA \in Errors
  BY DEF Errors
<1>7. Advance(Gathered(g), out)
  BY <1>1, <1>3, NothingMoves
<1>8. CASE g[1] = ZU_OK
  <2>1. Len(job.input) = 0 /\ ~SoundBlock(Len(job.input))
    BY <1>1, <1>3, <1>4, <1>8 DEF SoundBlock
  <2>2. ~Allowed
    BY <2>1 DEF Allowed, BlockFits
  <2>3. BlockSize = 0
    <3>1. BlockSize \in Nat /\ BlockSize <= 0 * Expand
      BY <1>1, <2>1, WholeBlock
    <3>. QED  BY <3>1, SearchConstants
  <2>4. job.opts.max_output \notin 1 .. IntMax - 1 \/ BlockSize < job.opts.max_output
    BY <2>3
  <2>5. ZU_ERR_INVALID_DATA \in BlockVerdict
    BY <1>0, <1>1, <2>2, <2>4, InvalidBlocks
  <2>6. Return(ZU_ERR_INVALID_DATA, Gathered(g), out)
    BY <1>5, <1>8
  <2>. QED  BY <1>1, <1>3, <1>6, <1>7, <2>5, <2>6, BlockOneShotFails
<1>9. CASE g[1] = ZU_ERR_INVALID_DATA
  <2>1. Return(ZU_ERR_INVALID_DATA, Gathered(g), out)
    BY <1>5, <1>9
  <2>2. ZU_ERR_INVALID_DATA \in BlockVerdict
    BY <1>3, <1>9
  <2>. QED  BY <1>1, <1>3, <1>6, <1>7, <2>1, <2>2, BlockOneShotFails
<1>10. CASE g[1] = ZU_ERR_MEMORY
  <2>1. Return(ZU_ERR_MEMORY, Gathered(g), out)
    BY <1>5, <1>10, Words DEF Errors
  <2>2. result' = ZU_ERR_MEMORY
    BY <1>1, <1>3, <2>1, MemoryIsTold
  <2>. QED  BY <2>2
<1>. QED  BY <1>3, <1>8, <1>9, <1>10

\* Where a size is tried.
LEMMA SearchTryOneShot ==
    ASSUME LoopInv, BlockInv, SearchTry, ~Whole, NoLimit, pc' = "close",
           result' # ZU_ERR_MEMORY
    PROVE  BlockOneShot(result', out')
<1>. DEFINE n    == b.in
            room == Max({b.stage_cap, b.cap})
<1>0. AtEnd /\ b.cap > 0
  BY DEF SearchTry
<1>1. /\ pc = "codec" /\ IsBlock /\ b.done = FALSE /\ fed = Len(job.input)
      /\ b \in BlockRecord /\ out = <<>> /\ n <= MaxBlockInput
  BY <1>0, AtEndFacts
<1>2. /\ n = Len(job.input) /\ pos = Len(job.input) /\ n > 0 /\ n \in Nat
      /\ b.cap \in Nat /\ b.cap <= SearchCeiling(n) /\ job.opts.has_expected = FALSE
  BY <1>0, SearchFacts
<1>3. room \in Nat
  BY <1>0, RoomMayBe DEF StageMayBe
<1>4. \/ b.cap > b.stage_cap /\ SearchFails(ZU_ERR_MEMORY, b.stage_cap)
      \/ IF DecompressSafe(n, b.cap) >= 0
           THEN DrainAndReturn(pos, Staged(Decoded(n), room))
         ELSE IF ~WorthMore(n, b.cap) THEN SearchFails(ZU_ERR_INVALID_DATA, room)
         ELSE IF b.cap >= SearchCeiling(n)
           THEN SearchFails(IF Limited(n) THEN ZU_ERR_OUTPUT_LIMIT
                                          ELSE ZU_ERR_INVALID_DATA, room)
         ELSE /\ Continue(pos, out)
              /\ b' = [b EXCEPT !.stage_cap = room, !.cap = NextCap(n, b.cap)]
  BY DEF SearchTry
<1>5. ZU_ERR_INVALID_DATA \in Errors /\ ZU_ERR_OUTPUT_LIMIT \in Errors
  BY DEF Errors
<1>6. pos \in pos .. fed /\ Advance(pos, out)
  <2>1. pos \in pos .. fed
    BY LoopFacts
  <2>. QED  BY <1>1, <2>1, NothingMoves
<1>. HIDE DEF room
<1>7. ASSUME NEW st \in Errors, NEW sc, SearchFails(st, sc), st \in BlockVerdict
      PROVE  BlockOneShot(result', out')
  <2>1. Return(st, pos, out)
    BY <1>7 DEF SearchFails
  <2>. QED  BY <1>1, <1>6, <1>7, <2>1, BlockOneShotFails
<1>8. CASE SearchFails(ZU_ERR_MEMORY, b.stage_cap)
  <2>1. Return(ZU_ERR_MEMORY, pos, out)
    BY <1>8 DEF SearchFails
  <2>2. result' = ZU_ERR_MEMORY
    BY <1>1, <1>6, <2>1, MemoryIsTold
  <2>. QED  BY <2>2
<1>9. CASE DecompressSafe(n, b.cap) >= 0 /\ DrainAndReturn(pos, Staged(Decoded(n), room))
  <2>1. SoundBlock(n) /\ BlockSize <= b.cap /\ BlockSize \in Nat /\ Decoded(n) \in Seq(Nat)
    BY <1>1, <1>2, <1>9, WholeBlock
  <2>2. /\ SearchCeiling(n) \in Nat /\ SearchCeiling(n) <= FormatCeiling(n)
        /\ FormatCeiling(n) \in Nat /\ FormatCeiling(n) <= IntMax
        /\ job.opts.max_output \in Nat
        /\ job.opts.max_output # 0 => SearchCeiling(n) <= job.opts.max_output
    BY <1>2, SearchCeilingFits
  <2>3. BlockSize <= IntMax /\ (job.opts.max_output # 0 => BlockSize <= job.opts.max_output)
    BY <1>2, <2>1, <2>2, SearchConstants
  <2>4. Allowed
    BY <1>1, <1>2, <2>1, <2>3 DEF Allowed, BlockFits
  <2>. DEFINE d == Staged(Decoded(n), room)
  <2>5. d \in BlockRecord /\ d.stage_pos = 0 /\ d.stage = Decoded(n)
    BY <1>1, <1>3, <2>1, StagedIs
  <2>6. DrainAndReturn(pos, d) /\ pos = fed
    BY <1>1, <1>2, <1>9
  <2>. HIDE DEF n
  <2>. HIDE DEF d
  <2>7. d.stage_pos <= Len(d.stage) /\ out \o Undelivered(d) = Decoded(Len(job.input))
    <3>1. Undelivered(d) = Decoded(n)
      BY <2>1, <2>5 DEF Undelivered
    <3>2. <<>> \o Decoded(n) = Decoded(n) /\ 0 <= Len(Decoded(n))
      BY <2>1
    <3>. QED  BY <1>1, <1>2, <2>5, <3>1, <3>2
  <2>. QED  BY <1>1, <2>4, <2>5, <2>6, <2>7, BlockOneShotDelivers
<1>10. CASE /\ ~(DecompressSafe(n, b.cap) >= 0) /\ ~WorthMore(n, b.cap)
            /\ SearchFails(ZU_ERR_INVALID_DATA, room)
  <2>1. ZU_ERR_INVALID_DATA \in BlockVerdict
    BY <1>0, <1>10, SearchVerdict
  <2>. QED  BY <1>5, <1>7, <1>10, <2>1
<1>11. CASE /\ ~(DecompressSafe(n, b.cap) >= 0) /\ WorthMore(n, b.cap) /\ b.cap >= SearchCeiling(n)
            /\ SearchFails(IF Limited(n) THEN ZU_ERR_OUTPUT_LIMIT ELSE ZU_ERR_INVALID_DATA, room)
  <2>. DEFINE st == IF Limited(n) THEN ZU_ERR_OUTPUT_LIMIT ELSE ZU_ERR_INVALID_DATA
  <2>1. st \in BlockVerdict /\ st \in Errors
    BY <1>0, <1>5, <1>11, SearchVerdict
  <2>2. SearchFails(st, room)
    BY <1>11
  <2>. HIDE DEF st
  <2>. QED  BY <1>7, <2>1, <2>2
<1>12. ~Continue(pos, out)
  BY <1>1 DEF Continue
<1>. QED  BY <1>4, <1>8, <1>9, <1>10, <1>11, <1>12

\* A turn of the lz4-block codec that ends a one-shot decode.
LEMMA BlockOneShotCloses ==
    ASSUME LoopInv, BlockInv, BlockStep, ~Whole, NoLimit, fed = Len(job.input),
           pc' = "close", result' # ZU_ERR_MEMORY
    PROVE  BlockOneShot(result', out')
<1>1. CASE BlockDrain
  <2>1. pc = "codec" /\ IsBlock /\ b.done /\ DrainAndReturn(pos, b)
    BY <1>1 DEF BlockDrain
  <2>2. b.done = TRUE
    BY <2>1, BlockStage
  <2>3. /\ pos = Len(job.input) /\ Allowed /\ out \o Undelivered(b) = Decoded(Len(job.input))
        /\ b \in BlockRecord /\ b.stage_pos <= Len(b.stage)
    BY <2>1, <2>2 DEF BlockInv, Delivering, BlockTyped
  <2>. QED  BY <2>1, <2>3, BlockOneShotDelivers
<1>2. CASE BlockGather
  <2>1. flush # ZU_FINISH /\ pc = "codec"
    BY <1>2 DEF BlockGather
  <2>2. flush = ZU_FINISH
    BY <2>1, LoopFacts DEF LoopInv, CallInProgress
  <2>. QED  BY <2>1, <2>2
<1>3. CASE BlockExpected
  <2>1. job.opts.has_expected /\ pc = "codec"
    BY <1>3 DEF BlockExpected, AtEnd
  <2>2. job.opts \in LimitOpts
    BY LoopFacts
  <2>. QED  BY <2>1, <2>2 DEF NoLimit, HasCeiling, LimitOpts
<1>4. CASE SearchBegins
  BY <1>4, SearchBeginsOneShot
<1>5. CASE SearchTry
  BY <1>5, SearchTryOneShot
<1>. QED  BY <1>1, <1>2, <1>3, <1>4, <1>5 DEF BlockStep

----------------------------------------------------------------------------
(***************************************************************************)
(* The invariant.                                                          *)
(***************************************************************************)
\* A decoder of frames in use stands where its stream says; the slices of a
\* whole-buffer decode are whole but for the last, and a one-shot call sees
\* all the input.
FollowInv ==
    /\ IsFramed /\ pc \in {"open", "call", "codec"} => FrameAlong(job, fed, pos, out, f, lib)
    /\ SlicesWhole
    /\ SliceInSight

\* What a one-shot call may answer.
OneShotAnswers(res, o) ==
    /\ IsFramed => FrameOneShot(res, o)
    /\ IsBlock => BlockOneShot(res, o)
    /\ job.wrap = "identity" => IdentityOneShot(res, o)

\* A decode that has ended answered rightly.
AnsweredInv ==
    pc \in {"close", "closed"} /\ result # ZU_ERR_MEMORY =>
        /\ Whole /\ IsFramed => FrameVerdictRight(result, out) /\ FrameConsumedRight(result, pos)
        /\ ~Whole => IsFramed \/ IsBlock \/ job.wrap = "identity"
        /\ ~Whole /\ NoLimit => OneShotAnswers(result, out)

\* What is written is the stream's.
WrittenInv == IsFramed => IsPrefix(out, ReferenceOf(job).out)

FollowingInv == LibraryInv /\ FollowInv /\ AnsweredInv /\ WrittenInv

\* What is said of an answer is said of the job.
LEMMA SameAnswers ==
    ASSUME job' = job
    PROVE  /\ IsFramed' = IsFramed /\ IsBlock' = IsBlock /\ Whole' = Whole /\ NoLimit' = NoLimit
           /\ FrameVerdictRight(result, out)' = FrameVerdictRight(result', out')
           /\ FrameConsumedRight(result, pos)' = FrameConsumedRight(result', pos')
           /\ OneShotAnswers(result, out)' = OneShotAnswers(result', out')
<1>1. IsFramed' = IsFramed /\ IsBlock' = IsBlock /\ Whole' = Whole /\ NoLimit' = NoLimit
  BY DEF IsFramed, IsBlock, Whole, NoLimit
<1>2. LimitedVerdict' = LimitedVerdict
  BY DEF LimitedVerdict, RefVerdict, Reference, HeldTail, CutAfter
<1>3. FrameVerdictRight(result, out)' = FrameVerdictRight(result', out')
  BY <1>2 DEF FrameVerdictRight
<1>4. FrameConsumedRight(result, pos)' = FrameConsumedRight(result', pos')
  BY DEF FrameConsumedRight
<1>5. FrameOneShot(result, out)' = FrameOneShot(result', out')
  BY DEF FrameOneShot, OneShotIs
<1>6. BlockOneShot(result, out)' = BlockOneShot(result', out')
  <2>1. Decoded(SoundPart(Len(job.input)))' = Decoded(SoundPart(Len(job.input)))
    BY DEF Decoded, SoundPart, Sound, BytesOf, BytesAt
  <2>2. BlockVerdict' = BlockVerdict
    BY SameJob
  <2>. QED  BY <2>1, <2>2 DEF BlockOneShot, OneShotIs
<1>7. IdentityOneShot(result, out)' = IdentityOneShot(result', out')
  <2>1. Decoded(Len(job.input))' = Decoded(Len(job.input))
    BY SameJob
  <2>. QED  BY <2>1 DEF IdentityOneShot, OneShotIs
<1>8. OneShotAnswers(result, out)' = OneShotAnswers(result', out')
  BY <1>1, <1>5, <1>6, <1>7 DEF OneShotAnswers
<1>. QED  BY <1>1, <1>3, <1>4, <1>8

\* Nothing is a whole number of slices inside one.
LEMMA InsideSlice ==
    ASSUME NEW c \in Nat, c > 0, NEW a \in Nat, a % c = 0, NEW n \in Nat, a < n, n < a + c
    PROVE  n % c # 0
<1>. DEFINE q == a \div c  k == n \div c
<1>1. q \in Nat /\ a = c * q
  OBVIOUS
<1>2. k \in Nat /\ (n % c = 0 => n = c * k)
  OBVIOUS
<1>. HIDE DEF q, k
<1>. SUFFICES ASSUME n = c * k PROVE FALSE
  BY <1>2
<1>3. c * q < c * k /\ c * k < c * q + c
  BY <1>1
<1>4. c * (q + 1) = c * q + c
  BY ONLY <1>1, c \in Nat
<1>5. CASE k <= q
  <2>1. c * k <= c * q
    BY ONLY <1>1, <1>2, <1>5, c \in Nat
  <2>. QED  BY <1>1, <1>2, <1>3, <2>1
<1>6. CASE k >= q + 1
  <2>1. c * (q + 1) <= c * k
    BY ONLY <1>1, <1>2, <1>6, c \in Nat
  <2>. QED  BY <1>1, <1>2, <1>3, <1>4, <2>1
<1>. QED  BY <1>1, <1>2, <1>5, <1>6

\* A refill hands over one slice.
LEMMA RefillInSight ==
    ASSUME LoopInv, pc = "call", SlicesWhole, SliceInSight, Refill, job' = job, pos' = pos
    PROVE  SliceInSight'
<1>. SUFFICES ASSUME Whole PROVE SliceInSight'
  BY DEF SliceInSight, Whole
<1>. DEFINE N == Len(job.input)  c == job.in_chunk
<1>1. /\ pos \in Nat /\ fed \in Nat /\ fed <= N /\ N \in Nat /\ c \in Nat /\ c > 0
      /\ pos <= fed
  BY LoopFacts, JobTypes
<1>2. fed' < N => fed' % c = 0
  BY RefillSlices
<1>3. ASSUME NEW n \in pos + 1 .. fed' - 1 PROVE n % c # 0
  <2>1. CASE pos # fed \/ fed = N
    <3>1. fed' = fed
      BY <1>1, <2>1 DEF Refill, LeastOf
    <3>. QED  BY <1>3, <3>1 DEF SliceInSight, Whole
  <2>2. CASE pos = fed /\ fed < N
    <3>1. fed' = fed + LeastOf(N - fed, c)
      BY <2>2 DEF Refill
    <3>2. fed' <= fed + c /\ fed' \in Nat
      BY <1>1, <2>2, <3>1 DEF LeastOf
    <3>3. fed % c = 0
      BY <2>2 DEF SlicesWhole
    <3>. HIDE DEF c
    <3>. DEFINE e == fed'
    <3>3a. e \in Nat /\ e <= fed + c /\ n \in fed + 1 .. e - 1
      BY <1>3, <2>2, <3>2
    <3>. HIDE DEF e
    <3>4. n \in Nat /\ fed < n /\ n < fed + c
      BY <1>1, <3>3a
    <3>. QED  BY <1>1, <3>3, <3>4, InsideSlice
  <2>. QED  BY <1>1, <2>1, <2>2
<1>. QED  BY <1>2, <1>3 DEF SliceInSight

\* The cursor moving on keeps the slice in sight.
LEMMA InSightOn ==
    ASSUME SliceInSight, job' = job, fed' = fed, fed \in Nat, pos \in Nat, pos' \in Nat,
           pos <= pos'
    PROVE  SliceInSight'
<1>. DEFINE p == pos'
<1>0. p \in Nat /\ pos <= p
  OBVIOUS
<1>. HIDE DEF p
<1>1. \A n \in p + 1 .. fed - 1 : n \in pos + 1 .. fed - 1
  BY <1>0
<1>. QED  BY <1>1 DEF SliceInSight, p

\* More input does not move the decoder.
LEMMA FrameAlongRefilled ==
    ASSUME NEW j, NEW m \in Nat, NEW n \in Nat, m <= n, NEW p \in Nat, NEW o, NEW g, NEW l,
           FrameAlong(j, m, p, o, g, l)
    PROVE  FrameAlong(j, n, p, o, g, l)
<1>1. p < m => p < n
  OBVIOUS
<1>. QED  BY <1>1 DEF FrameAlong

\* At the start.
LEMMA FrameAlongStart ==
    ASSUME NEW j \in Jobs
    PROVE  /\ FrameAlong(j, 0, 0, <<>>, NewFrames, FreshLib)
           /\ ReferenceOf(j) \in RefRecord /\ Held(ReferenceOf(j), <<>>)
<1>. DEFINE r == Readings(j)[0]
<1>0. /\ Len(j.input) \in Nat /\ 0 \in 0 .. Len(j.input) /\ <<>> \in Seq(Nat)
  BY JobTypes
<1>1. r = RefInit
  BY <1>0, ReadingsAre
<1>2. /\ r.phase = "magic" /\ r.k = 0 /\ r.n = 0 /\ r.out = <<>> /\ r.err = ZU_OK
  BY <1>1, RefInitOk
<1>3. /\ FreshLib.stage = "magic" /\ FreshLib.seen = <<>> /\ FreshLib.pend = <<>>
      /\ FreshLib.n = 0 /\ ~FreshLib.hostage
  BY DEF FreshLib
<1>4. /\ NewFrames.state = "BODY" /\ NewFrames.owed = <<>>
  BY DEF NewFrames
<1>5. <<>> \o <<>> = <<>>
  OBVIOUS
<1>6. StartsFrame(j, 0)
  BY <1>2 DEF StartsFrame
<1>7. MagicStands(j, FreshLib, 0)
  BY <1>2, <1>3, <1>6 DEF MagicStands
<1>8. LibStands(j, FreshLib, 0, <<>>)
  BY <1>0, <1>2, <1>3, <1>5, <1>7 DEF LibStands
<1>9. FrameAlong(j, 0, 0, <<>>, NewFrames, FreshLib)
  BY <1>3, <1>4, <1>5, <1>8 DEF FrameAlong, Place
<1>10. ReferenceOf(j) \in RefRecord
  BY <1>0, ReferenceGrows
<1>11. ReferenceOf(j).out \in Seq(Nat)
  BY <1>10 DEF RefRecord
<1>12. <<>> \o ReferenceOf(j).out = ReferenceOf(j).out
  BY <1>11
<1>. QED  BY <1>9, <1>10, <1>11, <1>12 DEF Held

\* The invariant holds at the start.
LEMMA FollowingInit == Init => FollowingInv
<1>. SUFFICES ASSUME Init PROVE FollowingInv
  OBVIOUS
<1>1. /\ LibraryInv /\ job \in Jobs /\ pc = "open" /\ fed = 0 /\ pos = 0 /\ out = <<>>
      /\ f = NewFrames /\ lib = FreshLib
  BY LibraryInitInv DEF Init, LoopInit, FrameInit
<1>2. FollowInv
  <2>1. SlicesWhole
    BY SlicesAtStart DEF Init
  <2>2. SliceInSight
    BY <1>1, <2>1 DEF SliceInSight, SlicesWhole, Whole
  <2>. QED  BY <1>1, <2>1, <2>2, FrameAlongStart DEF FollowInv
<1>3. WrittenInv
  <2>1. ReferenceOf(job) \in RefRecord /\ Held(ReferenceOf(job), <<>>) /\ <<>> \in Seq(Nat)
    BY <1>1, FrameAlongStart
  <2>2. IsPrefix(<<>>, ReferenceOf(job).out)
    BY <2>1, HeldIsPrefix
  <2>. QED  BY <1>1, <2>2 DEF WrittenInv
<1>4. AnsweredInv
  BY <1>1 DEF AnsweredInv
<1>. QED  BY <1>1, <1>2, <1>3, <1>4 DEF FollowingInv

\* The loop's own steps.
LEMMA FollowingLoop ==
    ASSUME FollowingInv, LoopStep, UNCHANGED <<frameVars, b>>
    PROVE  FollowInv' /\ AnsweredInv' /\ WrittenInv'
<1>0. /\ LoopInv /\ FollowInv /\ AnsweredInv /\ WrittenInv /\ f' = f /\ lib' = lib
  BY DEF FollowingInv, LibraryInv, frameVars
<1>1. job' = job /\ pos' = pos /\ out' = out
  BY DEF LoopStep, Open, CallCodec, ReserveFails, Close
<1>2. /\ IsFramed' = IsFramed /\ IsBlock' = IsBlock /\ Whole' = Whole /\ NoLimit' = NoLimit
      /\ FrameVerdictRight(result, out)' = FrameVerdictRight(result', out')
      /\ FrameConsumedRight(result, pos)' = FrameConsumedRight(result', pos')
      /\ OneShotAnswers(result, out)' = OneShotAnswers(result', out')
  BY <1>1, SameAnswers
<1>3. WrittenInv'
  BY <1>0, <1>1, <1>2 DEF WrittenInv
<1>4. SlicesWhole' /\ SliceInSight'
  <2>1. SlicesWhole'
    BY <1>0, LoopKeepsSlices DEF FollowInv
  <2>2. CASE Open \/ Close
    <3>1. fed' = fed
      BY <2>2 DEF Open, Close
    <3>2. fed \in Nat /\ pos \in Nat /\ pos <= pos
      BY <1>0, LoopFacts
    <3>. QED  BY <1>0, <1>1, <2>1, <3>1, <3>2, InSightOn DEF FollowInv
  <2>3. CASE CallCodec \/ ReserveFails
    <3>1. pc = "call" /\ Refill
      BY <2>3 DEF CallCodec, ReserveFails
    <3>. QED  BY <1>0, <1>1, <2>1, <3>1, RefillInSight DEF FollowInv
  <2>. QED  BY <2>2, <2>3 DEF LoopStep
<1>5. CASE Open
  <2>1. /\ pc = "open" /\ fed' = fed
        /\ pc' = "call" \/ (pc' = "closed" /\ result' = ZU_ERR_MEMORY)
    BY <1>5 DEF Open
  <2>2. FollowInv'
    BY <1>0, <1>1, <1>2, <1>4, <2>1 DEF FollowInv
  <2>3. AnsweredInv'
    BY <2>1 DEF AnsweredInv
  <2>. QED  BY <1>3, <2>2, <2>3
<1>6. CASE CallCodec
  <2>1. pc = "call" /\ pc' = "codec" /\ Refill
    BY <1>6 DEF CallCodec
  <2>2. fed \in Nat /\ fed' \in Nat /\ fed <= fed' /\ pos \in Nat
    <3>1. /\ fed \in Nat /\ pos \in Nat /\ fed <= Len(job.input) /\ Len(job.input) \in Nat
          /\ job \in Jobs /\ job.in_chunk \in Nat
      BY <1>0, LoopFacts, JobsAssumption
    <3>2. /\ LeastOf(Len(job.input) - fed, job.in_chunk) \in Nat
      BY <3>1 DEF LeastOf
    <3>. QED  BY <2>1, <3>1, <3>2 DEF Refill
  <2>3. IsFramed => FrameAlong(job, fed', pos, out, f, lib)
    <3>. SUFFICES ASSUME IsFramed PROVE FrameAlong(job, fed', pos, out, f, lib)
      OBVIOUS
    <3>1. FrameAlong(job, fed, pos, out, f, lib)
      BY <1>0, <2>1 DEF FollowInv
    <3>. QED  BY <2>2, <3>1, FrameAlongRefilled
  <2>4. FollowInv'
    BY <1>0, <1>1, <1>2, <1>4, <2>3 DEF FollowInv
  <2>5. AnsweredInv'
    BY <2>1 DEF AnsweredInv
  <2>. QED  BY <1>3, <2>4, <2>5
<1>7. CASE ReserveFails
  <2>1. pc' = "close" /\ result' = ZU_ERR_MEMORY
    BY <1>7 DEF ReserveFails
  <2>2. FollowInv'
    BY <1>4, <2>1 DEF FollowInv
  <2>3. AnsweredInv'
    BY <2>1 DEF AnsweredInv
  <2>. QED  BY <1>3, <2>2, <2>3
<1>8. CASE Close
  <2>1. pc = "close" /\ pc' = "closed" /\ result' = result
    BY <1>8 DEF Close
  <2>2. FollowInv'
    BY <1>4, <2>1 DEF FollowInv
  <2>3. AnsweredInv'
    <3>. SUFFICES ASSUME result # ZU_ERR_MEMORY PROVE AnsweredInv'
      BY <2>1 DEF AnsweredInv
    <3>1. /\ Whole /\ IsFramed =>
               FrameVerdictRight(result', out') /\ FrameConsumedRight(result', pos')
          /\ ~Whole => IsFramed \/ IsBlock \/ job.wrap = "identity"
          /\ ~Whole /\ NoLimit => OneShotAnswers(result', out')
      BY <1>0, <1>1, <2>1 DEF AnsweredInv
    <3>. QED  BY <1>1, <1>2, <3>1 DEF AnsweredInv
  <2>. QED  BY <1>3, <2>2, <2>3
<1>. QED  BY <1>5, <1>6, <1>7, <1>8 DEF LoopStep

\* A turn that ends a decode of frames answers rightly.
LEMMA FrameTurnCloses ==
    ASSUME LoopInv, FollowInv, pc = "codec", NEW p, NEW o, NEW st \in Status, Advance(p, o),
           Return(st, p, o), FrameJudged(job, fed, flush, call.out + call.allowance, st, p, o),
           Held(ReferenceOf(job), o), pc' = "close"
    PROVE  /\ Whole => FrameVerdictRight(result', o) /\ FrameConsumedRight(result', p)
           /\ ~Whole /\ NoLimit => FrameOneShot(result', o)
<1>1. result' # Running
  BY ReturnGives
<1>2. /\ Whole /\ fed < Len(job.input) => fed % job.in_chunk = 0
      /\ ~Whole => fed = Len(job.input)
  BY DEF FollowInv, SlicesWhole
<1>3. ASSUME Whole PROVE FrameVerdictRight(result', o) /\ FrameConsumedRight(result', p)
  BY <1>1, <1>2, <1>3, FrameWholeCloses
<1>4. ASSUME ~Whole, NoLimit PROVE FrameOneShot(result', o)
  BY <1>1, <1>2, <1>4, FrameOneShotCloses
<1>. QED  BY <1>3, <1>4

\* A turn of a decoder of frames keeps the invariant.
LEMMA FollowingFrames ==
    ASSUME FollowingInv, FrameStep
    PROVE  FollowInv' /\ AnsweredInv' /\ WrittenInv'
<1>0. LoopInv /\ FrameInv /\ FollowInv
  BY DEF FollowingInv, LibraryInv
<1>1. pc = "codec" /\ IsFramed
  BY DEF FrameStep, Pay, BetweenNoMore, BetweenLook, BetweenHeld, Body, InState
<1>2. FrameAlong(job, fed, pos, out, f, lib)
  BY <1>0, <1>1 DEF FollowInv
<1>3. PICK p, o : Advance(p, o) /\ FrameTurned(p, o)
  BY <1>0, <1>2, FrameTurns DEF FollowInv
<1>4. pos' = p /\ out' = o /\ job' = job /\ fed' = fed
  BY <1>3 DEF FrameTurned, Continue, Return
<1>5. Held(ReferenceOf(job), o)
  BY <1>3 DEF FrameTurned
<1>6. /\ IsFramed' = IsFramed /\ IsBlock' = IsBlock /\ Whole' = Whole /\ NoLimit' = NoLimit
      /\ FrameVerdictRight(result, out)' = FrameVerdictRight(result', o)
      /\ FrameConsumedRight(result, pos)' = FrameConsumedRight(result', p)
      /\ OneShotAnswers(result, out)' = OneShotAnswers(result', o)
  BY <1>4, SameAnswers
<1>7. WrittenInv'
  <2>1. o \in Seq(Nat) /\ job \in Jobs /\ p \in 0 .. Len(job.input)
    BY <1>0, <1>1, <1>3, ReturnPlaces
  <2>2. ReferenceOf(job) \in RefRecord
    BY <2>1, ReferenceGrows
  <2>3. IsPrefix(o, ReferenceOf(job).out)
    BY <1>5, <2>1, <2>2, HeldIsPrefix
  <2>. QED  BY <1>4, <2>3 DEF WrittenInv
<1>8. SlicesWhole' /\ SliceInSight'
  <2>1. SlicesWhole'
    BY <1>0, <1>1, <1>4, SlicesStay DEF FollowInv
  <2>2. fed \in Nat /\ pos \in Nat /\ p \in Nat /\ pos <= p
    BY <1>0, <1>1, <1>3, LoopFacts DEF Advance
  <2>. QED  BY <1>0, <1>4, <2>1, <2>2, InSightOn DEF FollowInv
<1>9. ASSUME FrameAlong(job, fed, p, o, f', lib') PROVE FollowInv'
  BY <1>4, <1>8, <1>9 DEF FollowInv
<1>10. CASE Continue(p, o) /\ FrameAlong(job, fed, p, o, f', lib')
  <2>1. pc' = "codec"
    BY <1>1, <1>10 DEF Continue
  <2>2. AnsweredInv'
    BY <2>1 DEF AnsweredInv
  <2>. QED  BY <1>7, <1>9, <1>10, <2>2
<1>11. ASSUME NEW st \in Status, Return(st, p, o),
              FrameJudged(job, fed, flush, call.out + call.allowance, st, p, o),
              st \in {ZU_NEED_INPUT, ZU_NEED_OUTPUT} => FrameAlong(job, fed, p, o, f', lib')
       PROVE  FollowInv' /\ AnsweredInv'
  <2>1. pc' \in {"call", "close"}
    BY <1>11 DEF Return
  <2>2. CASE pc' = "close"
    <3>1. /\ Whole => FrameVerdictRight(result', o) /\ FrameConsumedRight(result', p)
          /\ ~Whole /\ NoLimit => FrameOneShot(result', o)
      BY <1>0, <1>1, <1>3, <1>5, <1>11, <2>2, FrameTurnCloses
    <3>2. ~IsBlock /\ job.wrap # "identity"
      BY <1>1 DEF IsFramed, IsBlock
    <3>3. ~Whole /\ NoLimit => OneShotAnswers(result', o)
      BY <3>1, <3>2 DEF OneShotAnswers
    <3>4. AnsweredInv'
      BY <1>1, <1>4, <1>6, <3>1, <3>3 DEF AnsweredInv
    <3>5. FollowInv'
      BY <1>8, <2>2 DEF FollowInv
    <3>. QED  BY <3>4, <3>5
  <2>3. CASE pc' = "call"
    <3>1. st # ZU_OK
      BY <1>11 DEF FrameJudged
    <3>2. st \in {ZU_NEED_INPUT, ZU_NEED_OUTPUT}
      BY <1>0, <1>1, <1>3, <1>11, <2>3, <3>1, OnlyWaitingGoesOn
    <3>3. AnsweredInv'
      BY <2>3 DEF AnsweredInv
    <3>. QED  BY <1>9, <1>11, <3>2, <3>3
  <2>. QED  BY <2>1, <2>2, <2>3
<1>. QED  BY <1>3, <1>7, <1>10, <1>11 DEF FrameTurned

\* A turn of the others does too.
LEMMA FollowingOthers ==
    ASSUME FollowingInv, BlockStep \/ IdentityDecode
    PROVE  FollowInv' /\ AnsweredInv' /\ WrittenInv'
<1>0. LoopInv /\ BlockInv /\ IdentityInv /\ FollowInv
  BY DEF FollowingInv, LibraryInv
<1>1. /\ pc = "codec" /\ ~IsFramed
      /\ BlockStep => IsBlock
      /\ IdentityDecode => job.wrap = "identity"
  BY DEF BlockStep, BlockDrain, BlockGather, BlockExpected, SearchBegins, SearchTry, AtEnd,
         IdentityDecode, IsBlock, IsFramed
<1>2. CodecMoves
  BY <1>0, BlockSteps, IdentityStep
<1>3. job' = job /\ fed' = fed /\ pc' \in {"codec", "call", "close"}
  BY <1>2 DEF CodecMoves, Continue, Return
<1>4. /\ IsFramed' = IsFramed /\ IsBlock' = IsBlock /\ Whole' = Whole /\ NoLimit' = NoLimit
      /\ OneShotAnswers(result, out)' = OneShotAnswers(result', out')
  BY <1>3, SameAnswers
<1>5. WrittenInv'
  BY <1>1, <1>4 DEF WrittenInv
<1>6. FollowInv'
  <2>1. SlicesWhole'
    BY <1>0, <1>1, <1>3, SlicesStay DEF FollowInv
  <2>2. fed \in Nat /\ pos \in Nat /\ pos' \in Nat /\ pos <= pos'
    <3>1. PICK p, o : Advance(p, o) /\ pos' = p
      BY <1>2 DEF CodecMoves, Continue, Return
    <3>2. p \in pos .. fed
      BY <3>1 DEF Advance
    <3>3. fed \in Nat /\ pos \in Nat
      BY <1>0, LoopFacts
    <3>4. p \in Nat /\ pos <= p
      BY <3>2, <3>3
    <3>. QED  BY <3>1, <3>3, <3>4
  <2>3. SliceInSight'
    BY <1>0, <1>3, <2>2, InSightOn DEF FollowInv
  <2>. QED  BY <1>1, <1>4, <2>1, <2>3 DEF FollowInv
<1>7. IsBlock \/ job.wrap = "identity"
  BY <1>1
<1>8. ASSUME pc' = "close", result' # ZU_ERR_MEMORY, ~Whole, NoLimit
      PROVE  OneShotAnswers(result', out')
  <2>1. fed = Len(job.input)
    BY <1>0, <1>1, <1>8 DEF FollowInv, SlicesWhole
  <2>2. CASE BlockStep
    <3>1. BlockOneShot(result', out')
      BY <1>0, <1>8, <2>1, <2>2, BlockOneShotCloses
    <3>2. IsBlock /\ job.wrap # "identity"
      BY <1>1, <2>2 DEF IsBlock
    <3>. QED  BY <1>1, <3>1, <3>2 DEF OneShotAnswers
  <2>3. CASE IdentityDecode
    <3>1. IdentityOneShot(result', out')
      BY <1>0, <1>8, <2>1, <2>3, IdentityOneShotCloses
    <3>2. ~IsBlock
      BY <1>1, <2>3 DEF IsBlock
    <3>. QED  BY <1>1, <3>1, <3>2 DEF OneShotAnswers
  <2>. QED  BY <2>2, <2>3
<1>9. AnsweredInv'
  BY <1>1, <1>3, <1>4, <1>7, <1>8 DEF AnsweredInv
<1>. QED  BY <1>5, <1>6, <1>9

\* Every step keeps the invariant.
LEMMA FollowingNext ==
    ASSUME FollowingInv, [Next]_vars
    PROVE  FollowingInv'
<1>0. LibraryInv'
  BY LibraryNextInv DEF FollowingInv
<1>1. CASE LoopStep /\ UNCHANGED <<frameVars, b>>
  BY <1>0, <1>1, FollowingLoop DEF FollowingInv
<1>2. CASE FrameStep
  BY <1>0, <1>2, FollowingFrames DEF FollowingInv
<1>3. CASE BlockStep \/ IdentityDecode
  BY <1>0, <1>3, FollowingOthers DEF FollowingInv
<1>4. CASE UNCHANGED vars \/ (Returned /\ UNCHANGED <<frameVars, b>>)
  <2>1. /\ job' = job /\ pc' = pc /\ fed' = fed /\ pos' = pos /\ out' = out
        /\ result' = result /\ f' = f /\ lib' = lib
    BY <1>4 DEF vars, loopVars, frameVars, Returned
  <2>2. /\ IsFramed' = IsFramed /\ IsBlock' = IsBlock /\ Whole' = Whole /\ NoLimit' = NoLimit
        /\ FrameVerdictRight(result, out)' = FrameVerdictRight(result, out)
        /\ FrameConsumedRight(result, pos)' = FrameConsumedRight(result, pos)
        /\ OneShotAnswers(result, out)' = OneShotAnswers(result, out)
    BY <2>1, SameAnswers
  <2>3. FollowInv'
    <3>1. SlicesWhole'
      BY <2>1, SlicesStay DEF FollowingInv, FollowInv
    <3>2. SliceInSight'
      BY <2>1 DEF FollowingInv, FollowInv, SliceInSight
    <3>. QED  BY <2>1, <2>2, <3>1, <3>2 DEF FollowingInv, FollowInv
  <2>4. AnsweredInv'
    BY <2>1, <2>2 DEF FollowingInv, AnsweredInv
  <2>5. WrittenInv'
    BY <2>1, <2>2 DEF FollowingInv, WrittenInv
  <2>. QED  BY <1>0, <2>3, <2>4, <2>5 DEF FollowingInv
<1>. QED  BY <1>1, <1>2, <1>3, <1>4 DEF Next

\* The answer given to a one-shot call is the one this stream is to get.
LEMMA OneShotRightIs ==
    ASSUME NEW vs, NEW bytes, OneShotIs(vs, bytes, result, out)
    PROVE  OneShotRight(vs, bytes)
BY DEF OneShotIs, OneShotRight

\* The invariant has the three properties.
LEMMA FollowingMeans ==
    ASSUME FollowingInv
    PROVE  FrameVerdicts /\ FrameConsumed /\ OneShotDecodes
<1>0. AnsweredInv /\ WrittenInv
  BY DEF FollowingInv
<1>1. Reference = ReferenceOf(job) /\ RefVerdict = VerdictOn(job, ReferenceOf(job))
  BY DEF Reference, RefVerdict
<1>2. Settled => FrameVerdictRight(result, out) /\ FrameConsumedRight(result, pos)
  BY <1>0 DEF Settled, AnsweredInv
<1>3. FrameVerdicts
  <2>1. IsFramed => IsPrefix(out, Reference.out)
    BY <1>0, <1>1 DEF WrittenInv
  <2>2. ASSUME Settled
        PROVE  /\ \/ result = LimitedVerdict
                  \/ /\ HasCeiling(job.opts) /\ result = OverStatus(job.opts)
                     /\ Len(Reference.out) = Ceiling(job.opts)
                     /\ Reference.err # ZU_OK
                  \/ TailUnseen /\ RefVerdict = ZU_ERR_TRAILING /\ result = ZU_STREAM_END
                  \/ job.opts.max_ratio # 0 /\ result = ZU_ERR_RATIO_LIMIT
               /\ result = ZU_STREAM_END =>
                    /\ out = Reference.out
                    /\ job.opts.has_expected => Len(out) = job.opts.expected_size
    <3>1. FrameVerdictRight(result, out)
      BY <1>2, <2>2
    <3>2. TailUnseen <=> ~job.opts.concat /\ ReferenceOf(job).end % job.in_chunk = 0
      BY <1>1 DEF TailUnseen
    <3>. HIDE DEF LimitedVerdict
    <3>. QED  BY <1>1, <3>1, <3>2 DEF FrameVerdictRight
  <2>. QED  BY <2>1, <2>2 DEF FrameVerdicts
<1>4. FrameConsumed
  BY <1>1, <1>2 DEF FrameConsumed, FrameConsumedRight
<1>5. OneShotDecodes
  <2>. SUFFICES ASSUME OneShotSettled, ~HasCeiling(job.opts), job.opts.max_ratio = 0
                PROVE  CASE IsFramed -> OneShotRight({RefVerdict}, Reference.out)
                         [] IsBlock -> OneShotRight(BlockVerdict, Decoded(SoundPart(Len(job.input))))
                         [] OTHER -> OneShotRight({ZU_STREAM_END}, Decoded(Len(job.input)))
    BY Zenon DEF OneShotDecodes
  <2>1. OneShotAnswers(result, out) /\ (IsFramed \/ IsBlock \/ job.wrap = "identity")
    BY <1>0 DEF OneShotSettled, AnsweredInv, NoLimit
  <2>2. ASSUME IsFramed PROVE ~IsBlock /\ OneShotRight({RefVerdict}, Reference.out)
    <3>1. FrameOneShot(result, out) /\ ~IsBlock
      BY <2>1, <2>2 DEF OneShotAnswers, IsFramed, IsBlock
    <3>. QED  BY <1>1, <3>1, OneShotRightIs DEF FrameOneShot
  <2>3. ASSUME IsBlock
        PROVE  ~IsFramed /\ OneShotRight(BlockVerdict, Decoded(SoundPart(Len(job.input))))
    <3>1. BlockOneShot(result, out) /\ ~IsFramed
      BY <2>1, <2>3 DEF OneShotAnswers, IsFramed, IsBlock
    <3>. QED  BY <3>1, OneShotRightIs DEF BlockOneShot
  <2>4. ASSUME ~IsFramed, ~IsBlock
        PROVE  OneShotRight({ZU_STREAM_END}, Decoded(Len(job.input)))
    <3>1. IdentityOneShot(result, out)
      BY <2>1, <2>4 DEF OneShotAnswers
    <3>. QED  BY <3>1, OneShotRightIs DEF IdentityOneShot
  <2>. HIDE DEF IsFramed, IsBlock
  <2>. QED  BY <2>2, <2>3, <2>4, Zenon
<1>. QED  BY <1>3, <1>4, <1>5

\* The decoders follow their streams in every reachable state.
LEMMA DecodersFollow == Spec => []FollowingInv
<1>1. Init => FollowingInv
  BY FollowingInit
<1>2. FollowingInv /\ [Next]_vars => FollowingInv'
  BY FollowingNext
<1>. QED  BY <1>1, <1>2, PTL DEF Spec

\* zstd and lz4-frame (zu_int_frames_run) give the reference decoder's verdict
\* and bytes for every job, every slicing of the input and every window: with
\* magics held across buffers, skippable frames, output the library keeps back
\* and the probe that tells a full window from a stream cut short.  With a
\* ceiling the verdict is exact at the ceiling itself too; what the property
\* leaves open is listed there.
THEOREM FrameVerdictsAreExact == Spec => []FrameVerdicts
BY DecodersFollow, FollowingMeans, PTL

\* The consumed count a caller resumes from (zu_int_run_whole) is the end of
\* the last frame, or at most three bytes past it, over a part of a magic held
\* from an earlier buffer that a later one disproved.
THEOREM FrameConsumedIsExact == Spec => []FrameConsumed
BY DecodersFollow, FollowingMeans, PTL

\* zu_decompress_one with any of these codecs, frames, a block or bytes as they
\* are, succeeds in a buffer of exactly the stream's size and in no smaller
\* one, and otherwise reports the stream's own verdict unless the buffer fills
\* first.
THEOREM LibraryOneShotDecodes == Spec => []OneShotDecodes
BY DecodersFollow, FollowingMeans, PTL
=============================================================================
