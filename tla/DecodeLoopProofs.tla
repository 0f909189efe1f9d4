-------------------------- MODULE DecodeLoopProofs --------------------------
(***************************************************************************)
(* Proofs about the two callers of a decoder handle, for every codec that  *)
(* keeps the cursor contract, every job and every limit: what is invariant *)
(* of their cursors and counters, and that every step of theirs is a step  *)
(* of the handle that ZuDecoder specifies, or none.  The proofs about the  *)
(* concrete codecs show that they keep the contract, and cite these.       *)
(***************************************************************************)
EXTENDS DecodeLoop, SequencesExt, TLAPS, WellFoundedInduction, SequenceTheorems

----------------------------------------------------------------------------
(***************************************************************************)
(* Induction.  The library's principles are stated for an operator, which  *)
(* the provers cannot instantiate; for a set of naturals they can.         *)
(***************************************************************************)
\* A set of naturals that is not empty has a least member.
LEMMA LeastMember ==
    ASSUME NEW T \in SUBSET Nat, T # {}
    PROVE  \E x \in T : \A y \in T : x <= y
<1>. DEFINE R == OpToRel(<, Nat)
<1>1. PICK x \in T : \A y \in T : ~(<<y, x>> \in R)
  <2>1. IsWellFoundedOn(R, Nat)
    BY NatLessThanWellFounded
  <2>. HIDE DEF R
  <2>. QED  BY <2>1, WFMin
<1>2. ASSUME NEW y \in T PROVE x <= y
  <2>1. ~(<<y, x>> \in R)
    BY <1>1
  <2>2. y \in Nat /\ x \in Nat
    OBVIOUS
  <2>3. ~(y < x)
    BY <2>1, <2>2 DEF OpToRel
  <2>. QED  BY <2>2, <2>3
<1>. QED  BY <1>2

\* A set that holds 0 and, up to N, with a number the next, holds all of them.
LEMMA UpTo ==
    ASSUME NEW N \in Nat, NEW P, 0 \in P,
           \A i \in 0 .. N : i \in P /\ i < N => i + 1 \in P
    PROVE  \A i \in 0 .. N : i \in P
<1>. DEFINE Bad == {i \in 0 .. N : i \notin P}
<1>. SUFFICES ASSUME Bad # {} PROVE FALSE
  OBVIOUS
<1>1. Bad \in SUBSET Nat
  OBVIOUS
<1>2. PICK m \in Bad : \A k \in Bad : m <= k
  <2>. HIDE DEF Bad
  <2>. QED  BY <1>1, LeastMember
<1>3. m \in Nat /\ m # 0 /\ m - 1 \in 0 .. N /\ m - 1 \notin Bad
  <2>1. m \in Nat /\ m # 0 /\ m <= N
    BY <1>2
  <2>2. m - 1 \in 0 .. N /\ ~(m <= m - 1)
    BY <2>1
  <2>. QED  BY <1>2, <2>1, <2>2
<1>4. m - 1 \in P /\ m - 1 < N /\ (m - 1) + 1 = m
  BY <1>3
<1>5. m \in P
  BY <1>3, <1>4
<1>. QED  BY <1>2, <1>5

(***************************************************************************)
(* Recursive functions.  That a definition by recursion has a solution is  *)
(* not for the provers to guess: here it is built up to N, one step at a   *)
(* time, for steps that stay in a set T.                                   *)
(***************************************************************************)
StaysIn(T, N, step) == \A k \in 1 .. N : \A x \in T : step[k][x] \in T

Iterates(g, N, a, step) ==
    g = [k \in 0 .. N |-> IF k = 0 THEN a ELSE step[k][g[k - 1]]]

\* A definition by recursion over 0 .. N has a solution, and it stays in T.
LEMMA IteratesExist ==
    ASSUME NEW N, NEW T, NEW a, NEW step, N \in Nat, a \in T, StaysIn(T, N, step)
    PROVE  \E g : Iterates(g, N, a, step) /\ \A k \in 0 .. N : g[k] \in T
<1>. DEFINE Good(m, g) == /\ \A k \in 0 .. m : g[k] \in T
                          /\ g = [k \in 0 .. m |-> IF k = 0 THEN a ELSE step[k][g[k - 1]]]
            P == {m \in 0 .. N : \E g : Good(m, g)}
<1>1. 0 \in P
  <2>. DEFINE g == [k \in 0 .. 0 |-> a]
  <2>1. Good(0, g)
    <3>1. \A k \in 0 .. 0 : k = 0
      OBVIOUS
    <3>. QED  BY <3>1
  <2>2. \E h : Good(0, h)
    <3>. HIDE DEF g, Good
    <3>. QED  BY <2>1
  <2>. HIDE DEF Good
  <2>. QED  BY <2>2
<1>2. ASSUME NEW m \in 0 .. N, m \in P, m < N
      PROVE  m + 1 \in P
  <2>0. m \in Nat /\ m + 1 \in 1 .. N /\ m + 1 \in 0 .. N /\ m \in 0 .. m
    BY <1>2
  <2>1. PICK g : Good(m, g)
    BY <1>2
  <2>2. g[m] \in T /\ step[m + 1][g[m]] \in T
    BY <2>0, <2>1 DEF StaysIn
  <2>. DEFINE h == [k \in 0 .. m + 1 |-> IF k <= m THEN g[k] ELSE step[m + 1][g[m]]]
  <2>3. \A k \in 0 .. m : h[k] = g[k] /\ k \in 0 .. m + 1
    BY <2>0
  <2>4. h[m + 1] = step[m + 1][g[m]]
    BY <2>0
  <2>5. \A k \in 0 .. m + 1 : k \in 0 .. m \/ k = m + 1
    BY <2>0
  <2>6. \A k \in 0 .. m + 1 : h[k] \in T
    <3>. HIDE DEF h
    <3>. QED  BY <2>1, <2>2, <2>3, <2>4, <2>5
  <2>7. \A k \in 0 .. m + 1 : h[k] = IF k = 0 THEN a ELSE step[k][h[k - 1]]
    <3>. SUFFICES ASSUME NEW k \in 0 .. m + 1
                  PROVE  h[k] = IF k = 0 THEN a ELSE step[k][h[k - 1]]
      OBVIOUS
    <3>. HIDE DEF h
    <3>1. CASE k \in 0 .. m
      <4>1. k # 0 => k - 1 \in 0 .. m
        BY <2>0, <3>1
      <4>2. g[k] = IF k = 0 THEN a ELSE step[k][g[k - 1]]
        BY <2>1, <3>1
      <4>. QED  BY <2>3, <3>1, <4>1, <4>2
    <3>2. CASE k = m + 1
      <4>1. k # 0 /\ k - 1 = m
        BY <2>0, <3>2
      <4>. QED  BY <2>0, <2>3, <2>4, <3>2, <4>1
    <3>. QED  BY <2>5, <3>1, <3>2
  <2>8. h = [k \in 0 .. m + 1 |-> h[k]]
    OBVIOUS
  <2>9. h = [k \in 0 .. m + 1 |-> IF k = 0 THEN a ELSE step[k][h[k - 1]]]
    <3>. HIDE DEF h
    <3>. QED  BY <2>7, <2>8
  <2>10. \E e : Good(m + 1, e)
    <3>. HIDE DEF h
    <3>1. Good(m + 1, h)
      BY <2>6, <2>9
    <3>. HIDE DEF Good
    <3>. QED  BY <3>1
  <2>. HIDE DEF Good
  <2>. QED  BY <2>0, <2>10
<1>3. N \in P
  <2>. HIDE DEF P
  <2>1. \A m \in 0 .. N : m \in P /\ m < N => m + 1 \in P
    BY <1>2
  <2>2. \A m \in 0 .. N : m \in P
    BY ONLY N \in Nat, <1>1, <2>1, UpTo
  <2>. QED  BY <2>2
<1>4. PICK g : Good(N, g)
  <2>. HIDE DEF Good
  <2>. QED  BY <1>3
<1>. QED  BY <1>4 DEF Iterates

\* A finite set of numbers that is not empty has a greatest one.
LEMMA GreatestMember ==
    ASSUME NEW N, N \in Nat, NEW S, S \subseteq 0 .. N, S # {}
    PROVE  Max(S) \in S /\ \A k \in S : k <= Max(S)
<1>. DEFINE T == {m \in 0 .. N : N - m \in S}
<1>1. T \in SUBSET Nat /\ T # {}
  <2>1. PICK k \in S : TRUE
    OBVIOUS
  <2>2. k \in 0 .. N
    OBVIOUS
  <2>3. N - k \in 0 .. N /\ N - (N - k) = k
    BY <2>2
  <2>. QED  BY <2>1, <2>3
<1>2. PICK m \in T : \A y \in T : m <= y
  <2>. HIDE DEF T
  <2>. QED  BY <1>1, LeastMember
<1>3. N - m \in S /\ m \in 0 .. N
  BY <1>2
<1>4. \A k \in S : N - m >= k
  <2>. SUFFICES ASSUME NEW k \in S PROVE N - m >= k
    OBVIOUS
  <2>2. k \in 0 .. N
    OBVIOUS
  <2>3. N - k \in 0 .. N /\ N - (N - k) = k
    BY <2>2
  <2>4. N - k \in T
    BY <2>3
  <2>5. m <= N - k
    BY <1>2, <2>4
  <2>. QED  BY <1>3, <2>2, <2>5
<1>5. \E x \in S : \A y \in S : x >= y
  BY <1>3, <1>4
<1>6. Max(S) \in S /\ \A y \in S : Max(S) >= y
  BY <1>5 DEF Max
<1>. QED  BY <1>6

\* A slice of a sequence of bytes, and the rest of it.
LEMMA Slice ==
    ASSUME NEW s \in Seq(Nat), NEW m \in Nat, NEW n \in Nat, m + n <= Len(s)
    PROVE  /\ SubSeq(s, m + 1, m + n) \in Seq(Nat) /\ Len(SubSeq(s, m + 1, m + n)) = n
           /\ SubSeq(s, m + 1, Len(s)) \in Seq(Nat)
           /\ Len(SubSeq(s, m + 1, Len(s))) = Len(s) - m
OBVIOUS

\* Two sequences of bytes, joined.
LEMMA Joined ==
    ASSUME NEW s \in Seq(Nat), NEW t \in Seq(Nat)
    PROVE  /\ s \o t \in Seq(Nat) /\ Len(s \o t) = Len(s) + Len(t)
           /\ Len(s) \in Nat /\ Len(t) \in Nat
OBVIOUS

\* Joining sequences of bytes is associative.
LEMMA JoinedAgain ==
    ASSUME NEW s \in Seq(Nat), NEW t \in Seq(Nat), NEW u \in Seq(Nat)
    PROVE  (s \o t) \o u = s \o (t \o u)
BY ConcatAssociative

----------------------------------------------------------------------------
(***************************************************************************)
(* What a run of tokens decodes to is the concatenation of what each does. *)
(***************************************************************************)
\* The running concatenation of s, as FlattenSeq computes it.
RunsOf(s, f) ==
    f = [i \in 1 .. Len(s) |-> IF i = 1 THEN s[i] ELSE f[i - 1] \o s[i]]

\* It exists.
LEMMA RunsExist ==
    ASSUME NEW s \in Seq(Seq(Nat))
    PROVE  \E f \in [1 .. Len(s) -> Seq(Nat)] : RunsOf(s, f)
<1>. DEFINE Good(m, f) == \A i \in 1 .. m : f[i] = IF i = 1 THEN s[i] ELSE f[i - 1] \o s[i]
            P == {m \in 0 .. Len(s) : \E f \in [1 .. m -> Seq(Nat)] : Good(m, f)}
<1>0. Len(s) \in Nat /\ \A i \in 1 .. Len(s) : s[i] \in Seq(Nat)
  OBVIOUS
<1>1. 0 \in P
  <2>. DEFINE f == [i \in 1 .. 0 |-> <<>>]
  <2>1. f \in [1 .. 0 -> Seq(Nat)] /\ Good(0, f)
    OBVIOUS
  <2>2. \E h \in [1 .. 0 -> Seq(Nat)] : Good(0, h)
    <3>. HIDE DEF f, Good
    <3>. QED  BY <2>1
  <2>3. 0 \in 0 .. Len(s)
    BY <1>0
  <2>. HIDE DEF Good
  <2>. QED  BY <2>2, <2>3
<1>2. ASSUME NEW m \in 0 .. Len(s), m \in P, m < Len(s)
      PROVE  m + 1 \in P
  <2>1. PICK f \in [1 .. m -> Seq(Nat)] : Good(m, f)
    BY <1>2
  <2>. DEFINE g == [i \in 1 .. m + 1 |-> IF i <= m THEN f[i]
                                         ELSE IF i = 1 THEN s[i] ELSE f[m] \o s[i]]
  <2>2. m \in Nat /\ m + 1 \in 1 .. Len(s) /\ s[m + 1] \in Seq(Nat)
    BY <1>0, <1>2
  <2>3. \A i \in 1 .. m + 1 : i \in 1 .. m \/ i = m + 1
    BY <2>2
  <2>4. m # 0 => f[m] \in Seq(Nat)
    BY <2>2
  <2>5. \A i \in 1 .. m : g[i] = f[i]
    BY <2>2
  <2>6. g[m + 1] = IF m = 0 THEN s[m + 1] ELSE f[m] \o s[m + 1]
    BY <2>2
  <2>7. g \in [1 .. m + 1 -> Seq(Nat)]
    <3>1. \A i \in 1 .. m + 1 : g[i] \in Seq(Nat)
      <4>. TAKE i \in 1 .. m + 1
      <4>1. CASE i \in 1 .. m
        BY <2>5, <4>1
      <4>2. CASE i = m + 1 /\ m = 0
        BY <2>2, <2>6, <4>2
      <4>3. CASE i = m + 1 /\ m # 0
        BY <2>2, <2>4, <2>6, <4>3
      <4>. QED  BY <2>3, <4>1, <4>2, <4>3
    <3>. QED  BY <3>1
  <2>8. Good(m + 1, g)
    <3>. SUFFICES ASSUME NEW i \in 1 .. m + 1
                  PROVE  g[i] = IF i = 1 THEN s[i] ELSE g[i - 1] \o s[i]
      OBVIOUS
    <3>1. CASE i \in 1 .. m
      <4>1. i # 1 => i - 1 \in 1 .. m
        BY <2>2, <3>1
      <4>. QED  BY <2>1, <2>5, <3>1, <4>1
    <3>2. CASE i = m + 1 /\ m = 0
      BY <2>6, <3>2
    <3>3. CASE i = m + 1 /\ m # 0
      <4>1. m \in 1 .. m /\ i - 1 = m /\ i # 1
        BY <2>2, <3>3
      <4>. QED  BY <2>5, <2>6, <3>3, <4>1
    <3>. QED  BY <2>3, <3>1, <3>2, <3>3
  <2>9. \E h \in [1 .. m + 1 -> Seq(Nat)] : Good(m + 1, h)
    <3>. HIDE DEF g, Good
    <3>. QED  BY <2>7, <2>8
  <2>10. m + 1 \in 0 .. Len(s)
    BY <2>2
  <2>. HIDE DEF Good
  <2>. QED  BY <2>9, <2>10
<1>3. Len(s) \in P
  <2>. HIDE DEF P
  <2>1. \A m \in 0 .. Len(s) : m \in P /\ m < Len(s) => m + 1 \in P
    BY <1>2
  <2>2. \A m \in 0 .. Len(s) : m \in P
    BY ONLY <1>0, <1>1, <2>1, UpTo
  <2>. QED  BY <1>0, <2>2
<1>4. PICK f \in [1 .. Len(s) -> Seq(Nat)] : Good(Len(s), f)
  <2>. HIDE DEF Good
  <2>. QED  BY <1>3
<1>5. RunsOf(s, f)
  BY <1>4 DEF RunsOf
<1>. QED  BY <1>5

\* t is s, or goes on after it.
GoesOn(s, t) ==
    /\ Len(s) \in Nat /\ Len(t) \in Nat /\ Len(s) <= Len(t)
    /\ \A i \in 1 .. Len(s) : s[i] = t[i]

\* ... is what it is whichever way it is found, and agrees with that of a
\* sequence that goes on.
LEMMA RunsAgree ==
    ASSUME NEW s, NEW t, NEW f, NEW g, GoesOn(s, t), RunsOf(s, f), RunsOf(t, g)
    PROVE  \A i \in 1 .. Len(s) : f[i] = g[i]
<1>. USE DEF GoesOn
<1>. DEFINE P == {i \in 0 .. Len(s) : i = 0 \/ f[i] = g[i]}
<1>1. 0 \in P
  OBVIOUS
<1>2. ASSUME NEW i \in 0 .. Len(s), i \in P, i < Len(s)
      PROVE  i + 1 \in P
  <2>1. i + 1 \in 1 .. Len(s) /\ i + 1 \in 1 .. Len(t) /\ (i + 1 = 1 <=> i = 0) /\ (i + 1) - 1 = i
    BY <1>2
  <2>2. f[i + 1] = IF i = 0 THEN s[i + 1] ELSE f[i] \o s[i + 1]
    BY <2>1 DEF RunsOf
  <2>3. g[i + 1] = IF i = 0 THEN t[i + 1] ELSE g[i] \o t[i + 1]
    BY <2>1 DEF RunsOf
  <2>. QED  BY <1>2, <2>1, <2>2, <2>3
<1>3. \A i \in 0 .. Len(s) : i \in P
  <2>. HIDE DEF P
  <2>. QED  BY <1>1, <1>2, UpTo
<1>. QED  BY <1>3

\* FlattenSeq is the last of the partial concatenations.
LEMMA FlattenIsRuns ==
    ASSUME NEW s \in Seq(Seq(Nat)), Len(s) > 0, NEW f, RunsOf(s, f)
    PROVE  FlattenSeq(s) = f[Len(s)]
<1>. DEFINE g == CHOOSE h : h = [i \in 1 .. Len(s) |-> IF i = 1 THEN s[i] ELSE h[i - 1] \o s[i]]
<1>1. FlattenSeq(s) = g[Len(s)]
  BY DEF FlattenSeq
<1>2. RunsOf(s, g)
  BY DEF RunsOf
<1>. HIDE DEF g
<1>3. Len(s) \in 1 .. Len(s)
  OBVIOUS
<1>4. GoesOn(s, s)
  BY DEF GoesOn
<1>. QED  BY <1>1, <1>2, <1>3, <1>4, RunsAgree

\* Flattening sequences of bytes gives a sequence of bytes.
LEMMA FlattenType ==
    ASSUME NEW s \in Seq(Seq(Nat))
    PROVE  FlattenSeq(s) \in Seq(Nat)
<1>1. CASE Len(s) = 0
  BY <1>1 DEF FlattenSeq
<1>2. CASE Len(s) > 0
  <2>1. PICK f \in [1 .. Len(s) -> Seq(Nat)] : RunsOf(s, f)
    BY RunsExist
  <2>2. Len(s) \in 1 .. Len(s)
    BY <1>2
  <2>. QED  BY <1>2, <2>1, <2>2, FlattenIsRuns
<1>. QED  BY <1>1, <1>2

\* One more adds its own bytes.
LEMMA FlattenNext ==
    ASSUME NEW s \in Seq(Seq(Nat)), NEW t \in Seq(Seq(Nat)), Len(t) = Len(s) + 1,
           \A i \in 1 .. Len(s) : s[i] = t[i]
    PROVE  FlattenSeq(t) = FlattenSeq(s) \o t[Len(t)]
<1>1. PICK f : RunsOf(s, f)
  BY RunsExist
<1>2. PICK g : RunsOf(t, g)
  BY RunsExist
<1>3. Len(s) \in Nat /\ Len(t) \in 1 .. Len(t) /\ t[Len(t)] \in Seq(Nat) /\ Len(t) - 1 = Len(s)
      /\ Len(t) \in Nat /\ Len(t) > 0 /\ Len(s) <= Len(t)
  OBVIOUS
<1>4. FlattenSeq(t) = g[Len(t)]
  BY <1>2, <1>3, FlattenIsRuns
<1>5. g[Len(t)] = IF Len(t) = 1 THEN t[Len(t)] ELSE g[Len(t) - 1] \o t[Len(t)]
  BY <1>2, <1>3 DEF RunsOf
<1>6. CASE Len(s) = 0
  <2>1. FlattenSeq(s) = <<>>
    BY <1>6 DEF FlattenSeq
  <2>. QED  BY <1>3, <1>4, <1>5, <1>6, <2>1
<1>7. CASE Len(s) # 0
  <2>1. Len(s) \in 1 .. Len(s) /\ Len(s) > 0
    BY <1>3, <1>7
  <2>2. FlattenSeq(s) = f[Len(s)]
    BY <1>1, <2>1, FlattenIsRuns
  <2>3. f[Len(s)] = g[Len(s)]
    <3>1. GoesOn(s, t) /\ RunsOf(s, f) /\ RunsOf(t, g)
      BY <1>1, <1>2, <1>3 DEF GoesOn
    <3>2. \A i \in 1 .. Len(s) : f[i] = g[i]
      BY ONLY <3>1, RunsAgree
    <3>. QED  BY <2>1, <3>2
  <2>4. Len(t) # 1
    BY <1>3, <1>7
  <2>5. g[Len(t)] = g[Len(s)] \o t[Len(t)]
    BY <1>3, <1>5, <2>4
  <2>. QED  BY <1>4, <2>2, <2>3, <2>5
<1>. QED  BY <1>3, <1>6, <1>7

----------------------------------------------------------------------------
(***************************************************************************)
(* The invariant of the loop.  `Window` is the room of the call in         *)
(* progress, before the driver shrinks it.                                 *)
(***************************************************************************)
Window == IF Whole THEN job.out_chunk ELSE job.out_chunk - call.out

\* The cursors stay in their buffers and in order.
CursorsInOrder ==
    /\ job \in Jobs
    /\ pc \in {"open", "call", "codec", "close", "closed"}
    /\ fed \in Nat /\ pos \in Nat /\ pos <= fed /\ fed <= Len(job.input)
    /\ out \in Seq(Nat)
    /\ ~Whole => Len(out) <= job.out_chunk
    /\ Len(out) <= U64Max
    /\ HasCeiling(job.opts) => Len(out) <= Ceiling(job.opts)
    /\ flush \in {ZU_RUN, ZU_FINISH}

\* The handle's counters are the cursors, and the stream is open while the
\* caller goes on.
CountersAreCursors ==
    /\ total_in \in Nat /\ total_out \in Nat
    /\ pc # "codec" => total_in = pos /\ total_out = Len(out)
    /\ pc \in {"open", "call", "codec"} => finished = FALSE /\ result = Running
    /\ (pc \in {"open", "call", "codec"} /\ Whole) => fed - total_in <= job.in_chunk
    /\ pc = "open" => fed = 0 /\ pos = 0 /\ out = <<>>
    /\ pc = "open" <=> last.op = "none"
    /\ pc \in {"call", "codec", "close"} =>
          last.op = "process" \/ (last.op = "new" /\ last.status = ZU_OK)

\* What the driver shows the codec, and how far it has gone.
CallInProgress ==
    pc = "codec" =>
        /\ call.pos = total_in /\ call.out = total_out
        /\ call.pos <= pos /\ call.out <= Len(out)
        /\ Window \in Nat /\ call.out + Window <= U64Max
        /\ Whole \/ Window <= job.out_chunk
        /\ call.capped = Capped(job.opts, total_out, Window)
        /\ call.allowance = Allowance(job.opts, total_out, Window)
        /\ call.allowance \in Nat /\ call.allowance <= Window
        /\ Len(out) <= call.out + call.allowance
        /\ flush = ZU_FINISH <=> fed = Len(job.input)

LoopInv == CursorsInOrder /\ CountersAreCursors /\ CallInProgress

\* The cursor contract: where a step of the codec may move the cursors.
Advance(p, o) ==
    /\ p \in pos .. fed
    /\ o \in Seq(Nat)
    /\ Len(out) <= Len(o) /\ Len(o) <= call.out + call.allowance

\* A job's parts.
LEMMA JobTypes ==
    ASSUME NEW j \in Jobs
    PROVE  /\ j.opts \in LimitOpts /\ j.driver \in {"whole", "one_shot"}
           /\ j.input \in Seq(STRING \X Nat) /\ Len(j.input) \in Nat /\ Len(j.input) <= U64Max
           /\ j.in_chunk \in Nat /\ j.in_chunk > 0
           /\ j.out_chunk \in Nat /\ j.out_chunk <= U64Max
           /\ U64Max \in Nat
BY JobsAssumption, U64MaxAssumption

\* A token decodes to as many bytes as it says.
LEMMA TokenBytes ==
    ASSUME NEW j \in Jobs, job = j, NEW i \in 1 .. Len(j.input)
    PROVE  /\ j.input[i][2] \in Nat
           /\ BytesOf(i) \in Seq(Nat) /\ Len(BytesOf(i)) = j.input[i][2]
<1>1. j.input[i] \in STRING \X Nat /\ i \in Nat
  BY JobTypes
<1>2. j.input[i][2] \in Nat
  BY <1>1
<1>. DEFINE n == j.input[i][2]
<1>3. BytesOf(i) = [k \in 1 .. n |-> 100 * i + k]
  BY DEF BytesOf, BytesAt
<1>4. \A k \in 1 .. n : 100 * i + k \in Nat
  BY <1>1, <1>2
<1>. HIDE DEF n
<1>. QED  BY <1>2, <1>3, <1>4 DEF n

\* The tokens' bytes from a position on.
Run(p, n) == [i \in 1 .. n |-> BytesOf(p + i)]

\* They are sequences of bytes.
LEMMA RunType ==
    ASSUME NEW j \in Jobs, job = j, NEW p \in Nat, NEW n \in Nat, p + n <= Len(j.input)
    PROVE  Run(p, n) \in Seq(Seq(Nat)) /\ Len(Run(p, n)) = n
<1>1. \A i \in 1 .. n : p + i \in 1 .. Len(j.input)
  BY JobTypes
<1>2. \A i \in 1 .. n : BytesOf(p + i) \in Seq(Nat)
  BY <1>1, TokenBytes
<1>. QED  BY <1>2 DEF Run

\* One more token adds its bytes at the end.
LEMMA RunNext ==
    ASSUME NEW j \in Jobs, job = j, NEW p \in Nat, NEW n \in Nat, p + n + 1 <= Len(j.input)
    PROVE  FlattenSeq(Run(p, n + 1)) = FlattenSeq(Run(p, n)) \o BytesOf(p + n + 1)
<1>1. /\ Run(p, n) \in Seq(Seq(Nat)) /\ Len(Run(p, n)) = n
      /\ Run(p, n + 1) \in Seq(Seq(Nat)) /\ Len(Run(p, n + 1)) = n + 1
  <2>1. n + 1 \in Nat /\ p + (n + 1) <= Len(j.input) /\ p + n <= Len(j.input)
    BY JobTypes
  <2>. QED  BY <2>1, RunType
<1>2. \A i \in 1 .. n : Run(p, n)[i] = Run(p, n + 1)[i]
  BY DEF Run
<1>3. Run(p, n + 1)[n + 1] = BytesOf(p + n + 1)
  <2>1. n + 1 \in 1 .. n + 1 /\ p + (n + 1) = p + n + 1
    OBVIOUS
  <2>. QED  BY <2>1 DEF Run
<1>4. /\ \A i \in 1 .. Len(Run(p, n)) : Run(p, n)[i] = Run(p, n + 1)[i]
      /\ Len(Run(p, n + 1)) = Len(Run(p, n)) + 1
  BY <1>1, <1>2
<1>5. FlattenSeq(Run(p, n + 1)) = FlattenSeq(Run(p, n)) \o Run(p, n + 1)[Len(Run(p, n + 1))]
  BY <1>1, <1>4, FlattenNext
<1>. QED  BY <1>1, <1>3, <1>5

\* No token, no bytes.
LEMMA RunEmpty == \A p : FlattenSeq(Run(p, 0)) = <<>>
BY DEF Run, FlattenSeq

\* What a run of tokens decodes to is a sequence of bytes.
LEMMA RunBytes ==
    ASSUME NEW j \in Jobs, job = j, NEW p \in Nat, NEW n \in Nat, p + n <= Len(j.input)
    PROVE  FlattenSeq(Run(p, n)) \in Seq(Nat) /\ Len(FlattenSeq(Run(p, n))) \in Nat
<1>1. FlattenSeq(Run(p, n)) \in Seq(Nat)
  BY RunType, FlattenType
<1>. QED  BY <1>1

\* The shrunk window is a window.
LEMMA AllowanceFits ==
    ASSUME NEW o \in LimitOpts, NEW t \in Nat, NEW room \in Nat
    PROVE  Allowance(o, t, room) \in Nat /\ Allowance(o, t, room) <= room
<1>1. Ceiling(o) \in Nat
  BY U64MaxAssumption DEF Ceiling, LimitOpts
<1>2. Remaining(o, t) \in Nat
  BY <1>1 DEF Remaining
<1>. QED  BY <1>2 DEF Allowance, Capped

\* Filling the shrunk window stays within the ceiling.
LEMMA AllowanceKeepsCeiling ==
    ASSUME NEW o \in LimitOpts, NEW t \in Nat, NEW room \in Nat,
           HasCeiling(o) => t <= Ceiling(o)
    PROVE  /\ Ceiling(o) \in Nat
           /\ HasCeiling(o) => t + Allowance(o, t, room) <= Ceiling(o)
           /\ Capped(o, t, room) => t + Allowance(o, t, room) = Ceiling(o)
<1>1. Ceiling(o) \in Nat
  BY U64MaxAssumption DEF Ceiling, LimitOpts
<1>2. HasCeiling(o) => Remaining(o, t) = Ceiling(o) - t
  BY <1>1 DEF Remaining
<1>. QED  BY <1>1, <1>2 DEF Allowance, Capped

\* The invariant of the loop holds before zu_decoder_new.
LEMMA LoopInitInv == LoopInit => LoopInv
<1>. SUFFICES ASSUME LoopInit PROVE LoopInv
  OBVIOUS
<1>1. job \in Jobs /\ fed = 0 /\ pos = 0 /\ out = <<>> /\ pc = "open" /\ flush = ZU_RUN
      /\ total_in = 0 /\ total_out = 0 /\ result = Running
  BY DEF LoopInit
<1>2. finished = FALSE
  BY DEF LoopInit
<1>3. last.op = "none"
  BY DEF LoopInit, Answer
<1>4. Len(out) = 0 /\ out \in Seq(Nat)
  BY <1>1
<1>9. HasCeiling(job.opts) => 0 <= Ceiling(job.opts)
  <2>1. job.opts \in LimitOpts
    BY <1>1, JobTypes
  <2>. QED  BY <2>1, U64MaxAssumption DEF Ceiling, HasCeiling, LimitOpts
<1>5. CursorsInOrder
  BY <1>1, <1>4, <1>9, JobTypes DEF CursorsInOrder
<1>6. CountersAreCursors
  BY <1>1, <1>2, <1>3, <1>4, JobTypes DEF CountersAreCursors
<1>. QED  BY <1>1, <1>5, <1>6 DEF LoopInv, CallInProgress

----------------------------------------------------------------------------
\* What LoopInv says, once the job's parts have their types.
LEMMA LoopFacts ==
    ASSUME LoopInv
    PROVE  /\ job \in Jobs /\ job.opts \in LimitOpts
           /\ job.driver \in {"whole", "one_shot"}
           /\ Len(job.input) \in Nat /\ Len(job.input) <= U64Max
           /\ job.in_chunk \in Nat /\ job.in_chunk > 0
           /\ job.out_chunk \in Nat /\ job.out_chunk <= U64Max /\ U64Max \in Nat
           /\ fed \in Nat /\ pos \in Nat /\ pos <= fed /\ fed <= Len(job.input)
           /\ out \in Seq(Nat) /\ Len(out) \in Nat /\ Len(out) <= U64Max
           /\ ~Whole => Len(out) <= job.out_chunk
           /\ total_in \in Nat /\ total_out \in Nat
BY JobTypes DEF LoopInv, CursorsInOrder, CountersAreCursors

\* A new slice is at most a chunk and stays within the input.
LEMMA RefillFits ==
    ASSUME LoopInv, pc = "call", Refill
    PROVE  /\ fed' \in Nat /\ fed <= fed' /\ fed' <= Len(job.input)
           /\ Whole => fed' - pos <= job.in_chunk
<1>1. total_in = pos /\ (Whole => fed - total_in <= job.in_chunk)
  BY DEF LoopInv, CountersAreCursors
<1>. QED  BY <1>1, LoopFacts DEF Refill, LeastOf

\* zu_decoder_new keeps it.
LEMMA OpenInv ==
    ASSUME LoopInv, Open
    PROVE  LoopInv'
<1>1. UNCHANGED <<job, fed, pos, out, flush, call, finished, total_in, total_out>>
      /\ pc = "open"
  BY DEF Open
<1>2. pc' \in {"call", "closed"}
  BY DEF Open
<1>3. pc' = "call" => last'.op = "new" /\ last'.status = ZU_OK /\ result' = result
  BY DEF Open, Answer
<1>4. last'.op = "new"
  BY DEF Open, Answer
<1>5. CursorsInOrder'
  BY <1>1, <1>2 DEF LoopInv, CursorsInOrder, Whole
<1>6. CountersAreCursors'
  BY <1>1, <1>2, <1>3, <1>4 DEF LoopInv, CountersAreCursors, Whole
<1>. QED  BY <1>2, <1>5, <1>6 DEF LoopInv, CallInProgress

\* The top of the loop keeps it: the slice, the room and the window fit.
LEMMA CallCodecInv ==
    ASSUME LoopInv, CallCodec
    PROVE  LoopInv'
<1>1. /\ pc = "call" /\ pc' = "codec" /\ Refill /\ Len(out) + Room <= U64Max
      /\ UNCHANGED <<job, pos, out, finished, total_in, total_out, last, result>>
  BY DEF CallCodec
<1>2. call' = [pos |-> pos, out |-> Len(out),
               capped |-> Capped(job.opts, total_out, Room),
               allowance |-> Allowance(job.opts, total_out, Room)]
  BY DEF CallCodec
<1>3. flush' \in {ZU_RUN, ZU_FINISH}
  BY DEF CallCodec
<1>4. total_in = pos /\ total_out = Len(out)
  BY <1>1 DEF LoopInv, CountersAreCursors
<1>5. Room \in Nat /\ (Whole \/ Room <= job.out_chunk)
  BY LoopFacts DEF Room
<1>6. Window' = Room
  BY <1>1, <1>2 DEF Window, Room, Whole
<1>7. CursorsInOrder'
  BY <1>1, <1>3, LoopFacts, RefillFits DEF LoopInv, CursorsInOrder, Whole
<1>8. CountersAreCursors'
  BY <1>1, <1>4, LoopFacts, RefillFits DEF LoopInv, CountersAreCursors, Whole
<1>9. CallInProgress'
  <2>1. /\ Allowance(job.opts, total_out, Room) \in Nat
        /\ Allowance(job.opts, total_out, Room) <= Room
    BY <1>5, LoopFacts, AllowanceFits
  <2>2. Whole' = Whole
    BY <1>1 DEF Whole
  <2>3. /\ call'.pos = pos /\ call'.out = Len(out)
        /\ call'.capped = Capped(job.opts, total_out, Room)
        /\ call'.allowance = Allowance(job.opts, total_out, Room)
    BY <1>2
  <2>4. flush' = ZU_FINISH <=> fed' = Len(job.input)
    <3>1. flush' = IF fed' >= Len(job.input) THEN ZU_FINISH ELSE ZU_RUN
      BY DEF CallCodec
    <3>2. fed' >= Len(job.input) <=> fed' = Len(job.input)
      BY <1>1, LoopFacts, RefillFits
    <3>. QED  BY <3>1, <3>2 DEF ZU_FINISH, ZU_RUN
  <2>. QED  BY <1>1, <1>4, <1>5, <1>6, <2>1, <2>2, <2>3, <2>4, LoopFacts DEF CallInProgress
<1>. QED  BY <1>7, <1>8, <1>9 DEF LoopInv

\* zu_int_reserve running out of memory keeps it.
LEMMA ReserveFailsInv ==
    ASSUME LoopInv, ReserveFails
    PROVE  LoopInv'
<1>1. /\ pc = "call" /\ pc' = "close" /\ Refill
      /\ UNCHANGED <<job, pos, out, flush, call, finished, total_in, total_out, last>>
  BY DEF ReserveFails
<1>2. CursorsInOrder'
  BY <1>1, LoopFacts, RefillFits DEF LoopInv, CursorsInOrder, Whole
<1>3. CountersAreCursors'
  BY <1>1 DEF LoopInv, CountersAreCursors
<1>. QED  BY <1>1, <1>2, <1>3 DEF LoopInv, CallInProgress

\* zu_decoder_free keeps it.
LEMMA CloseInv ==
    ASSUME LoopInv, Close
    PROVE  LoopInv'
<1>1. /\ pc = "close" /\ pc' = "closed"
      /\ UNCHANGED <<job, fed, pos, out, flush, call, finished, total_in, total_out, result>>
  BY DEF Close
<1>2. last'.op = "free"
  BY DEF Close, Answer
<1>3. CursorsInOrder'
  BY <1>1 DEF LoopInv, CursorsInOrder, Whole
<1>4. CountersAreCursors'
  BY <1>1, <1>2 DEF LoopInv, CountersAreCursors
<1>. QED  BY <1>1, <1>3, <1>4 DEF LoopInv, CallInProgress

\* Every step of the loop itself keeps it.
LEMMA LoopStepInv ==
    ASSUME LoopInv, LoopStep
    PROVE  LoopInv'
BY OpenInv, CallCodecInv, ReserveFailsInv, CloseInv DEF LoopStep

\* A step that leaves the loop alone keeps it.
LEMMA LoopStutterInv ==
    ASSUME LoopInv, UNCHANGED loopVars
    PROVE  LoopInv'
BY DEF loopVars, LoopInv, CursorsInOrder, CountersAreCursors, CallInProgress, Window, Whole

\* The cursor contract keeps the output within the ceiling.
LEMMA AdvanceKeepsCeiling ==
    ASSUME LoopInv, pc = "codec", NEW p, NEW o, Advance(p, o)
    PROVE  HasCeiling(job.opts) => Len(o) <= Ceiling(job.opts)
<1>1. /\ call.out = total_out /\ call.out <= Len(out) /\ Window \in Nat
      /\ call.allowance = Allowance(job.opts, total_out, Window) /\ call.allowance \in Nat
  BY DEF LoopInv, CallInProgress
<1>2. HasCeiling(job.opts) => Len(out) <= Ceiling(job.opts)
  BY DEF LoopInv, CursorsInOrder
<1>3. Ceiling(job.opts) \in Nat
  BY U64MaxAssumption, LoopFacts DEF Ceiling, LimitOpts
<1>4. HasCeiling(job.opts) => total_out <= Ceiling(job.opts)
  BY <1>1, <1>2, <1>3, LoopFacts
<1>5. HasCeiling(job.opts) => total_out + call.allowance <= Ceiling(job.opts)
  BY <1>1, <1>4, LoopFacts, AllowanceKeepsCeiling
<1>6. Len(o) \in Nat /\ Len(o) <= call.out + call.allowance
  BY DEF Advance
<1>. QED  BY <1>1, <1>3, <1>5, <1>6, LoopFacts

\* What the codec writes fits the sizes the caller computes with, and the
\* one-shot call's buffer.
LEMMA AdvanceFits ==
    ASSUME LoopInv, pc = "codec", NEW p, NEW o, Advance(p, o)
    PROVE  Len(o) <= U64Max /\ (~Whole => Len(o) <= job.out_chunk)
<1>. DEFINE a == call.allowance
            b == call.out
            n == Len(o)
            m == Len(out)
<1>1. U64Max \in Nat /\ job.out_chunk \in Nat /\ m \in Nat
  BY LoopFacts
<1>2. n \in Nat /\ n <= b + a
  BY DEF Advance
<1>3. b = total_out /\ b <= m /\ Window \in Nat /\ b + Window <= U64Max /\ a \in Nat /\ a <= Window
  BY DEF LoopInv, CallInProgress
<1>4. b \in Nat
  BY <1>3, LoopFacts
<1>5. ~Whole => Window = job.out_chunk - b
  BY DEF Window
<1>. HIDE DEF a, b, n, m
<1>6. n <= U64Max
  BY ONLY <1>1, <1>2, <1>3, <1>4
<1>7. ~Whole => n <= job.out_chunk
  BY ONLY <1>1, <1>2, <1>3, <1>4, <1>5
<1>. QED  BY <1>6, <1>7 DEF n

\* A turn of the codec that does not return keeps the contract.
LEMMA ContinueInv ==
    ASSUME LoopInv, pc = "codec", NEW p, NEW o, Advance(p, o), Continue(p, o)
    PROVE  LoopInv'
<1>1. /\ pos' = p /\ out' = o
      /\ UNCHANGED <<job, pc, fed, flush, call, finished, total_in, total_out, last, result>>
  BY DEF Continue
<1>2. /\ p \in Nat /\ p <= fed /\ pos <= p /\ o \in Seq(Nat) /\ Len(o) \in Nat
      /\ Len(out) <= Len(o) /\ Len(o) <= call.out + call.allowance
  BY LoopFacts DEF Advance
<1>3. /\ call.pos = total_in /\ call.out = total_out
      /\ call.pos <= pos /\ call.out <= Len(out)
      /\ Window \in Nat /\ call.out + Window <= U64Max
      /\ Whole \/ Window <= job.out_chunk
      /\ call.allowance \in Nat /\ call.allowance <= Window
  BY DEF LoopInv, CallInProgress
<1>4. Len(o) <= U64Max /\ (~Whole => Len(o) <= job.out_chunk)
  BY AdvanceFits
<1>5. Whole' = Whole /\ Window' = Window
  BY <1>1 DEF Whole, Window
<1>6. CursorsInOrder'
  BY <1>1, <1>2, <1>4, <1>5, AdvanceKeepsCeiling DEF LoopInv, CursorsInOrder
<1>7. CountersAreCursors'
  BY <1>1, <1>5 DEF LoopInv, CountersAreCursors
<1>8. CallInProgress'
  BY <1>1, <1>2, <1>3, <1>5, LoopFacts DEF LoopInv, CallInProgress
<1>. QED  BY <1>6, <1>7, <1>8 DEF LoopInv

\* The driver never turns the end of a stream into a request to go on.
LEMMA EndEndsTheLoop ==
    ASSUME NEW o, NEW c, c.st = ZU_STREAM_END
    PROVE  DriverStatus(o, c) = ZU_STREAM_END \/ DriverStatus(o, c) \notin Progress
BY DEF DriverStatus, OverStatus, Progress, ZU_STREAM_END, ZU_OK, ZU_NEED_INPUT,
       ZU_NEED_OUTPUT, ZU_ERR_INVALID_DATA, ZU_ERR_TRAILING, ZU_ERR_OUTPUT_LIMIT,
       ZU_ERR_RATIO_LIMIT

\* The codec returns: its caller's counters catch up with the cursors.
LEMMA ReturnInv ==
    ASSUME LoopInv, pc = "codec", NEW p, NEW o, NEW st, Advance(p, o), Return(st, p, o)
    PROVE  LoopInv'
<1>. DEFINE tin    == total_in + (p - call.pos)
            tout   == total_out + (Len(o) - call.out)
            c      == [st |-> st, capped |-> call.capped,
                       allowance |-> call.allowance, produced |-> Len(o) - call.out,
                       left |-> fed - p, total_in |-> tin, total_out |-> tout]
            status == DriverStatus(job.opts, c)
<1>1. /\ pos' = p /\ out' = o /\ total_in' = tin /\ total_out' = tout
      /\ UNCHANGED <<job, fed, flush, call>>
  BY DEF Return
<1>2. /\ pc' = IF result' = Running THEN "call" ELSE "close"
      /\ result' = IF Whole THEN WholeResult(status, o) ELSE OneShotResult(status, p, o)
  BY DEF Return
<1>3. finished' = (st = ZU_STREAM_END)
  BY DEF Return
<1>4. last'.op = "process"
  BY DEF Return, Answer
<1>5. /\ p \in Nat /\ p <= fed /\ pos <= p /\ o \in Seq(Nat) /\ Len(o) \in Nat
      /\ Len(out) <= Len(o) /\ Len(o) <= call.out + call.allowance
  BY LoopFacts DEF Advance
<1>6. /\ call.pos = total_in /\ call.out = total_out
      /\ call.pos <= pos /\ call.out <= Len(out)
      /\ Window \in Nat /\ call.out + Window <= U64Max
      /\ Whole \/ Window <= job.out_chunk
      /\ call.allowance \in Nat /\ call.allowance <= Window
  BY DEF LoopInv, CallInProgress
<1>7. tin = p /\ tout = Len(o)
  BY <1>5, <1>6, LoopFacts
<1>8. Len(o) <= U64Max /\ (~Whole => Len(o) <= job.out_chunk)
  BY AdvanceFits
<1>9. st = ZU_STREAM_END => result' # Running
  <2>. SUFFICES ASSUME st = ZU_STREAM_END PROVE result' # Running
    OBVIOUS
  <2>1. c.st = ZU_STREAM_END
    OBVIOUS
  <2>. HIDE DEF c
  <2>2. status = ZU_STREAM_END \/ status \notin Progress
    BY <2>1, EndEndsTheLoop
  <2>3. status # Running
    BY DEF DriverStatus, OverStatus, Running, ZU_STREAM_END, ZU_ERR_INVALID_DATA,
           ZU_ERR_TRAILING, ZU_ERR_OUTPUT_LIMIT, ZU_ERR_RATIO_LIMIT, c
  <2>. HIDE DEF status
  <2>. QED  BY <1>2, <2>2, <2>3 DEF WholeResult, OneShotResult, Running, ZU_OK
<1>. HIDE DEF tin, tout, c, status
<1>10. pc' \in {"call", "close"} /\ (pc' = "call" => result' = Running)
  BY <1>2
<1>11. pc' = "call" => finished' = FALSE
  BY <1>3, <1>9, <1>10
<1>12. Whole' = Whole
  BY <1>1 DEF Whole
<1>13. CursorsInOrder'
  BY <1>1, <1>5, <1>8, <1>10, <1>12, AdvanceKeepsCeiling DEF LoopInv, CursorsInOrder
<1>14. Whole => fed - p <= job.in_chunk
  <2>1. Whole => fed - total_in <= job.in_chunk
    BY DEF LoopInv, CountersAreCursors
  <2>. QED  BY <1>5, <1>6, <2>1, LoopFacts
<1>15. CountersAreCursors'
  BY <1>1, <1>4, <1>5, <1>7, <1>10, <1>11, <1>12, <1>14 DEF CountersAreCursors
<1>. QED  BY <1>10, <1>13, <1>15 DEF LoopInv, CallInProgress

----------------------------------------------------------------------------
(***************************************************************************)
(* Every step is the handle's.                                             *)
(***************************************************************************)
\* The state of the handle behind the loop, as DecodeLoop maps it.
LiveHandle == IF pc \in {"open", "closed"} THEN "none" ELSE "live"

HandleOpts ==
    IF last.op = "none" \/ (last.op = "new" /\ last.status # ZU_OK)
      THEN NoLimits ELSE job.opts

\* A step that leaves the handle alone.
LEMMA HandleStutters ==
    ASSUME UNCHANGED <<job, finished, total_in, total_out, last>>,
           LiveHandle' = LiveHandle
    PROVE  UNCHANGED Handle!vars
BY DEF Handle!vars, LiveHandle

\* The handle's module brings its own copy of the vocabulary: the same words.
LEMMA HandleWords ==
    /\ Handle!ZU_OK = ZU_OK /\ Handle!ZU_NEED_INPUT = ZU_NEED_INPUT
    /\ Handle!ZU_NEED_OUTPUT = ZU_NEED_OUTPUT /\ Handle!ZU_STREAM_END = ZU_STREAM_END
    /\ Handle!ZU_ERR_INVALID_DATA = ZU_ERR_INVALID_DATA
    /\ Handle!ZU_ERR_TRAILING = ZU_ERR_TRAILING
    /\ Handle!ZU_ERR_OUTPUT_LIMIT = ZU_ERR_OUTPUT_LIMIT
    /\ Handle!ZU_ERR_RATIO_LIMIT = ZU_ERR_RATIO_LIMIT
    /\ Handle!ZU_FLUSH = ZU_FLUSH /\ Handle!Flush = Flush
    /\ Handle!NotAsked = NotAsked /\ Handle!Status = Status
    /\ Handle!NoLimits = NoLimits
    /\ \A op, status, st, left : Handle!Answer(op, status, st, left) = Answer(op, status, st, left)
<1>1. Handle!Status = Status
  BY DEF Status, Progress, Errors, ZU_OK, ZU_NEED_INPUT, ZU_NEED_OUTPUT, ZU_STREAM_END,
         ZU_ERR_INVALID_ARGUMENT, ZU_ERR_UNSUPPORTED, ZU_ERR_INVALID_DATA, ZU_ERR_TRUNCATED,
         ZU_ERR_CHECKSUM, ZU_ERR_TRAILING, ZU_ERR_MEMORY, ZU_ERR_OUTPUT_LIMIT,
         ZU_ERR_RATIO_LIMIT, ZU_ERR_INTERNAL,
         Handle!Status, Handle!Progress, Handle!Errors, Handle!ZU_OK, Handle!ZU_NEED_INPUT,
         Handle!ZU_NEED_OUTPUT, Handle!ZU_STREAM_END, Handle!ZU_ERR_INVALID_ARGUMENT,
         Handle!ZU_ERR_UNSUPPORTED, Handle!ZU_ERR_INVALID_DATA, Handle!ZU_ERR_TRUNCATED,
         Handle!ZU_ERR_CHECKSUM, Handle!ZU_ERR_TRAILING, Handle!ZU_ERR_MEMORY,
         Handle!ZU_ERR_OUTPUT_LIMIT, Handle!ZU_ERR_RATIO_LIMIT, Handle!ZU_ERR_INTERNAL
<1>2. Handle!Flush = Flush
  BY DEF Flush, ZU_RUN, ZU_FLUSH, ZU_FINISH, Handle!Flush, Handle!ZU_RUN, Handle!ZU_FLUSH,
         Handle!ZU_FINISH
<1>. QED  BY <1>1, <1>2 DEF ZU_OK, ZU_NEED_INPUT, ZU_NEED_OUTPUT, ZU_STREAM_END,
       ZU_ERR_INVALID_DATA, ZU_ERR_TRAILING, ZU_ERR_OUTPUT_LIMIT, ZU_ERR_RATIO_LIMIT, ZU_FLUSH,
       NotAsked, NoLimits, Answer, Handle!ZU_OK, Handle!ZU_NEED_INPUT, Handle!ZU_NEED_OUTPUT,
       Handle!ZU_STREAM_END, Handle!ZU_ERR_INVALID_DATA, Handle!ZU_ERR_TRAILING,
       Handle!ZU_ERR_OUTPUT_LIMIT, Handle!ZU_ERR_RATIO_LIMIT, Handle!ZU_FLUSH, Handle!NotAsked,
       Handle!NoLimits, Handle!Answer

\* ... and its own copy of the driver's rules: the same rules.
LEMMA HandleRules ==
    /\ \A o, t, room : /\ Handle!Capped(o, t, room) = Capped(o, t, room)
                       /\ Handle!Allowance(o, t, room) = Allowance(o, t, room)
    /\ \A o, c : Handle!DriverStatus(o, c) = DriverStatus(o, c)
<1>1. \A o : /\ Handle!ExpectedBinds(o) = ExpectedBinds(o)
             /\ Handle!HasCeiling(o) = HasCeiling(o)
  BY DEF ExpectedBinds, HasCeiling, Handle!ExpectedBinds, Handle!HasCeiling
<1>2. \A o : Handle!Ceiling(o) = Ceiling(o) /\ Handle!OverStatus(o) = OverStatus(o)
  BY <1>1, HandleWords DEF Ceiling, OverStatus, Handle!Ceiling, Handle!OverStatus
<1>3. \A o, t : Handle!Remaining(o, t) = Remaining(o, t)
  BY <1>2 DEF Remaining, Handle!Remaining
<1>4. \A o, t, room : Handle!Capped(o, t, room) = Capped(o, t, room)
  BY <1>1, <1>3 DEF Capped, Handle!Capped
<1>5. \A o, t, room : Handle!Allowance(o, t, room) = Allowance(o, t, room)
  BY <1>3, <1>4 DEF Allowance, Handle!Allowance
<1>6. \A o, t : Handle!RatioAllowed(o, t) = RatioAllowed(o, t)
  BY DEF RatioAllowed, Handle!RatioAllowed
<1>7. \A o, st, tin, tout : Handle!RatioExceeded(o, st, tin, tout) = RatioExceeded(o, st, tin, tout)
  BY <1>6, HandleWords DEF RatioExceeded, Handle!RatioExceeded
<1>8. \A o, c : Handle!DriverStatus(o, c) = DriverStatus(o, c)
  BY <1>2, <1>7, HandleWords DEF DriverStatus, Handle!DriverStatus
<1>. QED  BY <1>4, <1>5, <1>8

\* The loop's Open is the handle's zu_decoder_new.
LEMMA OpenIsNew ==
    ASSUME LoopInv, Open
    PROVE  Handle!Next
<1>1. /\ pc = "open" /\ UNCHANGED <<job, finished, total_in, total_out>>
      /\ \/ pc' = "call" /\ last' = Answer("new", ZU_OK, ZU_OK, 0)
         \/ pc' = "closed" /\ last' = Answer("new", ZU_ERR_MEMORY, ZU_ERR_MEMORY, 0)
  BY DEF Open
<1>2. finished = FALSE /\ total_in = 0 /\ total_out = 0 /\ last.op = "none"
  BY <1>1 DEF LoopInv, CountersAreCursors
<1>. DEFINE g == [size |-> "full", codec |-> "this", lim |-> job.opts]
<1>3. g \in OptionsGiven
  BY LoopFacts DEF OptionsGiven
<1>4. Handle!CheckDecOpts(g) /\ Handle!Resolves(g.codec) /\ Handle!CopyOpts(g) = job.opts
  BY DEF Handle!CheckDecOpts, Handle!Resolves, Handle!CopyOpts
<1>5. ZU_OK \in Status /\ ZU_ERR_MEMORY \in Status /\ ZU_ERR_MEMORY # ZU_OK
  BY DEF Status, Progress, Errors, ZU_OK, ZU_ERR_MEMORY
<1>6. CASE pc' = "call" /\ last' = Answer("new", ZU_OK, ZU_OK, 0)
  <2>1. Handle!New(g, ZU_OK)
    <3>1. LiveHandle = "none" /\ LiveHandle' = "live"
      BY <1>1, <1>6 DEF LiveHandle
    <3>2. HandleOpts' = job.opts
      BY <1>1, <1>6 DEF HandleOpts, Answer
    <3>3. g.codec = "this"
      OBVIOUS
    <3>. HIDE DEF g
    <3>. QED  BY <1>1, <1>2, <1>4, <1>6, <3>1, <3>2, <3>3, HandleWords DEF Handle!New, LiveHandle, HandleOpts
  <2>. QED  BY <1>3, <1>5, <2>1, HandleWords DEF Handle!Next
<1>7. CASE pc' = "closed" /\ last' = Answer("new", ZU_ERR_MEMORY, ZU_ERR_MEMORY, 0)
  <2>1. Handle!New(g, ZU_ERR_MEMORY)
    <3>1. LiveHandle = "none" /\ LiveHandle' = "none"
      BY <1>1, <1>7 DEF LiveHandle
    <3>2. HandleOpts = NoLimits /\ HandleOpts' = NoLimits
      BY <1>1, <1>2, <1>5, <1>7 DEF HandleOpts, Answer
    <3>3. Handle!Refuse("new", ZU_ERR_MEMORY, ZU_ERR_MEMORY, 0)
      BY <1>1, <1>7, <3>1, <3>2, HandleWords DEF Handle!Refuse, Handle!stream, LiveHandle, HandleOpts
    <3>. HIDE DEF g
    <3>. QED  BY <1>4, <1>5, <3>1, <3>3, HandleWords DEF Handle!New, LiveHandle
  <2>. QED  BY <1>3, <1>5, <2>1, HandleWords DEF Handle!Next
<1>. QED  BY <1>1, <1>6, <1>7

\* The loop's Close is the handle's zu_decoder_free.
LEMMA CloseIsFree ==
    ASSUME LoopInv, Close
    PROVE  Handle!Next
<1>1. /\ pc = "close" /\ pc' = "closed" /\ last' = Answer("free", ZU_OK, NotAsked, 0)
      /\ UNCHANGED <<job, finished, total_in, total_out>>
  BY DEF Close
<1>2. last.op = "process" \/ (last.op = "new" /\ last.status = ZU_OK)
  BY <1>1 DEF LoopInv, CountersAreCursors
<1>3. HandleOpts = job.opts /\ HandleOpts' = job.opts
  BY <1>1, <1>2 DEF HandleOpts, Answer
<1>4. LiveHandle = "live" /\ LiveHandle' = "none"
  BY <1>1 DEF LiveHandle
<1>5. Handle!Free
  BY <1>1, <1>3, <1>4, HandleWords DEF Handle!Free, LiveHandle, HandleOpts
<1>. QED  BY <1>5 DEF Handle!Next

\* What the codec returns is answered as zu_decoder_process() does.
LEMMA ReturnIsProcess ==
    ASSUME LoopInv, pc = "codec", NEW p, NEW o, NEW st \in Status,
           Advance(p, o), Return(st, p, o)
    PROVE  Handle!Next
<1>. DEFINE src  == fed - call.pos
            used == p - call.pos
            prod == Len(o) - call.out
<1>1. /\ p \in Nat /\ p <= fed /\ pos <= p /\ o \in Seq(Nat) /\ Len(o) \in Nat
      /\ Len(out) <= Len(o) /\ Len(o) <= call.out + call.allowance
  BY LoopFacts DEF Advance
<1>2. /\ call.pos = total_in /\ call.out = total_out
      /\ call.pos <= pos /\ call.out <= Len(out)
      /\ Window \in Nat /\ call.out + Window <= U64Max
      /\ Whole \/ Window <= job.out_chunk
      /\ call.capped = Capped(job.opts, total_out, Window)
      /\ call.allowance = Allowance(job.opts, total_out, Window)
      /\ call.allowance \in Nat /\ call.allowance <= Window
  BY DEF LoopInv, CallInProgress
<1>3. /\ src \in Nat /\ used \in 0 .. src /\ prod \in 0 .. Window
      /\ prod <= call.allowance /\ src - used = fed - p /\ src <= fed
      /\ total_in + used <= U64Max /\ total_out + prod <= U64Max
  <2>. HIDE DEF Window
  <2>1. fed \in Nat /\ fed <= U64Max /\ pos \in Nat /\ U64Max \in Nat /\ Len(out) \in Nat
        /\ total_in \in Nat /\ total_out \in Nat
    BY LoopFacts
  <2>2. src \in Nat /\ used \in 0 .. src /\ src - used = fed - p /\ total_in + used = p /\ src <= fed
    BY <1>1, <1>2, <2>1
  <2>3. prod \in 0 .. Window /\ prod <= call.allowance /\ total_out + prod = Len(o)
    BY <1>1, <1>2, <2>1
  <2>. QED  BY <1>1, <1>2, <2>1, <2>2, <2>3
<1>4. src \in SizesOffered
  <2>1. Whole => src <= job.in_chunk
    <3>1. Whole => fed - total_in <= job.in_chunk
      BY DEF LoopInv, CountersAreCursors
    <3>. QED  BY <1>2, <3>1
  <2>2. src <= Len(job.input)
    <3>. HIDE DEF src
    <3>. QED  BY <1>3, LoopFacts
  <2>3. src \in 0 .. IF job.driver = "whole" THEN job.in_chunk ELSE Len(job.input)
    <3>. HIDE DEF src
    <3>. QED  BY <1>3, <2>1, <2>2, LoopFacts DEF Whole
  <2>. HIDE DEF src
  <2>. QED  BY <2>3, LoopFacts DEF SizesOffered
<1>5. Window \in WindowsOffered
  <2>1. Window \in IF job.driver = "whole" THEN {job.out_chunk} ELSE 0 .. job.out_chunk
    BY <1>2, LoopFacts DEF Window, Whole
  <2>. HIDE DEF Window
  <2>. QED  BY <2>1, LoopFacts DEF WindowsOffered
<1>6. /\ total_in' = total_in + used /\ total_out' = total_out + prod
      /\ UNCHANGED <<job, fed, flush, call>>
  BY DEF Return
<1>7. finished' = (st = ZU_STREAM_END)
  BY DEF Return
<1>8. last' = Answer("process",
                 DriverStatus(job.opts,
                   [st        |-> st,
                    capped    |-> call.capped,
                    allowance |-> call.allowance,
                    produced  |-> prod,
                    left      |-> fed - p,
                    total_in  |-> total_in + used,
                    total_out |-> total_out + prod]),
                 st, fed - p)
  BY DEF Return
<1>9. pc' \in {"call", "close"}
  BY DEF Return
<1>10. LiveHandle = "live" /\ LiveHandle' = "live"
  BY <1>9 DEF LiveHandle
<1>11. HandleOpts = job.opts /\ HandleOpts' = job.opts
  <2>1. last.op = "process" \/ (last.op = "new" /\ last.status = ZU_OK)
    BY DEF LoopInv, CountersAreCursors
  <2>2. last'.op = "process"
    BY DEF Return, Answer
  <2>. QED  BY <1>6, <2>1, <2>2 DEF HandleOpts
<1>12. finished = FALSE
  BY DEF LoopInv, CountersAreCursors
<1>13. Handle!MayAsk(src, Window, ZU_RUN, used, prod)
  BY <1>2, <1>3, <1>11, <1>12, HandleWords, HandleRules DEF Handle!MayAsk, Handle!WithinCounters, HandleOpts, ZU_RUN, ZU_FLUSH
<1>14. Handle!Process(src, Window, ZU_RUN, used, prod, st)
  <2>1. Handle!Account(used, prod)
    BY <1>6 DEF Handle!Account
  <2>. HIDE DEF src, used, prod, Window
  <2>2. last' = Answer("process",
                 DriverStatus(HandleOpts,
                   [st        |-> st,
                    capped    |-> Capped(HandleOpts, total_out, Window),
                    allowance |-> Allowance(HandleOpts, total_out, Window),
                    produced  |-> prod,
                    left      |-> src - used,
                    total_in  |-> total_in + used,
                    total_out |-> total_out + prod]),
                 st, src - used)
    BY <1>2, <1>3, <1>8, <1>11
  <2>3. HandleOpts' = HandleOpts /\ LiveHandle' = LiveHandle
    BY <1>10, <1>11
  <2>. QED  BY <1>7, <1>10, <1>13, <2>1, <2>2, <2>3, HandleWords, HandleRules DEF Handle!Process, LiveHandle, HandleOpts
<1>15. ZU_RUN \in Flush
  BY DEF Flush
<1>. HIDE DEF src, used, prod, Window
<1>. QED  BY <1>3, <1>4, <1>5, <1>14, <1>15, HandleWords DEF Handle!Next

\* Every step of the loop itself is a step of the handle, or none.
LEMMA LoopStepIsHandles ==
    ASSUME LoopInv, LoopStep
    PROVE  [Handle!Next]_(Handle!vars)
<1>1. ASSUME CallCodec \/ ReserveFails
      PROVE  UNCHANGED Handle!vars
  <2>1. UNCHANGED <<job, finished, total_in, total_out, last>> /\ LiveHandle' = LiveHandle
    BY <1>1 DEF CallCodec, ReserveFails, LiveHandle
  <2>. QED  BY <2>1, HandleStutters
<1>. QED  BY <1>1, OpenIsNew, CloseIsFree DEF LoopStep

\* A turn of the codec that does not return is no step of the handle.
LEMMA ContinueIsHandles ==
    ASSUME NEW p, NEW o, Continue(p, o)
    PROVE  UNCHANGED Handle!vars
<1>1. UNCHANGED <<job, finished, total_in, total_out, last>> /\ LiveHandle' = LiveHandle
  BY DEF Continue, LiveHandle
<1>. QED  BY <1>1, HandleStutters

\* The loop starts where the handle does.
LEMMA LoopInitIsHandles == LoopInit => Handle!Init
<1>. SUFFICES ASSUME LoopInit PROVE Handle!Init
  OBVIOUS
<1>1. pc = "open" /\ total_in = 0 /\ total_out = 0
      /\ last = Answer("none", ZU_OK, NotAsked, 0)
  BY DEF LoopInit
<1>2. finished = FALSE
  BY DEF LoopInit
<1>3. last.op = "none"
  BY <1>1 DEF Answer
<1>. QED  BY <1>1, <1>2, <1>3, HandleWords DEF Handle!Init

----------------------------------------------------------------------------
(***************************************************************************)
(* What a codec module has to show, and what it gets for it.               *)
(***************************************************************************)
\* A turn of the codec keeps the cursor contract: it moves the cursors within
\* what it was shown and goes on, or returns one of the statuses.
CodecMoves ==
    /\ pc = "codec"
    /\ \E p, o : /\ Advance(p, o)
                 /\ Continue(p, o) \/ \E st \in Status : Return(st, p, o)

\* Such a turn preserves the invariant and is a step of the handle, or none.
LEMMA CodecMovesAreHandles ==
    ASSUME LoopInv, CodecMoves
    PROVE  /\ LoopInv' /\ [Handle!Next]_(Handle!vars)
           /\ job' = job /\ pc' \in {"call", "codec", "close"}
<1>0. pc = "codec"
  BY DEF CodecMoves
<1>1. PICK p, o : Advance(p, o) /\ (Continue(p, o) \/ \E st \in Status : Return(st, p, o))
  BY DEF CodecMoves
<1>2. CASE Continue(p, o)
  <2>1. LoopInv' /\ UNCHANGED Handle!vars
    BY <1>0, <1>1, <1>2, ContinueInv, ContinueIsHandles
  <2>2. job' = job /\ pc' = pc
    BY <1>2 DEF Continue
  <2>. QED  BY <1>0, <2>1, <2>2
<1>3. ASSUME NEW st \in Status, Return(st, p, o)
      PROVE  LoopInv' /\ Handle!Next /\ job' = job /\ pc' \in {"call", "codec", "close"}
  <2>1. LoopInv' /\ Handle!Next
    BY <1>0, <1>1, <1>3, ReturnInv, ReturnIsProcess
  <2>2. job' = job /\ pc' \in {"call", "close"}
    BY <1>3 DEF Return
  <2>. QED  BY <2>1, <2>2
<1>. QED  BY <1>1, <1>2, <1>3

\* What of the input a codec may read.
Visible(avail) == avail \in Nat /\ pos + avail <= Len(job.input)

\* Moving the input cursor within the buffer keeps the contract.
LEMMA InputMoves ==
    ASSUME LoopInv, pc = "codec", NEW p, p \in pos .. fed,
           Continue(p, out) \/ \E st \in Status : Return(st, p, out)
    PROVE  CodecMoves
<1>1. /\ out \in Seq(Nat) /\ Len(out) \in Nat /\ Len(out) <= call.out + call.allowance
  BY LoopFacts DEF LoopInv, CallInProgress
<1>2. Advance(p, out)
  BY <1>1 DEF Advance
<1>. QED  BY <1>2 DEF CodecMoves

\* What the codec sees.
LEMMA VisibleFacts ==
    ASSUME LoopInv, pc = "codec"
    PROVE  /\ AvailIn \in Nat /\ AvailIn = fed - pos /\ Visible(AvailIn)
           /\ AvailOut \in Nat /\ Len(out) + AvailOut = call.out + call.allowance
           /\ pos \in pos .. fed /\ \A k \in 0 .. AvailIn : pos + k \in pos .. fed
           /\ job \in Jobs /\ pos \in Nat
<1>1. /\ call.allowance \in Nat /\ call.out \in Nat /\ call.out <= Len(out)
      /\ Len(out) <= call.out + call.allowance
  BY LoopFacts DEF LoopInv, CallInProgress
<1>2. /\ pos \in Nat /\ fed \in Nat /\ pos <= fed /\ fed <= Len(job.input)
      /\ Len(job.input) \in Nat /\ Len(out) \in Nat /\ job \in Jobs
  BY LoopFacts
<1>. DEFINE m == Len(out)
            n == Len(job.input)
            a == call.allowance
            s == call.out
<1>3. AvailIn = fed - pos /\ AvailOut = a - (m - s)
  BY DEF AvailIn, AvailOut
<1>4. a \in Nat /\ s \in Nat /\ s <= m /\ m <= s + a /\ fed <= n /\ n \in Nat /\ m \in Nat
  BY <1>1, <1>2
<1>5. Visible(AvailIn) <=> AvailIn \in Nat /\ pos + AvailIn <= n
  BY DEF Visible
<1>. HIDE DEF m, n, a, s
<1>6. /\ AvailIn \in Nat /\ AvailIn = fed - pos /\ pos + AvailIn <= n
      /\ AvailOut \in Nat /\ m + AvailOut = s + a
      /\ pos \in pos .. fed /\ \A k \in 0 .. AvailIn : pos + k \in pos .. fed
  BY <1>2, <1>3, <1>4
<1>. QED  BY <1>2, <1>5, <1>6 DEF m, a, s

\* The tokens in front of the cursor are tokens.
LEMMA AheadTokens ==
    ASSUME LoopInv, pc = "codec", NEW k, k \in 0 .. AvailIn
    PROVE  /\ [i \in 1 .. k |-> Ahead(i)] \in Seq(STRING \X Nat)
           /\ Len([i \in 1 .. k |-> Ahead(i)]) = k
<1>1. \A i \in 1 .. k : pos + i \in 1 .. Len(job.input)
  <2>1. /\ AvailIn \in Nat /\ pos + AvailIn <= Len(job.input) /\ pos \in Nat
        /\ Len(job.input) \in Nat
    BY VisibleFacts, LoopFacts DEF Visible
  <2>. QED  BY ONLY <2>1, k \in 0 .. AvailIn
<1>2. job.input \in Seq(STRING \X Nat)
  BY LoopFacts, JobTypes
<1>3. \A i \in 1 .. k : Ahead(i) \in STRING \X Nat
  BY <1>1, <1>2 DEF Ahead
<1>4. k \in Nat
  BY VisibleFacts
<1>. QED  BY <1>3, <1>4

\* What a return of the codec makes of the call, in terms of the cursors.
LEMMA ReturnGives ==
    ASSUME LoopInv, pc = "codec", NEW p, NEW o, NEW st, Advance(p, o), Return(st, p, o)
    PROVE  /\ pos' = p /\ out' = o /\ UNCHANGED <<job, fed, flush, call>>
           /\ last'.st = st
           /\ pc' = IF result' = Running THEN "call" ELSE "close"
           /\ \E status :
                /\ status = DriverStatus(job.opts,
                     [st |-> st, capped |-> call.capped, allowance |-> call.allowance,
                      produced |-> Len(o) - call.out, left |-> fed - p,
                      total_in |-> p, total_out |-> Len(o)])
                /\ last'.status = status
                /\ result' = IF Whole THEN WholeResult(status, o)
                                      ELSE OneShotResult(status, p, o)
<1>. DEFINE tin    == total_in + (p - call.pos)
            tout   == total_out + (Len(o) - call.out)
            status == DriverStatus(job.opts,
                        [st |-> st, capped |-> call.capped, allowance |-> call.allowance,
                         produced |-> Len(o) - call.out, left |-> fed - p,
                         total_in |-> tin, total_out |-> tout])
<1>1. /\ pos' = p /\ out' = o /\ UNCHANGED <<job, fed, flush, call>>
      /\ pc' = IF result' = Running THEN "call" ELSE "close"
      /\ result' = IF Whole THEN WholeResult(status, o) ELSE OneShotResult(status, p, o)
  BY DEF Return
<1>2. last'.st = st /\ last'.status = status
  BY DEF Return, Answer
<1>3. p \in Nat /\ o \in Seq(Nat) /\ Len(o) \in Nat
  BY LoopFacts DEF Advance
<1>4. call.pos = total_in /\ call.out = total_out
  BY DEF LoopInv, CallInProgress
<1>5. tin = p /\ tout = Len(o)
  BY <1>3, <1>4, LoopFacts
<1>6. status = DriverStatus(job.opts,
                 [st |-> st, capped |-> call.capped, allowance |-> call.allowance,
                  produced |-> Len(o) - call.out, left |-> fed - p,
                  total_in |-> p, total_out |-> Len(o)])
  BY <1>5
<1>. HIDE DEF status
<1>. QED  BY <1>1, <1>2, <1>6

(***************************************************************************)
(* The driver's status in the cases the codecs meet.                       *)
(***************************************************************************)
\* A stream that ends within every limit, with nothing left over, ends.
LEMMA EndWithinLimits ==
    ASSUME NEW o \in LimitOpts, NEW c, c.st = ZU_STREAM_END, c.left = 0,
           c.total_out \in Nat, o.has_expected => c.total_out = o.expected_size,
           o.max_output # 0 => c.total_out <= o.max_output, o.max_ratio = 0
    PROVE  DriverStatus(o, c) = ZU_STREAM_END
<1>1. ~RatioExceeded(o, c.st, c.total_in, c.total_out)
  BY DEF RatioExceeded
<1>2. o.max_output \in Nat /\ o.expected_size \in Nat
  BY U64MaxAssumption DEF LimitOpts
<1>. QED  BY <1>1, <1>2 DEF DriverStatus, ZU_STREAM_END, ZU_NEED_OUTPUT

\* A codec that fails, or waits, before it wrote anything is believed, but
\* for a ceiling of zero with input left.
LEMMA StatusBeforeOutput ==
    ASSUME NEW o \in LimitOpts, NEW c, c.st \notin {ZU_STREAM_END, ZU_NEED_OUTPUT},
           c.total_out = 0
    PROVE  \/ DriverStatus(o, c) = c.st
           \/ /\ DriverStatus(o, c) = OverStatus(o)
              /\ c.capped /\ c.allowance = 0 /\ c.left > 0
<1>1. ~RatioExceeded(o, c.st, c.total_in, c.total_out)
  BY DEF RatioExceeded
<1>2. o.max_output \in Nat /\ o.expected_size \in Nat
  BY U64MaxAssumption DEF LimitOpts
<1>. QED  BY <1>1, <1>2 DEF DriverStatus

\* A codec that fills a window which the ceiling did not shrink is given
\* another.
LEMMA RoomWithinLimits ==
    ASSUME NEW o \in LimitOpts, NEW c, c.st = ZU_NEED_OUTPUT, c.capped = FALSE,
           c.total_out \in Nat, o.has_expected => c.total_out <= o.expected_size,
           o.max_output # 0 => c.total_out <= o.max_output, o.max_ratio = 0
    PROVE  DriverStatus(o, c) = ZU_NEED_OUTPUT
<1>1. ~RatioExceeded(o, c.st, c.total_in, c.total_out)
  BY DEF RatioExceeded
<1>2. o.max_output \in Nat /\ o.expected_size \in Nat
  BY U64MaxAssumption DEF LimitOpts
<1>. QED  BY <1>1, <1>2 DEF DriverStatus, ZU_STREAM_END, ZU_NEED_OUTPUT

\* A window shrunk to nothing before any output means a ceiling of zero,
\* which only a promise of zero bytes is.
LEMMA NothingAllowed ==
    ASSUME NEW o \in LimitOpts, NEW room \in Nat, Capped(o, 0, room), Allowance(o, 0, room) = 0
    PROVE  o.has_expected /\ o.expected_size = 0 /\ OverStatus(o) = ZU_ERR_INVALID_DATA
<1>1. o.max_output \in Nat /\ o.expected_size \in Nat
  BY U64MaxAssumption DEF LimitOpts
<1>2. HasCeiling(o) /\ Remaining(o, 0) = 0
  BY DEF Capped, Allowance
<1>3. Ceiling(o) = 0
  BY <1>1, <1>2 DEF Remaining, Ceiling
<1>4. ExpectedBinds(o)
  BY <1>1, <1>2, <1>3 DEF Ceiling, ExpectedBinds, HasCeiling
<1>. QED  BY <1>3, <1>4 DEF Ceiling, OverStatus, ExpectedBinds

----------------------------------------------------------------------------
(***************************************************************************)
(* How a decode ends.                                                      *)
(***************************************************************************)
\* The words are different.
LEMMA Words ==
    /\ ZU_OK # ZU_NEED_INPUT /\ ZU_OK # ZU_NEED_OUTPUT /\ ZU_OK # ZU_STREAM_END
    /\ ZU_NEED_INPUT # ZU_NEED_OUTPUT /\ ZU_NEED_INPUT # ZU_STREAM_END
    /\ ZU_NEED_OUTPUT # ZU_STREAM_END
    /\ \A e \in Errors : e \notin {ZU_OK, ZU_NEED_INPUT, ZU_NEED_OUTPUT, ZU_STREAM_END, Running}
    /\ \A e \in {ZU_ERR_INVALID_DATA, ZU_ERR_TRUNCATED, ZU_ERR_CHECKSUM, ZU_ERR_UNSUPPORTED,
                 ZU_ERR_TRAILING, ZU_ERR_OUTPUT_LIMIT, ZU_ERR_RATIO_LIMIT} :
         e \in Errors /\ e # ZU_ERR_MEMORY /\ e # ZU_ERR_INTERNAL
    /\ Running \notin {ZU_OK, ZU_NEED_INPUT, ZU_NEED_OUTPUT, ZU_STREAM_END}
    /\ ZU_RUN # ZU_FINISH /\ ZU_ERR_MEMORY \in Errors /\ ZU_ERR_INTERNAL \in Errors
    /\ ZU_ERR_INTERNAL # ZU_ERR_MEMORY
BY DEF Errors, Running, ZU_OK, ZU_NEED_INPUT, ZU_NEED_OUTPUT, ZU_STREAM_END,
         ZU_ERR_INVALID_ARGUMENT, ZU_ERR_UNSUPPORTED, ZU_ERR_INVALID_DATA, ZU_ERR_TRUNCATED,
         ZU_ERR_CHECKSUM, ZU_ERR_TRAILING, ZU_ERR_MEMORY, ZU_ERR_OUTPUT_LIMIT,
         ZU_ERR_RATIO_LIMIT, ZU_ERR_INTERNAL, ZU_RUN, ZU_FINISH

\* An error ends the loop: the codec is not called again.
LEMMA ErrorEnds ==
    ASSUME NEW st, NEW p, NEW o, st \in Errors, Return(st, p, o)
    PROVE  pc' = "close"
<1>. DEFINE c == [st |-> st, capped |-> call.capped, allowance |-> call.allowance,
                  produced |-> Len(o) - call.out, left |-> fed - p,
                  total_in |-> total_in + (p - call.pos),
                  total_out |-> total_out + (Len(o) - call.out)]
            status == DriverStatus(job.opts, c)
<1>1. /\ pc' = IF result' = Running THEN "call" ELSE "close"
      /\ result' = IF Whole THEN WholeResult(status, o) ELSE OneShotResult(status, p, o)
  BY DEF Return
<1>2. c.st = st
  OBVIOUS
<1>. HIDE DEF c
<1>3. status \in {st, ZU_ERR_INVALID_DATA, ZU_ERR_TRAILING, ZU_ERR_OUTPUT_LIMIT, ZU_ERR_RATIO_LIMIT}
  BY <1>2 DEF DriverStatus, OverStatus
<1>4. status \in Errors
  BY <1>3 DEF Errors
<1>5. \A e \in Errors : e \notin Progress /\ e # Running
  BY DEF Errors, Progress, Running, ZU_OK, ZU_NEED_INPUT, ZU_NEED_OUTPUT, ZU_STREAM_END,
         ZU_ERR_INVALID_ARGUMENT, ZU_ERR_UNSUPPORTED, ZU_ERR_INVALID_DATA, ZU_ERR_TRUNCATED,
         ZU_ERR_CHECKSUM, ZU_ERR_TRAILING, ZU_ERR_MEMORY, ZU_ERR_OUTPUT_LIMIT,
         ZU_ERR_RATIO_LIMIT, ZU_ERR_INTERNAL
<1>. HIDE DEF status
<1>6. result' = status
  BY <1>1, <1>4, <1>5 DEF WholeResult, OneShotResult, Progress
<1>. QED  BY <1>1, <1>4, <1>5, <1>6

\* The ways the driver's status comes about.
Decides(o, c, d) ==
    \/ /\ c.st = ZU_STREAM_END /\ o.has_expected /\ c.total_out # o.expected_size
       /\ d = ZU_ERR_INVALID_DATA
    \/ /\ c.st = ZU_STREAM_END /\ c.left > 0 /\ o.reject /\ d = ZU_ERR_TRAILING
       /\ o.has_expected => c.total_out = o.expected_size
    \/ /\ c.capped /\ c.st # ZU_STREAM_END /\ d = OverStatus(o)
       /\ \/ c.st = ZU_NEED_OUTPUT /\ c.produced = c.allowance
          \/ c.allowance = 0 /\ c.left > 0
    \/ o.max_output # 0 /\ c.total_out > o.max_output /\ d = ZU_ERR_OUTPUT_LIMIT
    \/ o.has_expected /\ c.total_out > o.expected_size /\ d = ZU_ERR_INVALID_DATA
    \/ o.max_ratio # 0 /\ d = ZU_ERR_RATIO_LIMIT
    \/ /\ d = c.st
       /\ c.st = ZU_STREAM_END => /\ o.has_expected => c.total_out = o.expected_size
                                  /\ ~(c.left > 0 /\ o.reject)

\* The driver decides in one of them.
LEMMA DriverDecides ==
    ASSUME NEW o, NEW c
    PROVE  Decides(o, c, DriverStatus(o, c))
BY Words DEF Decides, DriverStatus, RatioExceeded

\* At the ceiling, the limit that binds explains the failure.
LEMMA OverIs ==
    ASSUME NEW o \in LimitOpts, HasCeiling(o)
    PROVE  \/ /\ OverStatus(o) = ZU_ERR_INVALID_DATA
              /\ o.has_expected /\ Ceiling(o) = o.expected_size
           \/ /\ OverStatus(o) = ZU_ERR_OUTPUT_LIMIT
              /\ o.max_output # 0 /\ Ceiling(o) = o.max_output
BY DEF OverStatus, HasCeiling, ExpectedBinds, Ceiling, LimitOpts

\* The whole-buffer loop goes on only when the codec waits.
LEMMA OnlyWaitingGoesOn ==
    ASSUME LoopInv, pc = "codec", NEW p, NEW o, NEW st \in Status, Advance(p, o), Return(st, p, o),
           st # ZU_OK, pc' # "close"
    PROVE  st \in {ZU_NEED_INPUT, ZU_NEED_OUTPUT}
<1>1. st \notin Errors
  BY ErrorEnds
<1>2. st # ZU_STREAM_END
  <2>. SUFFICES ASSUME st = ZU_STREAM_END PROVE FALSE
    OBVIOUS
  <2>1. /\ pc' = IF result' = Running THEN "call" ELSE "close"
        /\ \E status :
                /\ status = DriverStatus(job.opts,
                     [st |-> st, capped |-> call.capped, allowance |-> call.allowance,
                      produced |-> Len(o) - call.out, left |-> fed - p,
                      total_in |-> p, total_out |-> Len(o)])
                /\ last'.status = status
                /\ result' = IF Whole THEN WholeResult(status, o)
                                      ELSE OneShotResult(status, p, o)
    BY ReturnGives
  <2>. DEFINE c == [st |-> st, capped |-> call.capped, allowance |-> call.allowance,
                      produced |-> Len(o) - call.out, left |-> fed - p,
                      total_in |-> p, total_out |-> Len(o)]
              status == DriverStatus(job.opts, c)
  <2>2. c.st = ZU_STREAM_END
    OBVIOUS
  <2>3. result' = IF Whole THEN WholeResult(status, o) ELSE OneShotResult(status, p, o)
    BY <2>1
  <2>. HIDE DEF c
  <2>4. status = ZU_STREAM_END \/ status \notin Progress
    BY <2>2, EndEndsTheLoop
  <2>5. status \in {ZU_STREAM_END, ZU_ERR_INVALID_DATA, ZU_ERR_TRAILING, ZU_ERR_OUTPUT_LIMIT,
                    ZU_ERR_RATIO_LIMIT}
    BY <2>2, DriverDecides, <2>4 DEF Decides, OverStatus
  <2>6. status # Running /\ ZU_OK # Running
    BY <2>5, Words
  <2>. HIDE DEF status
  <2>7. result' # Running
    BY <2>3, <2>4, <2>6 DEF WholeResult, OneShotResult, Progress
  <2>. QED  BY <2>1, <2>7
<1>. QED  BY <1>1, <1>2 DEF Status, Progress

\* A return, and what the driver made of it.
ReturnedWith(c, d, st, p, o) ==
    /\ Decides(job.opts, c, d)
    /\ c.st = st /\ c.capped = call.capped /\ c.allowance = call.allowance
    /\ c.produced = Len(o) - call.out /\ c.left = fed - p /\ c.total_out = Len(o)
    /\ result' = IF Whole THEN WholeResult(d, o) ELSE OneShotResult(d, p, o)

\* Every return is one of those.
LEMMA ReturnDecides ==
    ASSUME LoopInv, pc = "codec", NEW p, NEW o, NEW st, Advance(p, o), Return(st, p, o)
    PROVE  \E c, d : ReturnedWith(c, d, st, p, o)
<1>. DEFINE c == [st |-> st, capped |-> call.capped, allowance |-> call.allowance,
                  produced |-> Len(o) - call.out, left |-> fed - p,
                  total_in |-> p, total_out |-> Len(o)]
            d == DriverStatus(job.opts, c)
<1>1. result' = IF Whole THEN WholeResult(d, o) ELSE OneShotResult(d, p, o)
  BY ReturnGives
<1>2. /\ c.st = st /\ c.capped = call.capped /\ c.allowance = call.allowance
      /\ c.produced = Len(o) - call.out /\ c.left = fed - p /\ c.total_out = Len(o)
  OBVIOUS
<1>. HIDE DEF c
<1>3. Decides(job.opts, c, d)
  BY DriverDecides
<1>4. ReturnedWith(c, d, st, p, o)
  BY ONLY <1>1, <1>2, <1>3 DEF ReturnedWith
<1>. QED  BY <1>4

\* Where the cursors may be when the codec returns.
LEMMA ReturnPlaces ==
    ASSUME LoopInv, pc = "codec", NEW p, NEW o, Advance(p, o)
    PROVE  /\ p \in Nat /\ fed \in Nat /\ p <= fed /\ fed <= Len(job.input)
           /\ p \in 0 .. Len(job.input) /\ Len(job.input) \in Nat
           /\ job \in Jobs /\ o \in Seq(Nat) /\ Len(o) \in Nat
           /\ call.out \in Nat /\ call.allowance \in Nat
           /\ call.out <= Len(o) /\ Len(o) <= call.out + call.allowance
           /\ call.capped => /\ HasCeiling(job.opts)
                             /\ call.out + call.allowance = Ceiling(job.opts)
           /\ call.capped = FALSE /\ ~Whole => call.out + call.allowance = job.out_chunk
           /\ flush = ZU_FINISH <=> fed = Len(job.input)
           /\ job.opts \in LimitOpts /\ call.capped \in BOOLEAN
           /\ job.out_chunk \in Nat
<1>1. /\ job \in Jobs /\ job.opts \in LimitOpts /\ Len(job.input) \in Nat
      /\ pos \in Nat /\ fed \in Nat /\ pos <= fed /\ fed <= Len(job.input)
      /\ out \in Seq(Nat) /\ Len(out) \in Nat /\ total_out \in Nat
      /\ job.out_chunk \in Nat
  BY LoopFacts
<1>2. /\ p \in pos .. fed /\ o \in Seq(Nat) /\ Len(o) \in Nat
      /\ Len(out) <= Len(o) /\ Len(o) <= call.out + call.allowance
  BY DEF Advance
<1>3. /\ call.out = total_out /\ call.out <= Len(out) /\ Window \in Nat
      /\ call.capped = Capped(job.opts, total_out, Window)
      /\ call.allowance = Allowance(job.opts, total_out, Window)
      /\ call.allowance \in Nat
      /\ flush = ZU_FINISH <=> fed = Len(job.input)
      /\ HasCeiling(job.opts) => Len(out) <= Ceiling(job.opts)
  BY DEF LoopInv, CallInProgress, CursorsInOrder
<1>4. p \in Nat /\ p <= fed /\ p \in 0 .. Len(job.input)
  <2>. DEFINE N == Len(job.input)
  <2>1. N \in Nat /\ fed <= N
    BY <1>1
  <2>. HIDE DEF N
  <2>2. p \in Nat /\ p <= fed /\ p \in 0 .. N
    BY ONLY <1>1, <1>2, <2>1
  <2>. QED  BY <2>2 DEF N
<1>5. call.out \in Nat /\ call.out <= Len(o)
  <2>. DEFINE a == Len(out)  b == Len(o)
  <2>1. a \in Nat /\ b \in Nat /\ a <= b /\ call.out <= a /\ call.out \in Nat
    BY <1>1, <1>2, <1>3
  <2>. HIDE DEF a, b
  <2>2. call.out <= b
    BY ONLY <2>1
  <2>. QED  BY <2>1, <2>2 DEF b
<1>6. ASSUME call.capped
      PROVE  HasCeiling(job.opts) /\ call.out + call.allowance = Ceiling(job.opts)
  <2>1. HasCeiling(job.opts) /\ Capped(job.opts, total_out, Window)
    BY <1>3, <1>6 DEF Capped
  <2>2. total_out <= Ceiling(job.opts)
    <3>. DEFINE a == Len(out)  b == Ceiling(job.opts)
    <3>1. a \in Nat /\ b \in Nat /\ a <= b /\ total_out <= a /\ total_out \in Nat
      <4>1. Ceiling(job.opts) \in Nat
        BY <1>1, U64MaxAssumption DEF Ceiling, LimitOpts
      <4>. QED  BY <1>1, <1>3, <2>1, <4>1
    <3>. HIDE DEF a, b
    <3>2. total_out <= b
      BY ONLY <3>1
    <3>. QED  BY <3>2 DEF b
  <2>3. total_out + Allowance(job.opts, total_out, Window) = Ceiling(job.opts)
    BY <1>1, <1>3, <2>1, <2>2, AllowanceKeepsCeiling
  <2>. QED  BY <1>3, <2>1, <2>3
<1>7. ASSUME call.capped = FALSE, ~Whole
      PROVE  call.out + call.allowance = job.out_chunk
  <2>1. call.allowance = Window /\ Window = job.out_chunk - call.out
    BY <1>3, <1>7 DEF Allowance, Window
  <2>. QED  BY <1>1, <1>5, <2>1
<1>8. call.capped \in BOOLEAN
  BY <1>3 DEF Capped
<1>. QED  BY <1>1, <1>2, <1>3, <1>4, <1>5, <1>6, <1>7, <1>8

\* A whole slice more.
LEMMA SliceMore ==
    ASSUME NEW a \in Nat, NEW c \in Nat, c > 0, a % c = 0
    PROVE  (a + c) % c = 0
<1>. DEFINE q == a \div c  k == q + 1
<1>1. a = c * q + (a % c) /\ q \in Nat
  OBVIOUS
<1>. HIDE DEF q
<1>2. a = c * q
  BY <1>1
<1>3. k \in Nat /\ a + c = c * k
  BY <1>1, <1>2
<1>. HIDE DEF k
<1>4. (c * k) % c = 0
  <2>1. k \in Nat /\ c \in Nat /\ c > 0
    BY <1>3
  <2>. QED  BY ONLY <2>1
<1>. QED  BY <1>3, <1>4

\* The slices of a whole-buffer decode are whole but for the last, and a
\* one-shot call sees all the input.
SlicesWhole ==
    /\ Whole /\ fed < Len(job.input) => fed % job.in_chunk = 0
    /\ ~Whole /\ pc = "codec" => fed = Len(job.input)

\* A refill keeps the slices.
LEMMA RefillSlices ==
    ASSUME LoopInv, pc = "call", SlicesWhole, Refill
    PROVE  /\ fed = Len(job.input) => fed' = Len(job.input)
           /\ Whole /\ fed' < Len(job.input) => fed' % job.in_chunk = 0
           /\ ~Whole => fed' = Len(job.input)
<1>. DEFINE N == Len(job.input)  c == job.in_chunk  f == fed'
<1>1. /\ f \in Nat /\ fed <= f /\ f <= N /\ N \in Nat /\ fed \in Nat /\ c \in Nat /\ c > 0
  BY RefillFits, LoopFacts
<1>2. /\ Whole /\ fed < N => fed % c = 0
      /\ ~Whole => f = N
      /\ Whole /\ pos = fed => f = fed + LeastOf(N - fed, c)
      /\ Whole /\ pos # fed => f = fed
  BY DEF SlicesWhole, Refill
<1>3. LeastOf(N - fed, c) = IF N - fed <= c THEN N - fed ELSE c
  BY DEF LeastOf
<1>. HIDE DEF N, c, f
<1>4. fed = N => f = N
  BY ONLY <1>1
<1>5. ASSUME Whole, f < N PROVE f % c = 0
  <2>1. CASE pos # fed
    BY <1>2, <1>5, <2>1
  <2>2. CASE pos = fed
    <3>1. f = fed + c /\ fed < N
      BY <1>1, <1>2, <1>3, <1>5, <2>2
    <3>2. fed % c = 0
      BY <1>2, <1>5, <3>1
    <3>. QED  BY <1>1, <3>1, <3>2, SliceMore
  <2>. QED  BY <2>1, <2>2
<1>. QED  BY <1>2, <1>4, <1>5 DEF N, c, f

\* At the start.
LEMMA SlicesAtStart == LoopInit => SlicesWhole
<1>. SUFFICES ASSUME LoopInit PROVE SlicesWhole
  OBVIOUS
<1>. DEFINE c == job.in_chunk
<1>1. pc = "open" /\ fed = 0 /\ c \in Nat /\ c > 0
  BY JobTypes DEF LoopInit
<1>. HIDE DEF c
<1>2. 0 % c = 0
  BY ONLY <1>1
<1>. QED  BY <1>1, <1>2 DEF SlicesWhole, c

\* The loop keeps it.
LEMMA LoopKeepsSlices ==
    ASSUME LoopInv, SlicesWhole, LoopStep
    PROVE  SlicesWhole'
<1>1. job' = job /\ Whole' = Whole
  BY DEF LoopStep, Open, CallCodec, ReserveFails, Close, Whole
<1>2. CASE Open \/ Close
  <2>1. fed' = fed /\ pc' # "codec"
    BY <1>2 DEF Open, Close
  <2>. QED  BY <1>1, <2>1 DEF SlicesWhole
<1>3. CASE CallCodec \/ ReserveFails
  <2>1. pc = "call" /\ Refill
    BY <1>3 DEF CallCodec, ReserveFails
  <2>2. /\ Whole /\ fed' < Len(job.input) => fed' % job.in_chunk = 0
        /\ ~Whole => fed' = Len(job.input)
    BY <2>1, RefillSlices
  <2>. QED  BY <1>1, <2>2 DEF SlicesWhole
<1>. QED  BY <1>2, <1>3 DEF LoopStep

\* So does a turn of the codec, and a step that leaves the loop alone.
LEMMA SlicesStay ==
    ASSUME SlicesWhole, job' = job, fed' = fed, pc = "codec" \/ pc' = pc
    PROVE  SlicesWhole'
<1>1. Whole' = Whole
  BY DEF Whole
<1>. QED  BY <1>1 DEF SlicesWhole

----------------------------------------------------------------------------
(***************************************************************************)
(* What the proofs of the decoders share.                                  *)
(***************************************************************************)
\* Joining nothing changes nothing.
LEMMA NothingJoined == \A q \in Seq(Nat) : q \o <<>> = q
BY ConcatEmptySeq

\* A token's bytes, for a job that need not be the one in progress.
LEMMA TokenBytesAt ==
    ASSUME NEW j \in Jobs, NEW i \in 1 .. Len(j.input)
    PROVE  /\ j.input[i] \in STRING \X Nat /\ j.input[i][2] \in Nat
           /\ BytesAt(j.input, i) \in Seq(Nat) /\ Len(BytesAt(j.input, i)) = j.input[i][2]
<1>1. j.input[i] \in STRING \X Nat /\ i \in Nat
  BY JobTypes
<1>2. j.input[i][2] \in Nat
  BY <1>1
<1>. DEFINE n == j.input[i][2]
<1>3. BytesAt(j.input, i) = [k \in 1 .. n |-> 100 * i + k]
  BY DEF BytesAt
<1>4. \A k \in 1 .. n : 100 * i + k \in Nat
  BY <1>1, <1>2
<1>. HIDE DEF n
<1>. QED  BY <1>1, <1>2, <1>3, <1>4 DEF n

\* Induction from p to N.
LEMMA FromOn ==
    ASSUME NEW N \in Nat, NEW p \in 0 .. N, NEW P, p \in P,
           \A i \in p .. N : i \in P /\ i < N => i + 1 \in P
    PROVE  \A i \in p .. N : i \in P
<1>. DEFINE Q == {d \in 0 .. N - p : p + d \in P}
<1>1. N - p \in Nat /\ p \in Nat
  OBVIOUS
<1>2. 0 \in Q
  BY <1>1
<1>3. \A d \in 0 .. N - p : d \in Q /\ d < N - p => d + 1 \in Q
  <2>. SUFFICES ASSUME NEW d \in 0 .. N - p, d \in Q, d < N - p PROVE d + 1 \in Q
    OBVIOUS
  <2>1. p + d \in p .. N /\ p + d < N /\ d + 1 \in 0 .. N - p /\ p + (d + 1) = (p + d) + 1
    BY <1>1
  <2>2. (p + d) + 1 \in P
    BY <2>1
  <2>. QED  BY <2>1, <2>2
<1>4. \A d \in 0 .. N - p : d \in Q
  <2>. HIDE DEF Q
  <2>. QED  BY ONLY <1>1, <1>2, <1>3, UpTo
<1>5. ASSUME NEW i \in p .. N PROVE i \in P
  <2>1. i - p \in 0 .. N - p /\ p + (i - p) = i
    BY <1>1
  <2>. QED  BY <1>4, <2>1
<1>. QED  BY <1>5

\* What a sequence is continued from is a prefix of it.
LEMMA JoinedIsPrefix ==
    ASSUME NEW o \in Seq(Nat), NEW u \in Seq(Nat), NEW t, t = o \o u
    PROVE  /\ IsPrefix(o, t) /\ t \in Seq(Nat)
           /\ Len(t) = Len(o) + Len(u) /\ Len(o) \in Nat /\ Len(u) \in Nat
<1>1. t \in Seq(Nat) /\ Len(t) = Len(o) + Len(u) /\ Len(o) \in Nat /\ Len(u) \in Nat
  BY Joined
<1>2. \A i \in 1 .. Len(o) : t[i] = o[i]
  BY o \in Seq(Nat), u \in Seq(Nat)
<1>3. Len(o) <= Len(t)
  <2>. DEFINE a == Len(o)  b == Len(u)  c == Len(t)
  <2>. HIDE DEF a, b, c
  <2>1. c = a + b /\ a \in Nat /\ b \in Nat
    BY <1>1 DEF a, b, c
  <2>2. a <= c
    BY ONLY <2>1
  <2>. QED  BY <2>2 DEF a, c
<1>4. SubSeq(o, 1, Len(o)) = SubSeq(t, 1, Len(o))
  <2>. DEFINE n == Len(o)
  <2>1. n \in Nat /\ n <= Len(t)
    BY <1>1, <1>3
  <2>. HIDE DEF n
  <2>2. \A i \in 1 .. n : o[i] = t[i]
    BY <1>2 DEF n
  <2>3. SubSeq(o, 1, n) = [i \in 1 .. n |-> o[i]] /\ SubSeq(t, 1, n) = [i \in 1 .. n |-> t[i]]
    BY <1>1, <2>1, n = Len(o) DEF n
  <2>. QED  BY <2>2, <2>3 DEF n
<1>. QED  BY <1>1, <1>3, <1>4 DEF IsPrefix
=============================================================================
