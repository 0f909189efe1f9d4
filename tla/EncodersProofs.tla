--------------------------- MODULE EncodersProofs ---------------------------
(***************************************************************************)
(* Proofs about the built-in encoders under their three callers, for every *)
(* job, every size of window, block and chunk, every level and every       *)
(* sequence of calls, flushes and resets: what an encoder has been given   *)
(* is at any moment on the wire, on its way or held back; a stream that    *)
(* has ended is the one asked for; and each loop drives the handle as      *)
(* ZuEncoder specifies it.                                                 *)
(***************************************************************************)
EXTENDS Encoders, TLAPS, WellFoundedInduction, SequenceTheorems

----------------------------------------------------------------------------
(***************************************************************************)
(* Induction.  The library's principles are stated for an operator, which  *)
(* the provers cannot instantiate; for a set of naturals they can.         *)
(***************************************************************************)
\* A set of naturals that is not empty has a least member.
LEMMA LeastMember ==
    ASSUME NEW T \in SUBSET Nat, T # {}
    PROVE  \E x \in T : \A y \in T : x <= y
<1>. DEFINE R == OpToRel(<, Nat)
<1>1. PICK x \in T : \A y \in T : ~(<<y, x>> \in R)
  <2>1. IsWellFoundedOn(R, Nat)
    BY NatLessThanWellFounded, Zenon
  <2>. HIDE DEF R
  <2>. QED  BY <2>1, WFMin
<1>2. ASSUME NEW y \in T PROVE x <= y
  <2>1. ~(<<y, x>> \in R)
    BY <1>1, Zenon
  <2>2. y \in Nat /\ x \in Nat
    OBVIOUS
  <2>3. ~(y < x)
    BY <2>1, <2>2 DEF OpToRel
  <2>. QED  BY <2>2, <2>3
<1>. QED  BY <1>2

\* A set that holds 0 and, up to N, with a number the next, holds all of them.
LEMMA UpTo ==
    ASSUME NEW N \in Nat, NEW P, 0 \in P,
           \A i \in 0 .. N : i \in P /\ i < N => i + 1 \in P
    PROVE  \A i \in 0 .. N : i \in P
<1>. DEFINE Bad == {i \in 0 .. N : i \notin P}
<1>. SUFFICES ASSUME Bad # {} PROVE FALSE
  OBVIOUS
<1>1. Bad \in SUBSET Nat
  OBVIOUS
<1>2. PICK m \in Bad : \A k \in Bad : m <= k
  <2>. HIDE DEF Bad
  <2>. QED  BY <1>1, LeastMember
<1>3. m \in Nat /\ m # 0 /\ m - 1 \in 0 .. N /\ m - 1 \notin Bad
  <2>1. m \in Nat /\ m # 0 /\ m <= N
    BY <1>2
  <2>2. m - 1 \in 0 .. N /\ ~(m <= m - 1)
    BY <2>1
  <2>. QED  BY <1>2, <2>1, <2>2
<1>4. m - 1 \in P /\ m - 1 < N /\ (m - 1) + 1 = m
  BY <1>3
<1>5. m \in P
  BY <1>3, <1>4
<1>. QED  BY <1>2, <1>5

(***************************************************************************)
(* Recursive functions.  That a definition by recursion has a solution is  *)
(* not for the provers to guess: here it is built up to N, one step at a   *)
(* time, for steps that lead from T[k - 1] to T[k].                        *)
(***************************************************************************)
StaysIn(T, N, step) == \A k \in 1 .. N : \A x \in T[k - 1] : step[k][x] \in T[k]

Iterates(g, N, a, step) ==
    g = [k \in 0 .. N |-> IF k = 0 THEN a ELSE step[k][g[k - 1]]]

\* A definition by recursion over 0 .. N has a solution, and it stays there.
LEMMA IteratesExist ==
    ASSUME NEW N, NEW T, NEW a, NEW step, N \in Nat, a \in T[0], StaysIn(T, N, step)
    PROVE  \E g : Iterates(g, N, a, step) /\ \A k \in 0 .. N : g[k] \in T[k]
<1>. DEFINE Good(m, g) == /\ \A k \in 0 .. m : g[k] \in T[k]
                          /\ g = [k \in 0 .. m |-> IF k = 0 THEN a ELSE step[k][g[k - 1]]]
            P == {m \in 0 .. N : \E g : Good(m, g)}
<1>1. 0 \in P
  <2>. DEFINE g == [k \in 0 .. 0 |-> a]
  <2>1. Good(0, g)
    <3>1. \A k \in 0 .. 0 : k = 0
      OBVIOUS
    <3>. QED  BY <3>1
  <2>2. \E h : Good(0, h)
    <3>. HIDE DEF g, Good
    <3>. QED  BY <2>1
  <2>. HIDE DEF Good
  <2>. QED  BY <2>2
<1>2. ASSUME NEW m \in 0 .. N, m \in P, m < N
      PROVE  m + 1 \in P
  <2>0. m \in Nat /\ m + 1 \in 1 .. N /\ m + 1 \in 0 .. N /\ m \in 0 .. m
    BY <1>2
  <2>1. PICK g : Good(m, g)
    BY <1>2
  <2>2. g[m] \in T[m] /\ step[m + 1][g[m]] \in T[m + 1]
    BY <2>0, <2>1 DEF StaysIn
  <2>. DEFINE h == [k \in 0 .. m + 1 |-> IF k <= m THEN g[k] ELSE step[m + 1][g[m]]]
  <2>3. \A k \in 0 .. m : h[k] = g[k] /\ k \in 0 .. m + 1
    BY <2>0
  <2>4. h[m + 1] = step[m + 1][g[m]]
    BY <2>0
  <2>5. \A k \in 0 .. m + 1 : k \in 0 .. m \/ k = m + 1
    BY <2>0
  <2>6. \A k \in 0 .. m + 1 : h[k] \in T[k]
    <3>. HIDE DEF h
    <3>. QED  BY <2>1, <2>2, <2>3, <2>4, <2>5
  <2>7. \A k \in 0 .. m + 1 : h[k] = IF k = 0 THEN a ELSE step[k][h[k - 1]]
    <3>. SUFFICES ASSUME NEW k \in 0 .. m + 1
                  PROVE  h[k] = IF k = 0 THEN a ELSE step[k][h[k - 1]]
      OBVIOUS
    <3>. HIDE DEF h
    <3>1. CASE k \in 0 .. m
      <4>1. k # 0 => k - 1 \in 0 .. m
        BY <2>0, <3>1
      <4>2. g[k] = IF k = 0 THEN a ELSE step[k][g[k - 1]]
        BY <2>1, <3>1
      <4>. QED  BY <2>3, <3>1, <4>1, <4>2
    <3>2. CASE k = m + 1
      <4>1. k # 0 /\ k - 1 = m
        BY <2>0, <3>2
      <4>. QED  BY <2>0, <2>3, <2>4, <3>2, <4>1
    <3>. QED  BY <2>5, <3>1, <3>2
  <2>8. h = [k \in 0 .. m + 1 |-> h[k]]
    OBVIOUS
  <2>9. h = [k \in 0 .. m + 1 |-> IF k = 0 THEN a ELSE step[k][h[k - 1]]]
    <3>. HIDE DEF h
    <3>. QED  BY <2>7, <2>8
  <2>10. \E e : Good(m + 1, e)
    <3>. HIDE DEF h
    <3>1. Good(m + 1, h)
      BY <2>6, <2>9
    <3>. HIDE DEF Good
    <3>. QED  BY <3>1
  <2>. HIDE DEF Good
  <2>. QED  BY <2>0, <2>10
<1>3. N \in P
  <2>. HIDE DEF P
  <2>1. \A m \in 0 .. N : m \in P /\ m < N => m + 1 \in P
    BY <1>2
  <2>2. \A m \in 0 .. N : m \in P
    BY ONLY N \in Nat, <1>1, <2>1, UpTo
  <2>. QED  BY <2>2
<1>4. PICK g : Good(N, g)
  <2>. HIDE DEF Good
  <2>. QED  BY <1>3
<1>. QED  BY <1>4 DEF Iterates

----------------------------------------------------------------------------
(***************************************************************************)
(* Sequences.                                                              *)
(***************************************************************************)
\* Two sequences, joined.
LEMMA Cat ==
    ASSUME NEW S, NEW s, NEW t, s \in Seq(S), t \in Seq(S)
    PROVE  /\ s \o t \in Seq(S) /\ Len(s \o t) = Len(s) + Len(t)
           /\ Len(s) \in Nat /\ Len(t) \in Nat
OBVIOUS

\* Joining is associative.
LEMMA Assoc ==
    ASSUME NEW S, NEW s, NEW t, NEW u, s \in Seq(S), t \in Seq(S), u \in Seq(S)
    PROVE  (s \o t) \o u = s \o (t \o u)
BY ConcatAssociative

\* Joining nothing changes nothing.
LEMMA Unit ==
    ASSUME NEW S, NEW s, s \in Seq(S)
    PROVE  s \o <<>> = s /\ <<>> \o s = s
BY ConcatEmptySeq

\* Any running concatenation of ss ends in what FlattenSeq computes.
LEMMA FlattenIs ==
    ASSUME NEW V, NEW ss, ss \in Seq(Seq(V)), NEW h, h[0] = <<>>,
           \A k \in 1 .. Len(ss) : h[k] = h[k - 1] \o ss[k]
    PROVE  FlattenSeq(ss) = h[Len(ss)]
<1>. DEFINE N == Len(ss)
            Body(f) == [i \in 1 .. N |-> IF i = 1 THEN ss[i] ELSE f[i - 1] \o ss[i]]
<1>0. N \in Nat /\ \A k \in 1 .. N : ss[k] \in Seq(V)
  OBVIOUS
<1>1. CASE N = 0
  <2>1. FlattenSeq(ss) = ss
    BY <1>1 DEF FlattenSeq
  <2>2. ss = <<>>
    BY <1>1
  <2>. QED  BY <1>1, <2>1, <2>2
<1>2. CASE N # 0
  <2>. DEFINE f == CHOOSE f : f = [i \in 1 .. Len(ss) |-> IF i = 1 THEN ss[i] ELSE f[i - 1] \o ss[i]]
              g == [i \in 1 .. N |-> h[i]]
  <2>1. FlattenSeq(ss) = f[N]
    BY <1>2 DEF FlattenSeq
  <2>2. \A i \in 1 .. N : g[i] = Body(g)[i]
    <3>. SUFFICES ASSUME NEW i \in 1 .. N PROVE g[i] = Body(g)[i]
      OBVIOUS
    <3>0. h[i] = h[i - 1] \o ss[i] /\ ss[i] \in Seq(V)
      BY <1>0
    <3>1. CASE i = 1
      <4>1. <<>> \o ss[i] = ss[i]
        BY <3>0, ConcatEmptySeq
      <4>2. h[i - 1] = <<>>
        BY <3>1
      <4>. QED  BY <3>0, <3>1, <4>1, <4>2
    <3>2. CASE i # 1
      <4>1. i - 1 \in 1 .. N
        BY <1>0, <3>2
      <4>. QED  BY <3>0, <3>2, <4>1
    <3>. QED  BY <3>1, <3>2
  <2>3. g = Body(g)
    <3>1. g = [i \in 1 .. N |-> g[i]] /\ Body(g) = [i \in 1 .. N |-> Body(g)[i]]
      OBVIOUS
    <3>. HIDE DEF g, Body
    <3>. QED  BY <2>2, <3>1, Zenon
  <2>4. \E e : e = Body(e)
    <3>. HIDE DEF g, Body
    <3>. QED  BY <2>3, Zenon
  <2>5. f = Body(f)
    BY <2>4, Zenon
  <2>. HIDE DEF f
  <2>. DEFINE P == {i \in 0 .. N : i = 0 \/ f[i] = h[i]}
  <2>6. 0 \in P
    BY <1>0
  <2>7. ASSUME NEW i \in 0 .. N, i \in P, i < N PROVE i + 1 \in P
    <3>1. i + 1 \in 1 .. N /\ (i + 1 = 1 <=> i = 0) /\ (i + 1) - 1 = i /\ i + 1 \in 0 .. N
      BY <1>0, <2>7
    <3>2. f[i + 1] = IF i = 0 THEN ss[i + 1] ELSE f[i] \o ss[i + 1]
      BY <2>5, <3>1
    <3>3. h[i + 1] = h[i] \o ss[i + 1] /\ ss[i + 1] \in Seq(V)
      BY <1>0, <3>1
    <3>4. <<>> \o ss[i + 1] = ss[i + 1]
      BY <3>3, ConcatEmptySeq
    <3>. QED  BY <2>7, <3>1, <3>2, <3>3, <3>4
  <2>8. \A i \in 0 .. N : i \in P
    <3>. HIDE DEF P, N
    <3>1. \A i \in 0 .. N : i \in P /\ i < N => i + 1 \in P
      BY <2>7
    <3>. QED  BY ONLY <1>0, <2>6, <3>1, UpTo
  <2>9. f[N] = h[N]
    BY <1>0, <1>2, <2>8
  <2>. QED  BY <2>1, <2>9
<1>. QED  BY <1>1, <1>2

\* There is one, and it stays among the sequences.
LEMMA FlattenSteps ==
    ASSUME NEW V, NEW ss, ss \in Seq(Seq(V))
    PROVE  \E h : /\ h[0] = <<>> /\ \A k \in 0 .. Len(ss) : h[k] \in Seq(V)
                  /\ \A k \in 1 .. Len(ss) : h[k] = h[k - 1] \o ss[k]
                  /\ FlattenSeq(ss) = h[Len(ss)]
<1>. DEFINE N == Len(ss)
            T == [k \in 0 .. N |-> Seq(V)]
            step == [k \in 1 .. N |-> [x \in Seq(V) |-> x \o ss[k]]]
<1>0. N \in Nat /\ <<>> \in Seq(V) /\ \A k \in 1 .. N : ss[k] \in Seq(V)
  OBVIOUS
<1>1. \A k \in 0 .. N : T[k] = Seq(V)
  OBVIOUS
<1>2. \A k \in 1 .. N : \A x \in Seq(V) : step[k][x] = x \o ss[k]
  OBVIOUS
<1>3. PICK g : Iterates(g, N, <<>>, step) /\ \A k \in 0 .. N : g[k] \in T[k]
  <2>. HIDE DEF step, T, N
  <2>1. ASSUME NEW k \in 1 .. N, NEW x \in T[k - 1] PROVE step[k][x] \in T[k]
    <3>1. k - 1 \in 0 .. N /\ k \in 0 .. N
      BY <1>0
    <3>2. x \in Seq(V) /\ step[k][x] = x \o ss[k] /\ ss[k] \in Seq(V)
      BY <1>0, <1>1, <1>2, <3>1
    <3>3. x \o ss[k] \in Seq(V)
      BY ONLY <3>2, Cat, Zenon
    <3>. QED  BY <1>1, <3>1, <3>2, <3>3
  <2>2. StaysIn(T, N, step)
    BY <2>1 DEF StaysIn
  <2>3. <<>> \in T[0]
    <3>1. 0 \in 0 .. N
      BY <1>0
    <3>2. T[0] = Seq(V)
      BY ONLY <1>1, <3>1
    <3>. QED  BY ONLY <1>0, <3>2
  <2>. QED  BY ONLY <1>0, <2>2, <2>3, IteratesExist
<1>4. g[0] = <<>>
  BY <1>0, <1>3 DEF Iterates
<1>5. \A k \in 1 .. N : g[k] = g[k - 1] \o ss[k]
  <2>. SUFFICES ASSUME NEW k \in 1 .. N PROVE g[k] = g[k - 1] \o ss[k]
    OBVIOUS
  <2>1. k \in 0 .. N /\ k # 0 /\ k - 1 \in 0 .. N
    BY <1>0
  <2>. HIDE DEF step, T
  <2>2. g[k] = step[k][g[k - 1]]
    BY <1>3, <2>1 DEF Iterates
  <2>. QED  BY <1>1, <1>2, <1>3, <2>1, <2>2
<1>6. FlattenSeq(ss) = g[N]
  BY <1>4, <1>5, FlattenIs
<1>. QED  BY <1>3, <1>4, <1>5, <1>6

\* The concatenation of two runs of sequences.
LEMMA FlattenConcat ==
    ASSUME NEW V, NEW a, NEW b, a \in Seq(Seq(V)), b \in Seq(Seq(V))
    PROVE  /\ FlattenSeq(a \o b) = FlattenSeq(a) \o FlattenSeq(b)
           /\ FlattenSeq(a) \in Seq(V)
<1>1. PICK f : /\ f[0] = <<>> /\ \A k \in 0 .. Len(a) : f[k] \in Seq(V)
               /\ \A k \in 1 .. Len(a) : f[k] = f[k - 1] \o a[k]
               /\ FlattenSeq(a) = f[Len(a)]
  BY FlattenSteps
<1>2. PICK g : /\ g[0] = <<>> /\ \A k \in 0 .. Len(b) : g[k] \in Seq(V)
               /\ \A k \in 1 .. Len(b) : g[k] = g[k - 1] \o b[k]
               /\ FlattenSeq(b) = g[Len(b)]
  BY FlattenSteps
<1>. DEFINE M == Len(a)
            N == Len(b)
            h == [k \in 0 .. M + N |-> IF k <= M THEN f[k] ELSE f[M] \o g[k - M]]
<1>3. M \in Nat /\ N \in Nat /\ Len(a \o b) = M + N /\ a \o b \in Seq(Seq(V))
  BY ConcatProperties
<1>4. f[M] \in Seq(V) /\ g[N] \in Seq(V)
  BY <1>1, <1>2, <1>3
<1>5. h[0] = <<>>
  BY <1>1, <1>3
<1>6. \A k \in M .. M + N : h[k] = f[M] \o g[k - M]
  <2>. SUFFICES ASSUME NEW k \in M .. M + N PROVE h[k] = f[M] \o g[k - M]
    OBVIOUS
  <2>1. CASE k = M
    <3>1. h[k] = f[M] /\ g[k - M] = <<>>
      BY <1>2, <1>3, <2>1
    <3>. QED  BY <1>4, <3>1, ConcatEmptySeq
  <2>2. CASE k # M
    <3>1. k \in 0 .. M + N /\ ~(k <= M)
      BY <1>3, <2>2
    <3>. QED  BY <3>1
  <2>. QED  BY <2>1, <2>2
<1>7. \A k \in 1 .. M + N : h[k] = h[k - 1] \o (a \o b)[k]
  <2>. SUFFICES ASSUME NEW k \in 1 .. M + N PROVE h[k] = h[k - 1] \o (a \o b)[k]
    OBVIOUS
  <2>1. CASE k <= M
    <3>1. k \in 1 .. M /\ k - 1 \in 0 .. M /\ k - 1 <= M
      BY <1>3, <2>1
    <3>2. (a \o b)[k] = a[k]
      BY <1>3, <3>1, ConcatProperties
    <3>3. h[k] = f[k] /\ h[k - 1] = f[k - 1]
      BY <1>3, <3>1
    <3>. HIDE DEF h
    <3>. QED  BY <1>1, <3>1, <3>2, <3>3
  <2>2. CASE ~(k <= M)
    <3>1. k \in M .. M + N /\ k - 1 \in M .. M + N /\ k - M \in 1 .. N
          /\ (k - 1) - M = (k - M) - 1 /\ (k - M) - 1 \in 0 .. N
      BY <1>3, <2>2
    <3>2. (a \o b)[k] = b[k - M]
      BY <1>3, <2>2, ConcatProperties
    <3>3. h[k] = f[M] \o g[k - M] /\ h[k - 1] = f[M] \o g[(k - M) - 1]
      <4>. HIDE DEF h, M
      <4>. QED  BY <1>6, <3>1
    <3>4. g[k - M] = g[(k - M) - 1] \o b[k - M] /\ g[(k - M) - 1] \in Seq(V)
      BY <1>2, <3>1
    <3>5. b[k - M] \in Seq(V)
      BY <3>1
    <3>6. (f[M] \o g[(k - M) - 1]) \o b[k - M] = f[M] \o (g[(k - M) - 1] \o b[k - M])
      <4>. DEFINE x == f[M]
                  y == g[(k - M) - 1]
                  z == b[k - M]
      <4>1. x \in Seq(V) /\ y \in Seq(V) /\ z \in Seq(V)
        BY <1>4, <3>4, <3>5
      <4>. HIDE DEF x, y, z
      <4>2. (x \o y) \o z = x \o (y \o z)
        BY ONLY <4>1, ConcatAssociative, SMTT(40)
      <4>. QED  BY <4>2 DEF x, y, z
    <3>. HIDE DEF h
    <3>. QED  BY <3>2, <3>3, <3>4, <3>6
  <2>. QED  BY <2>1, <2>2
<1>8. FlattenSeq(a \o b) = h[M + N]
  <2>. HIDE DEF h
  <2>. QED  BY <1>3, <1>5, <1>7, FlattenIs
<1>9. h[M + N] = f[M] \o g[N]
  <2>1. M + N \in M .. M + N /\ (M + N) - M = N
    BY <1>3
  <2>. HIDE DEF h, M, N
  <2>. QED  BY <1>6, <2>1
<1>. QED  BY <1>1, <1>2, <1>4, <1>8, <1>9

----------------------------------------------------------------------------
(***************************************************************************)
(* Tokens: those that wrap a stream, and those that carry its bytes.       *)
(***************************************************************************)
Wrapping == {"sync", "last", "cmf", "flg", "gz", "adler", "crc", "isize",
             "frame", "endmark", "xxh"}

Wrapper == Wrapping \X Int \X Int
Token == (Wrapping \cup {"data"}) \X Int \X Int

\* The parts of a token.
LEMMA TokenParts ==
    ASSUME NEW t, t \in Token
    PROVE  t[2] \in Int
BY DEF Token

\* A wrapping token carries nothing, and is a token.
LEMMA WrapperParts ==
    ASSUME NEW t, t \in Wrapper
    PROVE  t \in Token /\ t[1] # "data"
BY DEF Token, Wrapper, Wrapping

\* Wrapping tokens are tokens.
LEMMA WrappersAreTokens ==
    ASSUME NEW s, s \in Seq(Wrapper)
    PROVE  s \in Seq(Token)
<1>1. Wrapper \subseteq Token
  BY WrapperParts
<1>. QED  BY <1>1, SeqMonotonic

\* The wrapping tokens the codecs write.
LEMMA WrapperTokens ==
    ASSUME NEW n, n \in Int
    PROVE  /\ Sync \in Wrapper /\ LastBlock \in Wrapper
           /\ \A k \in Wrapping : <<k, n, 0>> \in Wrapper /\ <<k, n, 0>> \in Token
           /\ \A k \in Wrapping : k # "sync" => <<k, n, 0>> # Sync
BY DEF Sync, LastBlock, Wrapper, Wrapping, Token

\* What is compressed is as long as it was, token by byte.
LEMMA CompressedType ==
    ASSUME NEW b, b \in Seq(Int), NEW lv, lv \in Int
    PROVE  /\ Compressed(b, lv) \in Seq(Token) /\ Len(Compressed(b, lv)) = Len(b)
           /\ \A i \in 1 .. Len(b) : Compressed(b, lv)[i] = <<"data", b[i], lv>>
<1>1. Len(b) \in Nat /\ \A i \in 1 .. Len(b) : <<"data", b[i], lv>> \in Token
  BY DEF Token
<1>2. Compressed(b, lv) \in [1 .. Len(b) -> Token]
  BY <1>1 DEF Compressed
<1>. QED  BY <1>1, <1>2 DEF Compressed

\* Nothing compresses to nothing.
LEMMA CompressedEmpty ==
    ASSUME NEW lv, lv \in Int
    PROVE  Compressed(<<>>, lv) = <<>>
<1>1. <<>> \in Seq(Int) /\ Len(<<>>) = 0
  OBVIOUS
<1>2. Compressed(<<>>, lv) \in Seq(Token) /\ Len(Compressed(<<>>, lv)) = 0
  BY <1>1, CompressedType
<1>. QED  BY <1>2

\* Bytes are compressed each by itself.
LEMMA CompressedConcat ==
    ASSUME NEW a, NEW b, a \in Seq(Int), b \in Seq(Int), NEW lv, lv \in Int
    PROVE  Compressed(a \o b, lv) = Compressed(a, lv) \o Compressed(b, lv)
<1>. DEFINE L == Compressed(a \o b, lv)
            A == Compressed(a, lv)
            B == Compressed(b, lv)
<1>1. a \o b \in Seq(Int) /\ Len(a \o b) = Len(a) + Len(b) /\ Len(a) \in Nat /\ Len(b) \in Nat
  BY ConcatProperties
<1>2. L \in Seq(Token) /\ Len(L) = Len(a) + Len(b)
  BY <1>1, CompressedType
<1>3. A \in Seq(Token) /\ Len(A) = Len(a) /\ B \in Seq(Token) /\ Len(B) = Len(b)
  BY CompressedType
<1>4. A \o B \in Seq(Token) /\ Len(A \o B) = Len(a) + Len(b)
  <2>. HIDE DEF A, B
  <2>. QED  BY ONLY <1>3, Cat, SMTT(40)
<1>5. \A i \in 1 .. Len(a) + Len(b) : L[i] = (A \o B)[i]
  <2>. SUFFICES ASSUME NEW i \in 1 .. Len(a) + Len(b) PROVE L[i] = (A \o B)[i]
    OBVIOUS
  <2>1. L[i] = <<"data", (a \o b)[i], lv>>
    BY <1>1, CompressedType
  <2>2. CASE i <= Len(a)
    <3>1. i \in 1 .. Len(a)
      BY <1>1, <2>2
    <3>2. (a \o b)[i] = a[i] /\ (A \o B)[i] = A[i]
      <4>. HIDE DEF A, B
      <4>. QED  BY <1>1, <1>3, <2>2, ConcatProperties
    <3>3. A[i] = <<"data", a[i], lv>>
      BY <3>1, CompressedType
    <3>. HIDE DEF L, A, B
    <3>. QED  BY <2>1, <3>2, <3>3
  <2>3. CASE ~(i <= Len(a))
    <3>1. i - Len(a) \in 1 .. Len(b)
      BY <1>1, <2>3
    <3>2. (a \o b)[i] = b[i - Len(a)] /\ (A \o B)[i] = B[i - Len(a)]
      <4>. HIDE DEF A, B
      <4>. QED  BY <1>1, <1>3, <2>3, ConcatProperties
    <3>3. B[i - Len(a)] = <<"data", b[i - Len(a)], lv>>
      BY <3>1, CompressedType
    <3>. HIDE DEF L, A, B
    <3>. QED  BY <2>1, <3>2, <3>3
  <2>. QED  BY <2>2, <2>3
<1>. HIDE DEF L, A, B
<1>6. L = A \o B
  BY <1>2, <1>4, <1>5, SeqEqual
<1>. QED  BY <1>6 DEF L, A, B

----------------------------------------------------------------------------
(***************************************************************************)
(* The bytes on the wire.                                                  *)
(***************************************************************************)
\* One token's bytes, and one token without a flush marker.
Carried(t) == IF t[1] = "data" THEN <<t[2]>> ELSE <<>>
Kept(t) == IF t = Sync THEN <<>> ELSE <<t>>

CarriedBy(s) == [i \in 1 .. Len(s) |-> Carried(s[i])]
KeptOf(s) == [i \in 1 .. Len(s) |-> Kept(s[i])]

\* The same operators, as the properties write them.
LEMMA PerToken ==
    ASSUME NEW s
    PROVE  BytesIn(s) = FlattenSeq(CarriedBy(s)) /\ NoSyncMarks(s) = FlattenSeq(KeptOf(s))
BY DEF BytesIn, NoSyncMarks, CarriedBy, KeptOf, Carried, Kept

\* What single tokens carry.
LEMMA CarriedTypes ==
    ASSUME NEW s, s \in Seq(Token)
    PROVE  /\ CarriedBy(s) \in Seq(Seq(Int))
           /\ Len(CarriedBy(s)) = Len(s)
<1>0. Len(s) \in Nat /\ \A i \in 1 .. Len(s) : s[i] \in Token
  OBVIOUS
<1>1. ASSUME NEW t, t \in Token PROVE Carried(t) \in Seq(Int)
  <2>1. t[2] \in Int
    BY <1>1, TokenParts
  <2>2. <<t[2]>> \in Seq(Int) /\ <<>> \in Seq(Int)
    BY <2>1
  <2>. QED  BY <2>2 DEF Carried
<1>2. CarriedBy(s) \in [1 .. Len(s) -> Seq(Int)]
  BY <1>0, <1>1 DEF CarriedBy
<1>. QED  BY <1>0, <1>2

\* What is left of single tokens.
LEMMA KeptTypes ==
    ASSUME NEW s, s \in Seq(Token)
    PROVE  /\ KeptOf(s) \in Seq(Seq(Token))
           /\ Len(KeptOf(s)) = Len(s)
<1>0. Len(s) \in Nat /\ \A i \in 1 .. Len(s) : s[i] \in Token
  OBVIOUS
<1>1. ASSUME NEW t, t \in Token PROVE Kept(t) \in Seq(Token)
  <2>1. <<t>> \in Seq(Token) /\ <<>> \in Seq(Token)
    BY <1>1
  <2>. QED  BY <2>1 DEF Kept
<1>2. KeptOf(s) \in [1 .. Len(s) -> Seq(Token)]
  BY <1>0, <1>1 DEF KeptOf
<1>. QED  BY <1>0, <1>2

\* Tokens carry what they carry wherever they stand.
LEMMA PerTokenConcat ==
    ASSUME NEW s, NEW t, s \in Seq(Token), t \in Seq(Token)
    PROVE  CarriedBy(s \o t) = CarriedBy(s) \o CarriedBy(t) /\ KeptOf(s \o t) = KeptOf(s) \o KeptOf(t)
<1>0. /\ s \o t \in Seq(Token) /\ Len(s \o t) = Len(s) + Len(t)
      /\ Len(s) \in Nat /\ Len(t) \in Nat
  BY Cat
<1>1. \A i \in 1 .. Len(s) + Len(t) : (s \o t)[i] = IF i <= Len(s) THEN s[i] ELSE t[i - Len(s)]
  BY ConcatProperties
<1>2. CarriedBy(s \o t) = CarriedBy(s) \o CarriedBy(t)
  <2>. DEFINE L == CarriedBy(s \o t)
              A == CarriedBy(s)
              B == CarriedBy(t)
  <2>1. L \in Seq(Seq(Int)) /\ Len(L) = Len(s) + Len(t)
    BY <1>0, CarriedTypes
  <2>2. A \in Seq(Seq(Int)) /\ Len(A) = Len(s) /\ B \in Seq(Seq(Int)) /\ Len(B) = Len(t)
    BY CarriedTypes
  <2>3. \A i \in 1 .. Len(s) + Len(t) : L[i] = Carried((s \o t)[i])
    BY <1>0 DEF CarriedBy
  <2>4. \A i \in 1 .. Len(s) : A[i] = Carried(s[i])
    BY DEF CarriedBy
  <2>5. \A i \in 1 .. Len(t) : B[i] = Carried(t[i])
    BY DEF CarriedBy
  <2>. HIDE DEF L, A, B
  <2>6. A \o B \in Seq(Seq(Int)) /\ Len(A \o B) = Len(s) + Len(t)
    <3>0. A \in Seq(Seq(Int)) /\ B \in Seq(Seq(Int))
      BY <2>2
    <3>1. A \o B \in Seq(Seq(Int)) /\ Len(A \o B) = Len(A) + Len(B)
      BY ONLY <3>0, Cat
    <3>. QED  BY ONLY <2>2, <3>1
  <2>7. \A i \in 1 .. Len(s) + Len(t) : (A \o B)[i] = IF i <= Len(s) THEN A[i] ELSE B[i - Len(s)]
    BY ONLY <2>2, ConcatProperties
  <2>8. ASSUME NEW i \in 1 .. Len(s) + Len(t) PROVE L[i] = (A \o B)[i]
    <3>1. CASE i <= Len(s)
      <4>1. i \in 1 .. Len(s)
        BY <1>0, <3>1
      <4>. QED  BY <1>1, <2>3, <2>4, <2>7, <3>1, <4>1
    <3>2. CASE ~(i <= Len(s))
      <4>1. i - Len(s) \in 1 .. Len(t)
        BY <1>0, <3>2
      <4>. QED  BY <1>1, <2>3, <2>5, <2>7, <3>2, <4>1
    <3>. QED  BY <3>1, <3>2
  <2>9. L = A \o B
    BY ONLY <2>1, <2>6, <2>8, SeqEqual
  <2>. QED  BY <2>9 DEF L, A, B
<1>3. KeptOf(s \o t) = KeptOf(s) \o KeptOf(t)
  <2>. DEFINE L == KeptOf(s \o t)
              A == KeptOf(s)
              B == KeptOf(t)
  <2>1. L \in Seq(Seq(Token)) /\ Len(L) = Len(s) + Len(t)
    BY <1>0, KeptTypes
  <2>2. A \in Seq(Seq(Token)) /\ Len(A) = Len(s) /\ B \in Seq(Seq(Token)) /\ Len(B) = Len(t)
    BY KeptTypes
  <2>3. \A i \in 1 .. Len(s) + Len(t) : L[i] = Kept((s \o t)[i])
    BY <1>0 DEF KeptOf
  <2>4. \A i \in 1 .. Len(s) : A[i] = Kept(s[i])
    BY DEF KeptOf
  <2>5. \A i \in 1 .. Len(t) : B[i] = Kept(t[i])
    BY DEF KeptOf
  <2>. HIDE DEF L, A, B
  <2>6. A \o B \in Seq(Seq(Token)) /\ Len(A \o B) = Len(s) + Len(t)
    <3>0. A \in Seq(Seq(Token)) /\ B \in Seq(Seq(Token))
      BY <2>2
    <3>1. A \o B \in Seq(Seq(Token)) /\ Len(A \o B) = Len(A) + Len(B)
      BY ONLY <3>0, Cat
    <3>. QED  BY ONLY <2>2, <3>1
  <2>7. \A i \in 1 .. Len(s) + Len(t) : (A \o B)[i] = IF i <= Len(s) THEN A[i] ELSE B[i - Len(s)]
    BY ONLY <2>2, ConcatProperties
  <2>8. ASSUME NEW i \in 1 .. Len(s) + Len(t) PROVE L[i] = (A \o B)[i]
    <3>1. CASE i <= Len(s)
      <4>1. i \in 1 .. Len(s)
        BY <1>0, <3>1
      <4>. QED  BY <1>1, <2>3, <2>4, <2>7, <3>1, <4>1
    <3>2. CASE ~(i <= Len(s))
      <4>1. i - Len(s) \in 1 .. Len(t)
        BY <1>0, <3>2
      <4>. QED  BY <1>1, <2>3, <2>5, <2>7, <3>2, <4>1
    <3>. QED  BY <3>1, <3>2
  <2>9. L = A \o B
    BY ONLY <2>1, <2>6, <2>8, SeqEqual
  <2>. QED  BY <2>9 DEF L, A, B
<1>. QED  BY <1>2, <1>3

\* The bytes and the unmarked tokens of a concatenation.
LEMMA BytesInConcat ==
    ASSUME NEW s, NEW t, s \in Seq(Token), t \in Seq(Token)
    PROVE  /\ BytesIn(s) \in Seq(Int)
           /\ BytesIn(s \o t) = BytesIn(s) \o BytesIn(t)
<1>. DEFINE A == CarriedBy(s)
            B == CarriedBy(t)
<1>1. A \in Seq(Seq(Int)) /\ B \in Seq(Seq(Int))
  BY CarriedTypes
<1>2. CarriedBy(s \o t) = A \o B
  BY PerTokenConcat
<1>. HIDE DEF A, B
<1>3. FlattenSeq(A \o B) = FlattenSeq(A) \o FlattenSeq(B) /\ FlattenSeq(A) \in Seq(Int)
  BY ONLY <1>1, FlattenConcat
<1>4. BytesIn(s) = FlattenSeq(A) /\ BytesIn(t) = FlattenSeq(B) /\ BytesIn(s \o t) = FlattenSeq(A \o B)
  BY <1>2, PerToken DEF A, B
<1>. QED  BY ONLY <1>3, <1>4

\* ... and its tokens without the markers.
LEMMA NoSyncConcat ==
    ASSUME NEW s, NEW t, s \in Seq(Token), t \in Seq(Token)
    PROVE  /\ NoSyncMarks(s) \in Seq(Token)
           /\ NoSyncMarks(s \o t) = NoSyncMarks(s) \o NoSyncMarks(t)
<1>. DEFINE A == KeptOf(s)
            B == KeptOf(t)
<1>1. A \in Seq(Seq(Token)) /\ B \in Seq(Seq(Token))
  BY KeptTypes
<1>2. KeptOf(s \o t) = A \o B
  BY PerTokenConcat
<1>. HIDE DEF A, B
<1>3. FlattenSeq(A \o B) = FlattenSeq(A) \o FlattenSeq(B) /\ FlattenSeq(A) \in Seq(Token)
  BY ONLY <1>1, FlattenConcat
<1>4. NoSyncMarks(s) = FlattenSeq(A) /\ NoSyncMarks(t) = FlattenSeq(B) /\ NoSyncMarks(s \o t) = FlattenSeq(A \o B)
  BY <1>2, PerToken DEF A, B
<1>. QED  BY ONLY <1>3, <1>4

\* A single token.
LEMMA SingleToken ==
    ASSUME NEW t, t \in Token
    PROVE  BytesIn(<<t>>) = Carried(t) /\ NoSyncMarks(<<t>>) = Kept(t)
<1>1. <<t>> \in Seq(Token) /\ Len(<<t>>) = 1 /\ <<t>>[1] = t
  OBVIOUS
<1>2. BytesIn(<<t>>) = Carried(t)
  <2>. DEFINE A == CarriedBy(<<t>>)
              h == [k \in 0 .. 1 |-> IF k = 0 THEN <<>> ELSE A[1]]
  <2>1. A \in Seq(Seq(Int)) /\ Len(A) = 1
    BY <1>1, CarriedTypes
  <2>2. A[1] = Carried(t)
    BY <1>1 DEF CarriedBy
  <2>. HIDE DEF A
  <2>3. A[1] \in Seq(Int)
    BY <2>1
  <2>4. h[0] = <<>> /\ h[1] = A[1]
    OBVIOUS
  <2>5. <<>> \o A[1] = A[1]
    BY <2>3, Unit
  <2>6. \A k \in 1 .. 1 : h[k] = h[k - 1] \o A[k]
    <3>. SUFFICES ASSUME NEW k \in 1 .. 1 PROVE h[k] = h[k - 1] \o A[k]
      OBVIOUS
    <3>1. k = 1 /\ k - 1 = 0
      OBVIOUS
    <3>. HIDE DEF h
    <3>. QED  BY <2>4, <2>5, <3>1
  <2>. HIDE DEF h
  <2>7. FlattenSeq(A) = h[1]
    BY <2>1, <2>4, <2>6, FlattenIs
  <2>. QED  BY <2>2, <2>4, <2>7, PerToken DEF A
<1>3. NoSyncMarks(<<t>>) = Kept(t)
  <2>. DEFINE A == KeptOf(<<t>>)
              h == [k \in 0 .. 1 |-> IF k = 0 THEN <<>> ELSE A[1]]
  <2>1. A \in Seq(Seq(Token)) /\ Len(A) = 1
    BY <1>1, KeptTypes
  <2>2. A[1] = Kept(t)
    BY <1>1 DEF KeptOf
  <2>. HIDE DEF A
  <2>3. A[1] \in Seq(Token)
    BY <2>1
  <2>4. h[0] = <<>> /\ h[1] = A[1]
    OBVIOUS
  <2>5. <<>> \o A[1] = A[1]
    BY <2>3, Unit
  <2>6. \A k \in 1 .. 1 : h[k] = h[k - 1] \o A[k]
    <3>. SUFFICES ASSUME NEW k \in 1 .. 1 PROVE h[k] = h[k - 1] \o A[k]
      OBVIOUS
    <3>1. k = 1 /\ k - 1 = 0
      OBVIOUS
    <3>. HIDE DEF h
    <3>. QED  BY <2>4, <2>5, <3>1
  <2>. HIDE DEF h
  <2>7. FlattenSeq(A) = h[1]
    BY <2>1, <2>4, <2>6, FlattenIs
  <2>. QED  BY <2>2, <2>4, <2>7, PerToken DEF A
<1>. QED  BY <1>2, <1>3

\* Nothing carries nothing.
LEMMA NoTokens ==
    BytesIn(<<>>) = <<>> /\ NoSyncMarks(<<>>) = <<>>
<1>1. CarriedBy(<<>>) = <<>> /\ KeptOf(<<>>) = <<>>
  BY DEF CarriedBy, KeptOf
<1>2. FlattenSeq(<<>>) = <<>>
  BY DEF FlattenSeq
<1>. QED  BY <1>1, <1>2, PerToken

\* The wrapping carries no bytes.
LEMMA WrappersCarryNothing ==
    ASSUME NEW s, s \in Seq(Wrapper)
    PROVE  BytesIn(s) = <<>>
<1>. DEFINE A == CarriedBy(s)
            h == [k \in 0 .. Len(s) |-> <<>>]
<1>0. s \in Seq(Token) /\ Len(s) \in Nat /\ \A i \in 1 .. Len(s) : s[i] \in Wrapper
  BY WrappersAreTokens
<1>1. A \in Seq(Seq(Int)) /\ Len(A) = Len(s)
  BY <1>0, CarriedTypes
<1>2. \A i \in 1 .. Len(s) : A[i] = <<>>
  BY <1>0, WrapperParts DEF CarriedBy, Carried
<1>. HIDE DEF A
<1>3. <<>> \o <<>> = <<>>
  OBVIOUS
<1>4. h[0] = <<>> /\ h[Len(s)] = <<>> /\ \A k \in 1 .. Len(s) : h[k] = h[k - 1] \o A[k]
  <2>1. h[0] = <<>> /\ h[Len(s)] = <<>>
    BY <1>0
  <2>2. ASSUME NEW k \in 1 .. Len(s) PROVE h[k] = h[k - 1] \o A[k]
    <3>1. k \in 0 .. Len(s) /\ k - 1 \in 0 .. Len(s)
      BY <1>0
    <3>. QED  BY <1>2, <1>3, <3>1
  <2>. QED  BY <2>1, <2>2
<1>. HIDE DEF h
<1>5. FlattenSeq(A) = h[Len(s)]
  <2>1. h[0] = <<>> /\ \A k \in 1 .. Len(A) : h[k] = h[k - 1] \o A[k]
    BY <1>1, <1>4
  <2>2. FlattenSeq(A) = h[Len(A)]
    BY ONLY <1>1, <2>1, FlattenIs
  <2>. QED  BY <1>1, <2>2
<1>. QED  BY <1>4, <1>5, PerToken DEF A

\* What is compressed carries the bytes it was made of.
LEMMA CompressedCarries ==
    ASSUME NEW b, b \in Seq(Int), NEW lv, lv \in Int
    PROVE  BytesIn(Compressed(b, lv)) = b
<1>. DEFINE s == Compressed(b, lv)
            A == CarriedBy(s)
            h == [k \in 0 .. Len(b) |-> SubSeq(b, 1, k)]
<1>0. /\ s \in Seq(Token) /\ Len(s) = Len(b)
      /\ \A i \in 1 .. Len(b) : s[i] = <<"data", b[i], lv>>
  BY CompressedType
<1>1. Len(b) \in Nat
  OBVIOUS
<1>2. A \in Seq(Seq(Int)) /\ Len(A) = Len(b)
  <2>. HIDE DEF s
  <2>. QED  BY <1>0, CarriedTypes
<1>3. \A i \in 1 .. Len(b) : A[i] = <<b[i]>>
  <2>. HIDE DEF s
  <2>. QED  BY <1>0 DEF CarriedBy, Carried
<1>. HIDE DEF A
<1>4. h[0] = <<>> /\ h[Len(b)] = b
  <2>1. SubSeq(b, 1, 0) = <<>> /\ SubSeq(b, 1, Len(b)) = b
    BY SubSeqEmpty, SubSeqFull
  <2>. QED  BY <1>1, <2>1
<1>5. \A k \in 1 .. Len(b) : h[k] = h[k - 1] \o A[k]
  <2>. SUFFICES ASSUME NEW k \in 1 .. Len(b) PROVE h[k] = h[k - 1] \o A[k]
    OBVIOUS
  <2>1. k \in 0 .. Len(b) /\ k - 1 \in 0 .. Len(b) /\ k \in 1 .. Len(b) /\ 1 \in 1 .. Len(b)
    BY <1>1
  <2>2. SubSeq(b, 1, k) = SubSeq(b, 1, k - 1) \o <<b[k]>>
    BY <2>1, SubSeqRecursiveSecond
  <2>. QED  BY <1>3, <2>1, <2>2
<1>. HIDE DEF h
<1>6. FlattenSeq(A) = b
  <2>1. h[0] = <<>> /\ \A k \in 1 .. Len(A) : h[k] = h[k - 1] \o A[k]
    BY <1>2, <1>4, <1>5
  <2>2. FlattenSeq(A) = h[Len(A)]
    BY ONLY <1>2, <2>1, FlattenIs
  <2>. QED  BY <1>2, <1>4, <2>2
<1>. QED  BY <1>6, PerToken DEF A

\* A stream without flush markers.
Plain(s) == \A i \in 1 .. Len(s) : s[i] # Sync

\* ... is left as it is.
LEMMA PlainIsKept ==
    ASSUME NEW s, s \in Seq(Token), Plain(s)
    PROVE  NoSyncMarks(s) = s
<1>. DEFINE A == KeptOf(s)
            h == [k \in 0 .. Len(s) |-> SubSeq(s, 1, k)]
<1>1. Len(s) \in Nat
  OBVIOUS
<1>2. A \in Seq(Seq(Token)) /\ Len(A) = Len(s)
  BY KeptTypes
<1>3. \A i \in 1 .. Len(s) : A[i] = <<s[i]>>
  BY DEF KeptOf, Kept, Plain
<1>. HIDE DEF A
<1>4. h[0] = <<>> /\ h[Len(s)] = s
  <2>1. SubSeq(s, 1, 0) = <<>> /\ SubSeq(s, 1, Len(s)) = s
    BY SubSeqEmpty, SubSeqFull
  <2>. QED  BY <1>1, <2>1
<1>5. \A k \in 1 .. Len(s) : h[k] = h[k - 1] \o A[k]
  <2>. SUFFICES ASSUME NEW k \in 1 .. Len(s) PROVE h[k] = h[k - 1] \o A[k]
    OBVIOUS
  <2>1. k \in 0 .. Len(s) /\ k - 1 \in 0 .. Len(s) /\ k \in 1 .. Len(s) /\ 1 \in 1 .. Len(s)
    BY <1>1
  <2>2. SubSeq(s, 1, k) = SubSeq(s, 1, k - 1) \o <<s[k]>>
    BY <2>1, SubSeqRecursiveSecond
  <2>. QED  BY <1>3, <2>1, <2>2
<1>. HIDE DEF h
<1>6. FlattenSeq(A) = s
  <2>1. h[0] = <<>> /\ \A k \in 1 .. Len(A) : h[k] = h[k - 1] \o A[k]
    BY <1>2, <1>4, <1>5
  <2>2. FlattenSeq(A) = h[Len(A)]
    BY ONLY <1>2, <2>1, FlattenIs
  <2>. QED  BY <1>2, <1>4, <2>2
<1>. QED  BY <1>6, PerToken DEF A

\* A flush marker carries no bytes.
LEMMA MarksCarryNothing ==
    ASSUME NEW s, s \in Seq(Token)
    PROVE  BytesIn(NoSyncMarks(s)) = BytesIn(s)
<1>. DEFINE A == CarriedBy(s)
            K == KeptOf(s)
<1>0. Len(s) \in Nat /\ \A i \in 1 .. Len(s) : s[i] \in Token
  OBVIOUS
<1>1. A \in Seq(Seq(Int)) /\ Len(A) = Len(s) /\ K \in Seq(Seq(Token)) /\ Len(K) = Len(s)
  BY CarriedTypes, KeptTypes
<1>2. \A i \in 1 .. Len(s) : A[i] = Carried(s[i]) /\ K[i] = Kept(s[i])
  BY DEF CarriedBy, KeptOf
<1>3. ASSUME NEW t, t \in Token PROVE Kept(t) \in Seq(Token) /\ BytesIn(Kept(t)) = Carried(t)
  <2>1. CASE t = Sync
    <3>1. Kept(t) = <<>> /\ <<>> \in Seq(Token)
      BY <2>1 DEF Kept
    <3>2. Carried(t) = <<>>
      BY <2>1 DEF Carried, Sync
    <3>. QED  BY <3>1, <3>2, NoTokens
  <2>2. CASE t # Sync
    <3>1. Kept(t) = <<t>> /\ <<t>> \in Seq(Token)
      BY <1>3, <2>2 DEF Kept
    <3>. QED  BY <1>3, <3>1, SingleToken
  <2>. QED  BY <2>1, <2>2
<1>. HIDE DEF A, K
<1>4. PICK g : /\ g[0] = <<>> /\ \A k \in 0 .. Len(K) : g[k] \in Seq(Token)
               /\ \A k \in 1 .. Len(K) : g[k] = g[k - 1] \o K[k]
               /\ FlattenSeq(K) = g[Len(K)]
  BY ONLY <1>1, FlattenSteps
<1>. DEFINE h == [k \in 0 .. Len(s) |-> BytesIn(g[k])]
<1>5. h[0] = <<>>
  BY <1>0, <1>4, NoTokens
<1>6. \A k \in 1 .. Len(s) : h[k] = h[k - 1] \o A[k]
  <2>. SUFFICES ASSUME NEW k \in 1 .. Len(s) PROVE h[k] = h[k - 1] \o A[k]
    OBVIOUS
  <2>1. k \in 0 .. Len(s) /\ k - 1 \in 0 .. Len(s)
    BY <1>0
  <2>2. h[k] = BytesIn(g[k]) /\ h[k - 1] = BytesIn(g[k - 1])
    BY <2>1
  <2>. HIDE DEF h
  <2>3. g[k] = g[k - 1] \o K[k] /\ g[k - 1] \in Seq(Token)
    BY <1>1, <1>4, <2>1
  <2>4. K[k] \in Seq(Token) /\ BytesIn(K[k]) = A[k]
    BY <1>0, <1>2, <1>3
  <2>5. BytesIn(g[k - 1] \o K[k]) = BytesIn(g[k - 1]) \o BytesIn(K[k])
    BY ONLY <2>3, <2>4, BytesInConcat
  <2>. QED  BY ONLY <2>2, <2>3, <2>4, <2>5
<1>7. h[Len(s)] = BytesIn(FlattenSeq(K))
  BY <1>0, <1>1, <1>4
<1>. HIDE DEF h
<1>8. FlattenSeq(A) = h[Len(s)]
  <2>1. h[0] = <<>> /\ \A k \in 1 .. Len(A) : h[k] = h[k - 1] \o A[k]
    BY <1>1, <1>5, <1>6
  <2>2. A \in Seq(Seq(Int))
    BY <1>1
  <2>3. FlattenSeq(A) = h[Len(A)]
    BY ONLY <2>1, <2>2, FlattenIs
  <2>. QED  BY <1>1, <2>3
<1>. QED  BY <1>7, <1>8, PerToken DEF A, K
----------------------------------------------------------------------------
(***************************************************************************)
(* The checksum, the input and the slices of a sequence.                   *)
(***************************************************************************)
\* A checksum is the end of any running one.
LEMMA ChecksumIs ==
    ASSUME NEW sum, NEW b, b \in Seq(Int), NEW h, h[0] = sum,
           \A k \in 1 .. Len(b) : h[k] = 10 * h[k - 1] + b[k]
    PROVE  ChecksumUpdate(sum, b) = h[Len(b)]
<1>. DEFINE N == Len(b)
            Body(f) == [i \in 0 .. N |-> IF i = 0 THEN sum ELSE 10 * f[i - 1] + b[i]]
            f == CHOOSE f : f = [i \in 0 .. Len(b) |-> IF i = 0 THEN sum ELSE 10 * f[i - 1] + b[i]]
            g == [i \in 0 .. N |-> h[i]]
<1>0. N \in Nat
  OBVIOUS
<1>1. ChecksumUpdate(sum, b) = f[N]
  BY DEF ChecksumUpdate
<1>2. \A i \in 0 .. N : g[i] = Body(g)[i]
  <2>. SUFFICES ASSUME NEW i \in 0 .. N PROVE g[i] = Body(g)[i]
    OBVIOUS
  <2>1. CASE i = 0
    BY <1>0, <2>1
  <2>2. CASE i # 0
    <3>1. i \in 1 .. N /\ i - 1 \in 0 .. N
      BY <1>0, <2>2
    <3>2. h[i] = 10 * h[i - 1] + b[i]
      BY <3>1
    <3>. QED  BY <2>2, <3>1, <3>2
  <2>. QED  BY <2>1, <2>2
<1>3. g = Body(g)
  <2>1. g = [i \in 0 .. N |-> g[i]] /\ Body(g) = [i \in 0 .. N |-> Body(g)[i]]
    OBVIOUS
  <2>. HIDE DEF g, Body
  <2>. QED  BY <1>2, <2>1
<1>4. \E e : e = Body(e)
  <2>. HIDE DEF g, Body
  <2>. QED  BY <1>3
<1>5. f = Body(f)
  BY <1>4
<1>. HIDE DEF f
<1>. DEFINE P == {i \in 0 .. N : f[i] = h[i]}
<1>6. 0 \in P
  BY <1>0, <1>5
<1>7. ASSUME NEW i \in 0 .. N, i \in P, i < N PROVE i + 1 \in P
  <2>1. i + 1 \in 1 .. N /\ i + 1 # 0 /\ (i + 1) - 1 = i /\ i + 1 \in 0 .. N
    BY <1>0, <1>7
  <2>2. f[i + 1] = 10 * f[i] + b[i + 1]
    BY <1>5, <2>1
  <2>3. h[i + 1] = 10 * h[i] + b[i + 1]
    BY <2>1
  <2>. QED  BY <1>7, <2>1, <2>2, <2>3
<1>8. \A i \in 0 .. N : i \in P
  <2>. HIDE DEF P, N
  <2>1. \A i \in 0 .. N : i \in P /\ i < N => i + 1 \in P
    BY <1>7
  <2>. QED  BY ONLY <1>0, <1>6, <2>1, UpTo
<1>9. f[N] = h[N]
  BY <1>0, <1>8
<1>. QED  BY <1>1, <1>9

\* There is a running checksum, and it stays a number.
LEMMA ChecksumSteps ==
    ASSUME NEW sum, NEW b, b \in Seq(Int), sum \in Int
    PROVE  \E h : /\ h[0] = sum /\ \A k \in 0 .. Len(b) : h[k] \in Int
                  /\ \A k \in 1 .. Len(b) : h[k] = 10 * h[k - 1] + b[k]
                  /\ ChecksumUpdate(sum, b) = h[Len(b)]
<1>. DEFINE N == Len(b)
            T == [k \in 0 .. N |-> Int]
            step == [k \in 1 .. N |-> [x \in Int |-> 10 * x + b[k]]]
<1>0. N \in Nat /\ \A k \in 1 .. N : b[k] \in Int
  OBVIOUS
<1>1. \A k \in 0 .. N : T[k] = Int
  OBVIOUS
<1>2. \A k \in 1 .. N : \A x \in Int : step[k][x] = 10 * x + b[k]
  OBVIOUS
<1>3. PICK g : Iterates(g, N, sum, step) /\ \A k \in 0 .. N : g[k] \in T[k]
  <2>. HIDE DEF step, T, N
  <2>1. ASSUME NEW k \in 1 .. N, NEW x \in T[k - 1] PROVE step[k][x] \in T[k]
    <3>1. k - 1 \in 0 .. N /\ k \in 0 .. N
      BY <1>0
    <3>2. x \in Int /\ step[k][x] = 10 * x + b[k] /\ b[k] \in Int
      BY <1>0, <1>1, <1>2, <3>1
    <3>. QED  BY <1>1, <3>1, <3>2
  <2>2. StaysIn(T, N, step)
    BY <2>1 DEF StaysIn
  <2>3. sum \in T[0]
    BY <1>0, <1>1
  <2>. QED  BY ONLY <1>0, <2>2, <2>3, IteratesExist
<1>4. g[0] = sum
  BY <1>0, <1>3 DEF Iterates
<1>5. \A k \in 1 .. N : g[k] = 10 * g[k - 1] + b[k]
  <2>. SUFFICES ASSUME NEW k \in 1 .. N PROVE g[k] = 10 * g[k - 1] + b[k]
    OBVIOUS
  <2>1. k \in 0 .. N /\ k # 0 /\ k - 1 \in 0 .. N
    BY <1>0
  <2>. HIDE DEF step, T
  <2>2. g[k] = step[k][g[k - 1]]
    BY <1>3, <2>1 DEF Iterates
  <2>. QED  BY <1>1, <1>2, <1>3, <2>1, <2>2
<1>6. ChecksumUpdate(sum, b) = g[N]
  BY <1>4, <1>5, ChecksumIs
<1>7. \A k \in 0 .. N : g[k] \in Int
  <2>. HIDE DEF T
  <2>. QED  BY <1>1, <1>3
<1>. QED  BY <1>4, <1>5, <1>6, <1>7

\* A checksum goes on where it stopped.
LEMMA ChecksumConcat ==
    ASSUME NEW sum, NEW a, NEW b, a \in Seq(Int), b \in Seq(Int), sum \in Int
    PROVE  /\ ChecksumUpdate(sum, a) \in Int
           /\ ChecksumUpdate(sum, a \o b) = ChecksumUpdate(ChecksumUpdate(sum, a), b)
<1>. DEFINE M == Len(a)
            N == Len(b)
            mid == ChecksumUpdate(sum, a)
<1>0. M \in Nat /\ N \in Nat /\ Len(a \o b) = M + N /\ a \o b \in Seq(Int)
  BY Cat
<1>1. PICK f : /\ f[0] = sum /\ \A k \in 0 .. M : f[k] \in Int
               /\ \A k \in 1 .. M : f[k] = 10 * f[k - 1] + a[k]
               /\ mid = f[M]
  BY ChecksumSteps
<1>2. mid \in Int
  <2>. HIDE DEF mid
  <2>. QED  BY <1>0, <1>1
<1>. HIDE DEF mid
<1>3. PICK g : /\ g[0] = mid /\ \A k \in 0 .. N : g[k] \in Int
               /\ \A k \in 1 .. N : g[k] = 10 * g[k - 1] + b[k]
               /\ ChecksumUpdate(mid, b) = g[N]
  BY <1>2, ChecksumSteps
<1>. DEFINE h == [k \in 0 .. M + N |-> IF k <= M THEN f[k] ELSE g[k - M]]
<1>4. h[0] = sum
  BY <1>0, <1>1
<1>5. \A k \in M .. M + N : h[k] = g[k - M]
  <2>. SUFFICES ASSUME NEW k \in M .. M + N PROVE h[k] = g[k - M]
    OBVIOUS
  <2>1. CASE k = M
    BY <1>0, <1>1, <1>3, <2>1
  <2>2. CASE k # M
    <3>1. k \in 0 .. M + N /\ ~(k <= M)
      BY <1>0, <2>2
    <3>. QED  BY <3>1
  <2>. QED  BY <2>1, <2>2
<1>6. \A k \in 1 .. M + N : h[k] = 10 * h[k - 1] + (a \o b)[k]
  <2>. SUFFICES ASSUME NEW k \in 1 .. M + N PROVE h[k] = 10 * h[k - 1] + (a \o b)[k]
    OBVIOUS
  <2>1. CASE k <= M
    <3>1. k \in 1 .. M /\ k - 1 \in 0 .. M /\ k - 1 <= M
      BY <1>0, <2>1
    <3>2. (a \o b)[k] = a[k]
      BY <1>0, <3>1, ConcatProperties
    <3>3. h[k] = f[k] /\ h[k - 1] = f[k - 1]
      BY <1>0, <3>1
    <3>. HIDE DEF h
    <3>. QED  BY <1>1, <3>1, <3>2, <3>3
  <2>2. CASE ~(k <= M)
    <3>1. k \in M .. M + N /\ k - 1 \in M .. M + N /\ k - M \in 1 .. N
          /\ (k - 1) - M = (k - M) - 1 /\ (k - M) - 1 \in 0 .. N
      BY <1>0, <2>2
    <3>2. (a \o b)[k] = b[k - M]
      BY <1>0, <2>2, ConcatProperties
    <3>3. h[k] = g[k - M] /\ h[k - 1] = g[(k - M) - 1]
      <4>. HIDE DEF h, M
      <4>. QED  BY <1>5, <3>1
    <3>4. g[k - M] = 10 * g[(k - M) - 1] + b[k - M]
      BY <1>3, <3>1
    <3>. HIDE DEF h
    <3>. QED  BY <3>2, <3>3, <3>4
  <2>. QED  BY <2>1, <2>2
<1>7. ChecksumUpdate(sum, a \o b) = h[M + N]
  <2>. HIDE DEF h
  <2>. QED  BY <1>0, <1>4, <1>6, ChecksumIs
<1>8. h[M + N] = g[N]
  <2>1. M + N \in M .. M + N /\ (M + N) - M = N
    BY <1>0
  <2>. HIDE DEF h, M, N
  <2>. QED  BY <1>5, <2>1
<1>. QED  BY <1>2, <1>3, <1>7, <1>8 DEF mid

\* A sequence cut in two.
LEMMA Cut ==
    ASSUME NEW S, NEW s, NEW k, s \in Seq(S), k \in 0 .. Len(s)
    PROVE  /\ Take(s, k) \in Seq(S) /\ Len(Take(s, k)) = k
           /\ Drop(s, k) \in Seq(S) /\ Len(Drop(s, k)) = Len(s) - k
           /\ Take(s, k) \o Drop(s, k) = s
<1>0. Len(s) \in Nat /\ k \in Nat /\ k <= Len(s) /\ \A i \in 1 .. Len(s) : s[i] \in S
  OBVIOUS
<1>1. Take(s, k) \in Seq(S) /\ Len(Take(s, k)) = k
  <2>1. \A i \in 1 .. k : s[i] \in S
    BY <1>0
  <2>. QED  BY <1>0, <2>1, SubSeqProperties DEF Take
<1>2. Drop(s, k) \in Seq(S) /\ Len(Drop(s, k)) = Len(s) - k
  <2>1. \A i \in k + 1 .. Len(s) : s[i] \in S
    BY <1>0
  <2>2. k + 1 \in Int /\ Len(s) \in Int
    BY <1>0
  <2>3. Drop(s, k) \in Seq(S) /\ Len(Drop(s, k)) = IF k + 1 <= Len(s) THEN Len(s) - (k + 1) + 1 ELSE 0
    BY <2>1, <2>2, SubSeqProperties, SMTT(40) DEF Drop
  <2>. QED  BY <1>0, <2>3
<1>3. Take(s, k) \o Drop(s, k) = s
  <2>1. 1 \in 1 .. Len(s) + 1 /\ k \in 1 - 1 .. Len(s) /\ Len(s) \in k .. Len(s)
    BY <1>0
  <2>2. SubSeq(s, 1, k) \o SubSeq(s, k + 1, Len(s)) = SubSeq(s, 1, Len(s))
    BY <2>1, ConcatAdjacentSubSeq
  <2>3. SubSeq(s, 1, Len(s)) = s
    BY SubSeqFull
  <2>. QED  BY <2>2, <2>3 DEF Take, Drop
<1>. QED  BY <1>1, <1>2, <1>3

\* A sequence is cut at its ends.
LEMMA CutEnds ==
    ASSUME NEW S, NEW s, s \in Seq(S)
    PROVE  /\ Take(s, 0) = <<>> /\ Drop(s, Len(s)) = <<>>
           /\ Take(s, Len(s)) = s /\ Drop(s, 0) = s
<1>0. Len(s) \in Nat /\ 0 \in 0 .. Len(s) /\ Len(s) \in 0 .. Len(s)
  OBVIOUS
<1>1. Take(s, 0) = <<>>
  BY SubSeqEmpty DEF Take
<1>2. Drop(s, Len(s)) = <<>>
  BY <1>0, SubSeqEmpty DEF Drop
<1>3. Take(s, Len(s)) = s /\ Drop(s, 0) = s
  BY SubSeqFull DEF Take, Drop
<1>. QED  BY <1>1, <1>2, <1>3

\* The next n of a sequence of which k are gone.
Piece(s, k, n) == SubSeq(s, k + 1, k + n)

\* With what follows them they are what was left.
LEMMA CutAgain ==
    ASSUME NEW s, NEW k, NEW n, NEW m, s \in Seq(Token), k \in Nat, n \in Nat, m = k + n, m <= Len(s)
    PROVE  /\ Piece(s, k, n) \in Seq(Token) /\ Len(Piece(s, k, n)) = n
           /\ Piece(s, k, n) \o Drop(s, m) = Drop(s, k)
<1>0. Len(s) \in Nat /\ \A i \in 1 .. Len(s) : s[i] \in Token
  OBVIOUS
<1>1. SubSeq(s, k + 1, k + n) \in Seq(Token) /\ Len(SubSeq(s, k + 1, k + n)) = n
  <2>1. \A i \in k + 1 .. k + n : s[i] \in Token
    BY <1>0
  <2>2. k + 1 \in Int /\ k + n \in Int
    OBVIOUS
  <2>3. SubSeq(s, k + 1, k + n) \in Seq(Token)
        /\ Len(SubSeq(s, k + 1, k + n)) = IF k + 1 <= k + n THEN (k + n) - (k + 1) + 1 ELSE 0
    BY <2>1, <2>2, SubSeqProperties
  <2>. QED  BY <2>3
<1>2. SubSeq(s, k + 1, k + n) \o Drop(s, k + n) = Drop(s, k)
  <2>1. k + 1 \in 1 .. Len(s) + 1 /\ k + n \in (k + 1) - 1 .. Len(s) /\ Len(s) \in k + n .. Len(s)
    BY <1>0
  <2>. QED  BY <2>1, ConcatAdjacentSubSeq DEF Drop
<1>. QED  BY <1>1, <1>2 DEF Piece
\* The input of a stream, and what is offered of it after p bytes.
Input(n) == [i \in 1 .. n |-> i]
OfferedAfter(p, n) == [i \in 1 .. n |-> p + i]

\* ... are sequences of numbers.
LEMMA InputType ==
    ASSUME NEW n, n \in Nat
    PROVE  Input(n) \in Seq(Int) /\ Len(Input(n)) = n /\ Input(0) = <<>>
<1>1. Input(n) \in [1 .. n -> Int]
  BY DEF Input
<1>2. Input(n) \in Seq(Int) /\ Len(Input(n)) = n
  BY <1>1 DEF Input
<1>3. Input(0) = <<>>
  BY DEF Input
<1>. QED  BY <1>2, <1>3

\* So is what is offered.
LEMMA OfferedType ==
    ASSUME NEW p, NEW n, p \in Nat, n \in Nat
    PROVE  OfferedAfter(p, n) \in Seq(Int) /\ Len(OfferedAfter(p, n)) = n
<1>1. OfferedAfter(p, n) \in [1 .. n -> Int]
  BY DEF OfferedAfter
<1>. QED  BY <1>1 DEF OfferedAfter

\* The first k bytes offered are offered.
LEMMA TakeOffered ==
    ASSUME NEW p, NEW n, NEW k, p \in Nat, n \in Nat, k \in 0 .. n
    PROVE  Take(OfferedAfter(p, n), k) = OfferedAfter(p, k)
<1>. DEFINE s == OfferedAfter(p, n)
            L == Take(s, k)
            R == OfferedAfter(p, k)
<1>0. k \in Nat /\ s \in Seq(Int) /\ Len(s) = n
  BY OfferedType
<1>1. L \in Seq(Int) /\ Len(L) = k
  <2>. HIDE DEF s
  <2>1. k \in 0 .. Len(s) /\ s \in Seq(Int)
    BY <1>0
  <2>. QED  BY ONLY <2>1, Cut, Zenon
<1>2. R \in Seq(Int) /\ Len(R) = k
  BY <1>0, OfferedType
<1>3. ASSUME NEW i \in 1 .. k PROVE L[i] = R[i]
  <2>1. \A j \in 1 .. k : s[j] \in Int
    BY DEF OfferedAfter
  <2>2. L[i] = s[i]
    <3>. HIDE DEF s
    <3>1. \A j \in 1 .. k - 1 + 1 : SubSeq(s, 1, k)[j] = s[1 + j - 1]
      BY <1>0, <2>1, SubSeqProperties
    <3>2. i \in 1 .. k - 1 + 1 /\ 1 + i - 1 = i
      BY <1>0
    <3>. QED  BY <3>1, <3>2 DEF Take
  <2>3. s[i] = p + i /\ R[i] = p + i
    BY DEF OfferedAfter
  <2>. QED  BY <2>2, <2>3
<1>. HIDE DEF L, R
<1>4. L = R
  BY ONLY <1>1, <1>2, <1>3, SeqEqual
<1>. QED  BY <1>4 DEF L, R

\* The input so far and the bytes offered next are the input after them.
LEMMA InputGrows ==
    ASSUME NEW p, NEW n, p \in Nat, n \in Nat
    PROVE  Input(p) \o OfferedAfter(p, n) = Input(p + n)
<1>. DEFINE A == Input(p)
            B == OfferedAfter(p, n)
            R == Input(p + n)
<1>1. A \in Seq(Int) /\ Len(A) = p /\ B \in Seq(Int) /\ Len(B) = n
  BY InputType, OfferedType
<1>2. R \in Seq(Int) /\ Len(R) = p + n
  BY InputType
<1>3. \A i \in 1 .. p : A[i] = i
  BY DEF Input
<1>4. \A i \in 1 .. n : B[i] = p + i
  BY DEF OfferedAfter
<1>5. \A i \in 1 .. p + n : R[i] = i
  BY DEF Input
<1>. HIDE DEF A, B, R
<1>6. A \o B \in Seq(Int) /\ Len(A \o B) = p + n
  BY <1>1, Cat
<1>7. ASSUME NEW i \in 1 .. p + n PROVE (A \o B)[i] = R[i]
  <2>1. (A \o B)[i] = IF i <= p THEN A[i] ELSE B[i - p]
    BY <1>1, ConcatProperties
  <2>2. CASE i <= p
    <3>1. i \in 1 .. p
      BY <2>2
    <3>. QED  BY <1>3, <1>5, <2>1, <2>2, <3>1
  <2>3. CASE ~(i <= p)
    <3>1. i - p \in 1 .. n /\ p + (i - p) = i
      BY <2>3
    <3>. QED  BY <1>4, <1>5, <2>1, <2>3, <3>1
  <2>. QED  BY <2>2, <2>3
<1>8. A \o B = R
  BY ONLY <1>2, <1>6, <1>7, SeqEqual
<1>. QED  BY <1>8 DEF A, B, R

----------------------------------------------------------------------------
(***************************************************************************)
(* The library calls.  A set C of contexts that is closed under writing    *)
(* the buffers: whatever else C says of a context, the library keeps it.   *)
(***************************************************************************)
Holds(c, h, p, l, lv) == c.held = h /\ c.pend = p /\ c.lead = l /\ c.level = lv

Buffers(C) ==
    \A c \in C :
      /\ c.held \in Seq(Int) /\ c.pend \in Seq(Token) /\ c.lead \in Seq(Wrapper)
      /\ c.level \in Int
      /\ \A h \in Seq(Int) :
           /\ [c EXCEPT !.held = h] \in C
           /\ Holds([c EXCEPT !.held = h], h, c.pend, c.lead, c.level)
      /\ \A p \in Seq(Token) :
           /\ [c EXCEPT !.pend = p] \in C
           /\ Holds([c EXCEPT !.pend = p], c.held, p, c.lead, c.level)
      /\ \A p \in Seq(Token) :
           /\ [c EXCEPT !.held = <<>>, !.lead = <<>>, !.pend = p] \in C
           /\ Holds([c EXCEPT !.held = <<>>, !.lead = <<>>, !.pend = p], <<>>, p, <<>>, c.level)

\* What a context amounts to if it is closed now.
Image(c) == c.pend \o c.lead \o Compressed(c.held, c.level)

\* The buffers of a context.
LEMMA ContextParts ==
    ASSUME NEW C, NEW c, Buffers(C), c \in C
    PROVE  /\ c.held \in Seq(Int) /\ c.pend \in Seq(Token) /\ c.lead \in Seq(Wrapper)
           /\ c.lead \in Seq(Token) /\ c.level \in Int
           /\ Compressed(c.held, c.level) \in Seq(Token)
           /\ c.pend \o c.lead \in Seq(Token) /\ Image(c) \in Seq(Token)
<1>1. /\ c.held \in Seq(Int) /\ c.pend \in Seq(Token) /\ c.lead \in Seq(Wrapper)
      /\ c.level \in Int
  BY Zenon DEF Buffers
<1>. DEFINE h == c.held
            p == c.pend
            l == c.lead
            lv == c.level
            Z == Compressed(h, lv)
<1>2. h \in Seq(Int) /\ p \in Seq(Token) /\ l \in Seq(Wrapper) /\ lv \in Int
  BY <1>1
<1>. HIDE DEF h, p, l, lv
<1>3. l \in Seq(Token)
  BY <1>2, WrappersAreTokens
<1>4. Z \in Seq(Token)
  BY <1>2, CompressedType
<1>. HIDE DEF Z
<1>5. p \o l \in Seq(Token)
  BY ONLY <1>2, <1>3, Cat, Zenon
<1>6. (p \o l) \o Z \in Seq(Token)
  BY ONLY <1>4, <1>5, Cat, Zenon
<1>. QED  BY <1>2, <1>3, <1>4, <1>5, <1>6 DEF h, p, l, lv, Z, Image

\* Closing a block puts its image into the output that waits.
LEMMA CloseBlockOk ==
    ASSUME NEW C, NEW c, NEW mark, Buffers(C), c \in C, mark \in Seq(Token)
    PROVE  /\ CloseBlock(c, mark) \in C
           /\ Holds(CloseBlock(c, mark), <<>>, Image(c) \o mark, <<>>, c.level)
           /\ Image(CloseBlock(c, mark)) = Image(c) \o mark
<1>. DEFINE p == Image(c) \o mark
            e == [c EXCEPT !.held = <<>>, !.lead = <<>>, !.pend = p]
<1>1. Image(c) \in Seq(Token) /\ c.level \in Int
  BY ContextParts
<1>2. p \in Seq(Token)
  BY ONLY <1>1, mark \in Seq(Token), Cat
<1>3. CloseBlock(c, mark) = e
  BY DEF CloseBlock, Image
<1>. HIDE DEF p
<1>4. e \in C /\ Holds(e, <<>>, p, <<>>, c.level)
  BY <1>2, Zenon DEF Buffers
<1>. HIDE DEF e
<1>5. Image(e) = p \o <<>> \o Compressed(<<>>, c.level)
  BY <1>4 DEF Image, Holds
<1>6. Compressed(<<>>, c.level) = <<>>
  BY <1>1, CompressedEmpty
<1>7. p \o <<>> = p
  BY <1>2, Unit
<1>. QED  BY <1>3, <1>4, <1>5, <1>6, <1>7 DEF p

\* More held back is more to come.
LEMMA HeldOk ==
    ASSUME NEW C, NEW c, NEW h, Buffers(C), c \in C, h \in Seq(Int)
    PROVE  /\ [c EXCEPT !.held = h] \in C
           /\ Holds([c EXCEPT !.held = h], h, c.pend, c.lead, c.level)
           /\ Image([c EXCEPT !.held = h]) = c.pend \o c.lead \o Compressed(h, c.level)
<1>. DEFINE e == [c EXCEPT !.held = h]
<1>1. e \in C /\ Holds(e, h, c.pend, c.lead, c.level)
  BY Zenon DEF Buffers
<1>. HIDE DEF e
<1>2. Image(e) = c.pend \o c.lead \o Compressed(h, c.level)
  BY <1>1 DEF Image, Holds
<1>. QED  BY <1>1, <1>2 DEF e

\* Input absorbed is input whose image comes last.
LEMMA AbsorbOk ==
    ASSUME NEW C, NEW c, NEW b, Buffers(C), c \in C, b \in Seq(Int)
    PROVE  /\ Absorb(c, b) \in C /\ Absorb(c, b).level = c.level
           /\ Image(Absorb(c, b)) = Image(c) \o Compressed(b, c.level)
<1>. DEFINE lv == c.level
            all == c.held \o b
            q == c.pend \o c.lead
            full == (Len(all) \div Block) * Block
<1>0. c.held \in Seq(Int) /\ q \in Seq(Token) /\ lv \in Int
  BY ContextParts
<1>1. all \in Seq(Int) /\ Len(all) \in Nat
  <2>. DEFINE h == c.held
  <2>1. h \in Seq(Int)
    BY <1>0
  <2>. HIDE DEF h
  <2>2. h \o b \in Seq(Int)
    BY <2>1, Cat
  <2>. QED  BY <2>2 DEF h
<1>2. q \o Compressed(all, lv) = Image(c) \o Compressed(b, lv)
  <2>. DEFINE h == c.held
              X == Compressed(h, lv)
              Y == Compressed(b, lv)
  <2>1. h \in Seq(Int)
    BY <1>0
  <2>2. X \in Seq(Token) /\ Y \in Seq(Token)
    BY <1>0, CompressedType
  <2>3. Compressed(all, lv) = X \o Y
    BY <1>0, CompressedConcat, SMTT(40)
  <2>4. Image(c) = q \o X
    BY DEF Image
  <2>. HIDE DEF X, Y, q, all, h, lv
  <2>5. (q \o X) \o Y = q \o (X \o Y)
    BY ONLY <1>0, <2>2, Assoc, SMTT(40)
  <2>. QED  BY <2>3, <2>4, <2>5 DEF Y
<1>3. CASE full = 0
  <2>1. Absorb(c, b) = [c EXCEPT !.held = all]
    BY <1>3 DEF Absorb
  <2>. HIDE DEF all, full
  <2>2. /\ [c EXCEPT !.held = all] \in C
        /\ Holds([c EXCEPT !.held = all], all, c.pend, c.lead, c.level)
        /\ Image([c EXCEPT !.held = all]) = c.pend \o c.lead \o Compressed(all, c.level)
    BY <1>1, HeldOk
  <2>. QED  BY <1>2, <2>1, <2>2 DEF Holds
<1>4. CASE full # 0
  <2>. DEFINE a == Take(all, full)
              r == Drop(all, full)
              e == [c EXCEPT !.held = a]
              f == CloseBlock(e, <<>>)
              g == [f EXCEPT !.held = r]
  <2>1. Absorb(c, b) = g
    BY <1>4 DEF Absorb
  <2>2. full \in 0 .. Len(all)
    <3>. DEFINE n == Len(all)
    <3>1. n \in Nat /\ Block \in Nat /\ Block > 0
      BY <1>1, BlockAssumption
    <3>. HIDE DEF n, all
    <3>2. (n \div Block) * Block \in 0 .. n
      <4>1. n \div Block \in Nat /\ n % Block \in Nat /\ n = Block * (n \div Block) + (n % Block)
        BY <3>1
      <4>. DEFINE d == n \div Block
                  m == n % Block
      <4>. HIDE DEF d, m
      <4>2. d \in Nat /\ m \in Nat /\ n = Block * d + m
        BY <4>1 DEF d, m
      <4>3. d * Block = Block * d /\ Block * d \in Nat
        BY <3>1, <4>2
      <4>4. d * Block \in 0 .. n
        BY <3>1, <4>2, <4>3
      <4>. QED  BY <4>4 DEF d
    <3>. QED  BY <3>2 DEF n
  <2>. HIDE DEF all, full
  <2>3. a \in Seq(Int) /\ r \in Seq(Int) /\ a \o r = all
    BY ONLY <1>1, <2>2, Cut, Zenon
  <2>. HIDE DEF a, r
  <2>4. e \in C /\ Holds(e, a, c.pend, c.lead, c.level) /\ Image(e) = q \o Compressed(a, lv)
    BY <2>3, HeldOk
  <2>. HIDE DEF e
  <2>5. <<>> \in Seq(Token)
    OBVIOUS
  <2>6. f \in C /\ Holds(f, <<>>, Image(e) \o <<>>, <<>>, e.level)
    BY <2>4, <2>5, CloseBlockOk
  <2>7. Image(e) \o <<>> = Image(e) /\ Image(e) \in Seq(Token) /\ e.level = lv
    <3>1. Image(e) \in Seq(Token)
      BY <2>4, ContextParts
    <3>. HIDE DEF lv
    <3>2. Image(e) \o <<>> = Image(e)
      BY ONLY <3>1, Unit, Zenon
    <3>. QED  BY <2>4, <3>1, <3>2 DEF Holds, lv
  <2>. HIDE DEF f
  <2>8. /\ g \in C /\ Holds(g, r, f.pend, f.lead, f.level)
        /\ Image(g) = f.pend \o f.lead \o Compressed(r, f.level)
    BY <2>3, <2>6, HeldOk
  <2>9. f.pend = Image(e) /\ f.lead = <<>> /\ f.level = lv
    BY <2>6, <2>7 DEF Holds
  <2>. HIDE DEF g, lv, q
  <2>10. Image(e) \o <<>> \o Compressed(r, lv) = q \o Compressed(all, lv)
    <3>. DEFINE X == Compressed(a, lv)
                Y == Compressed(r, lv)
    <3>1. X \in Seq(Token) /\ Y \in Seq(Token)
      BY <1>0, <2>3, CompressedType
    <3>2. Compressed(all, lv) = X \o Y
      <4>1. Compressed(a \o r, lv) = X \o Y
        <5>1. a \in Seq(Int) /\ r \in Seq(Int) /\ lv \in Int
          BY <1>0, <2>3
        <5>. QED  BY ONLY <5>1, CompressedConcat
      <4>. QED  BY <2>3, <4>1
    <3>. HIDE DEF X, Y
    <3>3. (q \o X) \o Y = q \o (X \o Y)
      BY ONLY <1>0, <3>1, Assoc, SMTT(40)
    <3>4. Image(e) = q \o X
      BY <2>4 DEF X
    <3>. QED  BY <2>7, <3>2, <3>3, <3>4 DEF Y
  <2>11. Image(g) = Image(c) \o Compressed(b, lv)
    BY <1>2, <2>8, <2>9, <2>10
  <2>. QED  BY <2>1, <2>8, <2>9, <2>11 DEF Holds, lv
<1>. QED  BY <1>3, <1>4
(***************************************************************************)
(* One library call: what it has delivered and what it amounts to is what  *)
(* it amounted to before, and the input it used.                           *)
(***************************************************************************)
Calls(C) == [c : C, used : Nat, bytes : Seq(Token)]

\* The parts of a call.
LEMMA CallParts ==
    ASSUME NEW C, NEW d, d \in Calls(C)
    PROVE  /\ d.c \in C /\ d.used \in Nat /\ d.bytes \in Seq(Token) /\ Len(d.bytes) \in Nat
           /\ d = [c |-> d.c, used |-> d.used, bytes |-> d.bytes]
<1>1. d.c \in C /\ d.used \in Nat /\ d.bytes \in Seq(Token)
  BY DEF Calls
<1>2. d = [c |-> d.c, used |-> d.used, bytes |-> d.bytes]
  BY DEF Calls
<1>3. Len(d.bytes) \in Nat
  BY <1>1
<1>. QED  BY <1>1, <1>2, <1>3

\* A call with another context.
LEMMA CallWith ==
    ASSUME NEW C, NEW d, NEW e, d \in Calls(C)
    PROVE  [d EXCEPT !.c = e] = [c |-> e, used |-> d.used, bytes |-> d.bytes]
BY DEF Calls

\* The element of a singleton.
LEMMA OnlyOne ==
    ASSUME NEW x
    PROVE  Only({x}) = x
BY DEF Only

\* Waiting output moves to the window as far as it has room.
Delivered(d, r, room) ==
    /\ Len(r.bytes) <= room /\ Len(r.bytes) >= Len(d.bytes)
    /\ r.used = d.used
    /\ r.bytes \o Image(r.c) = d.bytes \o Image(d.c)
    /\ r.c.held = d.c.held /\ r.c.lead = d.c.lead /\ r.c.level = d.c.level
    /\ r.c.pend # <<>> => Len(r.bytes) = room
    /\ d.c.pend # <<>> /\ Len(d.bytes) < room => Len(r.bytes) > Len(d.bytes)

\* Delivering keeps the context in its set.
LEMMA DeliverOk ==
    ASSUME NEW C, NEW d, NEW room, Buffers(C), d \in Calls(C), room \in Nat,
           Len(d.bytes) <= room
    PROVE  /\ Deliver(d, room) \in Calls(C)
           /\ Delivered(d, Deliver(d, room), room)
<1>. DEFINE c == d.c
            p == c.pend
            s == d.bytes
            k == Least(Len(p), room - Len(s))
            e == [c EXCEPT !.pend = Drop(p, k)]
            r == [c |-> e, used |-> d.used, bytes |-> s \o Take(p, k)]
<1>0. /\ c \in C /\ d.used \in Nat /\ s \in Seq(Token) /\ Len(s) \in Nat
      /\ d = [c |-> d.c, used |-> d.used, bytes |-> d.bytes]
  BY CallParts
<1>1. /\ p \in Seq(Token) /\ c.held \in Seq(Int) /\ c.lead \in Seq(Token) /\ c.level \in Int
      /\ Compressed(c.held, c.level) \in Seq(Token)
  BY <1>0, ContextParts
<1>2. Deliver(d, room) = r
  <2>. DEFINE Fill(x) == [x EXCEPT !.bytes = @ \o Take(x.c.pend, Least(Len(x.c.pend), room - Len(x.bytes))),
                                   !.c.pend = Drop(x.c.pend, Least(Len(x.c.pend), room - Len(x.bytes)))]
  <2>1. Deliver(d, room) = Only({Fill(x) : x \in {d}})
    BY DEF Deliver
  <2>2. {Fill(x) : x \in {d}} = {Fill(d)}
    <3>. HIDE DEF Fill
    <3>. QED  OBVIOUS
  <2>3. Fill(d) = [d EXCEPT !.bytes = s \o Take(p, k), !.c.pend = Drop(p, k)]
    BY <1>0
  <2>4. [d EXCEPT !.bytes = s \o Take(p, k), !.c.pend = Drop(p, k)] = r
    <3>. DEFINE b == s \o Take(p, k)
                q == Drop(p, k)
    <3>. HIDE DEF b, q
    <3>. DEFINE x == [d EXCEPT !.bytes = b]
                y == [c EXCEPT !.pend = q]
    <3>1. x = [c |-> c, used |-> d.used, bytes |-> b]
      BY <1>0
    <3>2. [d EXCEPT !.bytes = b, !.c.pend = q] = [x EXCEPT !.c.pend = q]
      OBVIOUS
    <3>. HIDE DEF x
    <3>3. [x EXCEPT !.c.pend = q] = [x EXCEPT !.c = [x.c EXCEPT !.pend = q]]
      OBVIOUS
    <3>4. [x.c EXCEPT !.pend = q] = y
      BY <3>1
    <3>. HIDE DEF y
    <3>5. [x EXCEPT !.c = y] = [c |-> y, used |-> d.used, bytes |-> b]
      BY <3>1
    <3>. QED  BY <3>2, <3>3, <3>4, <3>5 DEF b, q, y
  <2>. HIDE DEF Fill, r
  <2>. QED  BY <2>1, <2>2, <2>3, <2>4, OnlyOne
<1>3. /\ k \in 0 .. Len(p) /\ Len(p) \in Nat /\ k \in Nat /\ Len(s) + k <= room
      /\ k = Len(p) \/ Len(s) + k = room
  <2>. DEFINE m == Len(p)
              n == Len(s)
  <2>1. m \in Nat /\ n \in Nat /\ n <= room /\ k = Least(m, room - n)
    BY <1>0, <1>1
  <2>. HIDE DEF m, n, k, p, s
  <2>2. k \in 0 .. m /\ k \in Nat /\ n + k <= room /\ (k = m \/ n + k = room)
    BY <2>1 DEF Least
  <2>. QED  BY <2>1, <2>2 DEF m, n
<1>. DEFINE t == Take(p, k)
            u == Drop(p, k)
<1>. HIDE DEF k, s, p
<1>4. t \in Seq(Token) /\ Len(t) = k /\ u \in Seq(Token) /\ Len(u) = Len(p) - k /\ t \o u = p
  <2>1. p \in Seq(Token) /\ k \in 0 .. Len(p)
    BY <1>1, <1>3
  <2>. QED  BY ONLY <2>1, Cut, SMTT(40)
<1>5. e \in C /\ Holds(e, c.held, u, c.lead, c.level)
  BY <1>0, <1>4, Zenon DEF Buffers
<1>. HIDE DEF t, u
<1>6. s \o t \in Seq(Token) /\ Len(s \o t) = Len(s) + k
  <2>1. s \in Seq(Token) /\ t \in Seq(Token)
    BY <1>0, <1>4
  <2>2. s \o t \in Seq(Token) /\ Len(s \o t) = Len(s) + Len(t)
    BY ONLY <2>1, Cat, Zenon
  <2>. QED  BY <1>4, <2>2
<1>7. r = [c |-> e, used |-> d.used, bytes |-> s \o t]
  BY DEF t
<1>. HIDE DEF e
<1>8. r \in Calls(C)
  <2>. DEFINE b == s \o t
  <2>1. b \in Seq(Token)
    BY <1>6
  <2>. HIDE DEF b
  <2>2. [c |-> e, used |-> d.used, bytes |-> b] \in Calls(C)
    BY <1>0, <1>5, <2>1 DEF Calls
  <2>. QED  BY <1>7, <2>2 DEF b
<1>9. r.c = e /\ r.used = d.used /\ r.bytes = s \o t
  BY <1>7
<1>. HIDE DEF r
<1>10. (s \o t) \o Image(e) = s \o Image(c)
  <2>. DEFINE l == c.lead
              z == Compressed(c.held, c.level)
  <2>1. Image(e) = (u \o l) \o z
    BY <1>5 DEF Image, Holds
  <2>2. Image(c) = (p \o l) \o z
    BY DEF Image, p
  <2>3. l \in Seq(Token) /\ z \in Seq(Token) /\ u \in Seq(Token) /\ t \in Seq(Token)
        /\ s \in Seq(Token) /\ p = t \o u
    BY <1>0, <1>1, <1>4
  <2>. HIDE DEF l, z, e, c
  <2>4. l \in Seq(Token) /\ z \in Seq(Token) /\ u \in Seq(Token) /\ t \in Seq(Token)
        /\ s \in Seq(Token)
    BY <2>3
  <2>. DEFINE m == u \o l
              w == m \o z
  <2>5. m \in Seq(Token)
    BY ONLY <2>4, Cat, Zenon
  <2>6. (t \o u) \o l = t \o m
    BY ONLY <2>4, Assoc, SMTT(40)
  <2>. HIDE DEF m
  <2>7. w \in Seq(Token)
    BY ONLY <2>4, <2>5, Cat, Zenon
  <2>8. (t \o m) \o z = t \o w
    BY ONLY <2>4, <2>5, Assoc, SMTT(40)
  <2>. HIDE DEF w
  <2>9. (s \o t) \o w = s \o (t \o w)
    BY ONLY <2>4, <2>7, Assoc, SMTT(40)
  <2>. QED  BY <2>1, <2>2, <2>3, <2>6, <2>8, <2>9 DEF m, w
<1>11. u # <<>> => Len(u) # 0
  BY <1>4
<1>12. p # <<>> => Len(p) # 0
  BY <1>1 DEF p
<1>13. Len(r.bytes) <= room /\ Len(r.bytes) >= Len(s)
  BY <1>0, <1>3, <1>6, <1>9
<1>14. r.c.held = c.held /\ r.c.lead = c.lead /\ r.c.level = c.level /\ r.c.pend = u
  BY <1>5, <1>9 DEF Holds
<1>15. u # <<>> => Len(r.bytes) = room
  BY <1>3, <1>4, <1>6, <1>9, <1>11
<1>16. p # <<>> /\ Len(s) < room => Len(r.bytes) > Len(s)
  BY <1>0, <1>3, <1>6, <1>9, <1>12
<1>17. Delivered(d, r, room)
  BY <1>9, <1>10, <1>13, <1>14, <1>15, <1>16 DEF Delivered, s, p
<1>. QED  BY <1>2, <1>8, <1>17
\* A call of Pump after k of its turns.
PumpedTo(k, c, bytes, room, d) ==
    /\ Len(d.bytes) <= room
    /\ d.used <= k
    /\ d.bytes \o Image(d.c) = Image(c) \o Compressed(Take(bytes, d.used), c.level)
    /\ d.c.level = c.level
    /\ d.c.pend # <<>> => Len(d.bytes) = room
    /\ d.c.pend = <<>> => d.used = k
    /\ c.pend # <<>> /\ room > 0 => Len(d.bytes) > 0
    /\ d.used = 0 => d.c.held = c.held /\ d.c.lead = c.lead

\* One turn of Pump.
PumpTurn(d, bytes, room) ==
    IF d.c.pend # <<>> THEN d
    ELSE Deliver([d EXCEPT !.c = Absorb(d.c, <<bytes[d.used + 1]>>), !.used = @ + 1], room)

\* What waits goes first.
LEMMA PumpStarts ==
    ASSUME NEW C, NEW c, NEW bytes, NEW room, Buffers(C), c \in C, bytes \in Seq(Int), room \in Nat
    PROVE  /\ Deliver(Started(c), room) \in Calls(C)
           /\ PumpedTo(0, c, bytes, room, Deliver(Started(c), room))
<1>. DEFINE d == Started(c)
            r == Deliver(d, room)
<1>1. <<>> \in Seq(Token)
  OBVIOUS
<1>2. d \in Calls(C)
  BY <1>1 DEF Started, Calls
<1>3. d.c = c /\ d.used = 0 /\ d.bytes = <<>> /\ Len(d.bytes) = 0
  BY DEF Started
<1>. HIDE DEF d
<1>4. r \in Calls(C) /\ Delivered(d, r, room)
  BY <1>2, <1>3, DeliverOk
<1>5. Image(c) \in Seq(Token) /\ c.level \in Int
  BY ContextParts
<1>6. <<>> \o Image(c) = Image(c) /\ Image(c) \o <<>> = Image(c)
  BY ONLY <1>5, Unit, Zenon
<1>7. Take(bytes, 0) = <<>> /\ Compressed(<<>>, c.level) = <<>>
  BY <1>5, CutEnds, CompressedEmpty
<1>. HIDE DEF r
<1>8. r.bytes \o Image(r.c) = Image(c) \o Compressed(Take(bytes, r.used), c.level)
  BY <1>3, <1>4, <1>6, <1>7 DEF Delivered
<1>9. PumpedTo(0, c, bytes, room, r)
  <2>1. Len(r.bytes) <= room /\ r.used = 0 /\ r.c.level = c.level
        /\ r.c.held = c.held /\ r.c.lead = c.lead /\ (r.c.pend # <<>> => Len(r.bytes) = room)
    BY <1>3, <1>4 DEF Delivered
  <2>2. c.pend # <<>> /\ room > 0 => Len(r.bytes) > 0
    BY <1>3, <1>4 DEF Delivered
  <2>. QED  BY <1>8, <2>1, <2>2 DEF PumpedTo
<1>. QED  BY <1>4, <1>9 DEF r, d

\* A turn takes one byte, or waits.
LEMMA PumpGoesOn ==
    ASSUME NEW C, NEW c, NEW bytes, NEW room, Buffers(C), c \in C, bytes \in Seq(Int), room \in Nat,
           NEW k, NEW d, k \in 1 .. Len(bytes), d \in Calls(C), PumpedTo(k - 1, c, bytes, room, d)
    PROVE  /\ PumpTurn(d, bytes, room) \in Calls(C)
           /\ PumpedTo(k, c, bytes, room, PumpTurn(d, bytes, room))
<1>0. /\ d.c \in C /\ d.used \in Nat /\ d.bytes \in Seq(Token) /\ Len(d.bytes) \in Nat
      /\ d = [c |-> d.c, used |-> d.used, bytes |-> d.bytes]
  BY CallParts
<1>1. Len(bytes) \in Nat /\ k \in Nat /\ k > 0 /\ bytes[k] \in Int /\ k - 1 \in Nat
  OBVIOUS
<1>2. CASE d.c.pend # <<>>
  <2>1. PumpTurn(d, bytes, room) = d
    BY <1>2 DEF PumpTurn
  <2>2. d.used <= k
    BY <1>0, <1>1 DEF PumpedTo
  <2>. QED  BY <1>2, <2>1, <2>2 DEF PumpedTo
<1>3. CASE d.c.pend = <<>>
  <2>. DEFINE b == <<bytes[k]>>
              A == Absorb(d.c, b)
              x == [c |-> A, used |-> k, bytes |-> d.bytes]
              r == Deliver(x, room)
              lv == c.level
  <2>0. d.used = k - 1 /\ (k - 1) + 1 = k
    BY <1>1, <1>3 DEF PumpedTo
  <2>1. b \in Seq(Int)
    BY <1>1
  <2>2. PumpTurn(d, bytes, room) = r
    <3>1. [d EXCEPT !.c = A, !.used = @ + 1] = x
      <4>. HIDE DEF A
      <4>1. [d EXCEPT !.c = A, !.used = k] = [c |-> A, used |-> k, bytes |-> d.bytes]
        <5>. DEFINE y == [d EXCEPT !.c = A]
                    s == d.bytes
                    u == d.used
        <5>1. [d EXCEPT !.c = A, !.used = k] = [y EXCEPT !.used = k]
          OBVIOUS
        <5>2. y = [c |-> A, used |-> u, bytes |-> s]
          BY CallWith
        <5>. HIDE DEF y, s, u
        <5>3. [y EXCEPT !.used = k] = [c |-> A, used |-> k, bytes |-> s]
          BY ONLY <5>2
        <5>. QED  BY <5>1, <5>3 DEF s
      <4>2. d.used + 1 = k
        BY <2>0
      <4>. QED  BY <4>1, <4>2
    <3>2. PumpTurn(d, bytes, room) = Deliver([d EXCEPT !.c = Absorb(d.c, <<bytes[k]>>), !.used = @ + 1], room)
      BY <1>3, <2>0 DEF PumpTurn
    <3>. QED  BY <3>1, <3>2
  <2>3. d.c.level = lv /\ Len(d.bytes) <= room
        /\ d.bytes \o Image(d.c) = Image(c) \o Compressed(Take(bytes, k - 1), lv)
        /\ (c.pend # <<>> /\ room > 0 => Len(d.bytes) > 0)
    BY <2>0 DEF PumpedTo
  <2>. HIDE DEF b
  <2>4. A \in C /\ A.level = lv /\ Image(A) = Image(d.c) \o Compressed(b, lv)
    BY <1>0, <2>1, <2>3, AbsorbOk
  <2>. HIDE DEF A
  <2>5. x \in Calls(C)
    BY <1>0, <1>1, <2>4 DEF Calls
  <2>6. x.c = A /\ x.used = k /\ x.bytes = d.bytes
    OBVIOUS
  <2>. HIDE DEF x
  <2>7. Len(x.bytes) <= room
    BY <2>3, <2>6
  <2>8. r \in Calls(C) /\ Delivered(x, r, room)
    BY <2>5, <2>7, DeliverOk
  <2>. HIDE DEF r
  <2>9. r.used = k
    BY <2>6, <2>8 DEF Delivered
  <2>10. d.bytes \o Image(A) = Image(c) \o Compressed(Take(bytes, k), lv)
    <3>. DEFINE s == d.bytes
                I == Image(d.c)
                J == Image(c)
                t == Take(bytes, k - 1)
                X == Compressed(t, lv)
                Y == Compressed(b, lv)
    <3>1. lv \in Int /\ J \in Seq(Token)
      BY ContextParts
    <3>2. I \in Seq(Token)
      BY <1>0, ContextParts
    <3>3. t \in Seq(Int)
      <4>1. k - 1 \in 0 .. Len(bytes)
        BY <1>1
      <4>. QED  BY <4>1, Cut
    <3>4. Take(bytes, k) = t \o b
      <4>1. 1 \in 1 .. Len(bytes) /\ k \in 1 .. Len(bytes)
        BY <1>1
      <4>. QED  BY <4>1, SubSeqRecursiveSecond DEF Take, b
    <3>. HIDE DEF t, lv
    <3>5. X \in Seq(Token) /\ Y \in Seq(Token)
      BY <2>1, <3>1, <3>3, CompressedType
    <3>6. Compressed(t \o b, lv) = X \o Y
      <4>1. lv \in Int
        BY <3>1
      <4>. QED  BY ONLY <2>1, <3>3, <4>1, CompressedConcat
    <3>7. s \in Seq(Token) /\ s \o I = J \o X /\ Image(A) = I \o Y
      BY <1>0, <2>3, <2>4 DEF t
    <3>. HIDE DEF s, I, J, X, Y
    <3>8. s \in Seq(Token)
      BY <3>7
    <3>9. (s \o I) \o Y = s \o (I \o Y)
      BY ONLY <3>2, <3>5, <3>8, Assoc, SMTT(40)
    <3>10. (J \o X) \o Y = J \o (X \o Y)
      BY ONLY <3>1, <3>5, Assoc, SMTT(40)
    <3>11. s \o Image(A) = J \o Compressed(Take(bytes, k), lv)
      BY <3>4, <3>6, <3>7, <3>9, <3>10
    <3>. QED  BY <3>11 DEF s, J
  <2>11. r.bytes \o Image(r.c) = Image(c) \o Compressed(Take(bytes, r.used), lv)
    BY <2>6, <2>8, <2>9, <2>10 DEF Delivered
  <2>12. r.c.level = lv /\ Len(r.bytes) <= room /\ (r.c.pend # <<>> => Len(r.bytes) = room)
    BY <2>4, <2>6, <2>8 DEF Delivered
  <2>13. c.pend # <<>> /\ room > 0 => Len(r.bytes) > 0
    <3>1. Len(r.bytes) >= Len(d.bytes) /\ Len(r.bytes) \in Nat
      BY <2>6, <2>8, CallParts DEF Delivered
    <3>. QED  BY <1>0, <2>3, <3>1
  <2>14. PumpedTo(k, c, bytes, room, r)
    BY <1>1, <2>9, <2>11, <2>12, <2>13 DEF PumpedTo
  <2>. QED  BY <2>2, <2>8, <2>14
<1>. QED  BY <1>2, <1>3

\* A call that takes what it can.
LEMMA PumpOk ==
    ASSUME NEW C, NEW c, NEW bytes, NEW room, Buffers(C), c \in C, bytes \in Seq(Int), room \in Nat
    PROVE  /\ Pump(c, bytes, room) \in Calls(C)
           /\ PumpedTo(Len(bytes), c, bytes, room, Pump(c, bytes, room))
<1>. DEFINE N == Len(bytes)
            a == Deliver(Started(c), room)
            T == [k \in 0 .. N |-> {d \in Calls(C) : PumpedTo(k, c, bytes, room, d)}]
            step == [k \in 1 .. N |-> [x \in T[k - 1] |-> PumpTurn(x, bytes, room)]]
            Body(g, k) == IF k = 0 THEN a ELSE Only({PumpTurn(d, bytes, room) : d \in {g[k - 1]}})
            turn == CHOOSE g : g = [k \in 0 .. N |-> Body(g, k)]
<1>0. N \in Nat
  OBVIOUS
<1>1. Pump(c, bytes, room) = turn[N]
  BY DEF Pump, PumpTurn
<1>2. \A k \in 0 .. N : T[k] = {d \in Calls(C) : PumpedTo(k, c, bytes, room, d)}
  OBVIOUS
<1>3. \A k \in 1 .. N : \A x \in T[k - 1] : step[k][x] = PumpTurn(x, bytes, room)
  <2>. HIDE DEF T
  <2>. QED  OBVIOUS
<1>4. a \in T[0]
  <2>1. 0 \in 0 .. N
    BY <1>0
  <2>2. a \in Calls(C) /\ PumpedTo(0, c, bytes, room, a)
    BY PumpStarts
  <2>. HIDE DEF a
  <2>. QED  BY <2>1, <2>2
<1>. HIDE DEF a
<1>5. StaysIn(T, N, step)
  <2>. HIDE DEF T, step
  <2>1. ASSUME NEW k \in 1 .. N, NEW x \in T[k - 1] PROVE step[k][x] \in T[k]
    <3>1. k \in 0 .. N /\ k - 1 \in 0 .. N
      BY <1>0
    <3>2. x \in Calls(C) /\ PumpedTo(k - 1, c, bytes, room, x)
      BY <1>2, <3>1
    <3>3. k \in 1 .. Len(bytes)
      OBVIOUS
    <3>. HIDE DEF N
    <3>4. PumpTurn(x, bytes, room) \in Calls(C) /\ PumpedTo(k, c, bytes, room, PumpTurn(x, bytes, room))
      BY <3>2, <3>3, PumpGoesOn
    <3>5. step[k][x] = PumpTurn(x, bytes, room)
      BY <1>3
    <3>. QED  BY <1>2, <3>1, <3>4, <3>5
  <2>. QED  BY <2>1 DEF StaysIn
<1>6. PICK g : Iterates(g, N, a, step) /\ \A k \in 0 .. N : g[k] \in T[k]
  <2>. HIDE DEF T, step, N
  <2>. QED  BY ONLY <1>0, <1>4, <1>5, IteratesExist
<1>. HIDE DEF step
<1>7. ASSUME NEW k \in 0 .. N PROVE g[k] = Body(g, k)
  <2>1. CASE k = 0
    BY <1>6, <2>1 DEF Iterates
  <2>2. CASE k # 0
    <3>1. k \in 1 .. N /\ k - 1 \in 0 .. N
      BY <1>0, <2>2
    <3>. DEFINE v == g[k - 1]
    <3>2. g[k] = step[k][v]
      BY <1>6, <2>2 DEF Iterates
    <3>3. v \in T[k - 1]
      <4>. HIDE DEF T
      <4>. QED  BY <1>6, <3>1
    <3>4. step[k][v] = PumpTurn(v, bytes, room)
      <4>. HIDE DEF T, v
      <4>. QED  BY <1>3, <3>1, <3>3
    <3>5. {PumpTurn(d, bytes, room) : d \in {v}} = {PumpTurn(v, bytes, room)}
      <4>. HIDE DEF v
      <4>. QED  OBVIOUS
    <3>6. Only({PumpTurn(d, bytes, room) : d \in {v}}) = PumpTurn(v, bytes, room)
      BY <3>5, OnlyOne
    <3>. QED  BY <2>2, <3>2, <3>4, <3>6
  <2>. QED  BY <2>1, <2>2
<1>8. g = [k \in 0 .. N |-> Body(g, k)]
  <2>1. g = [k \in 0 .. N |-> g[k]]
    BY <1>6 DEF Iterates
  <2>. HIDE DEF Body
  <2>. QED  BY <1>7, <2>1
<1>9. turn = [k \in 0 .. N |-> Body(turn, k)]
  <2>1. \E h : h = [k \in 0 .. N |-> Body(h, k)]
    <3>. HIDE DEF Body
    <3>. QED  BY <1>8
  <2>. QED  BY <2>1
<1>. HIDE DEF turn
<1>. DEFINE P == {k \in 0 .. N : turn[k] = g[k]}
<1>10. 0 \in P
  <2>1. 0 \in 0 .. N
    BY <1>0
  <2>2. turn[0] = a /\ g[0] = a
    BY <1>8, <1>9, <2>1
  <2>. QED  BY <2>1, <2>2
<1>11. ASSUME NEW k \in 0 .. N, k \in P, k < N PROVE k + 1 \in P
  <2>1. k + 1 \in 0 .. N /\ k + 1 # 0 /\ (k + 1) - 1 = k
    BY <1>0, <1>11
  <2>2. turn[k + 1] = Body(turn, k + 1) /\ g[k + 1] = Body(g, k + 1)
    <3>. HIDE DEF Body
    <3>. QED  BY <1>8, <1>9, <2>1
  <2>3. turn[k] = g[k]
    BY <1>11
  <2>. QED  BY <2>1, <2>2, <2>3
<1>12. N \in P
  <2>. HIDE DEF P, N
  <2>1. \A k \in 0 .. N : k \in P /\ k < N => k + 1 \in P
    BY <1>11
  <2>2. \A k \in 0 .. N : k \in P
    BY ONLY <1>0, <1>10, <2>1, UpTo
  <2>. QED  BY <1>0, <2>2
<1>13. turn[N] \in T[N]
  <2>1. N \in 0 .. N
    BY <1>0
  <2>. HIDE DEF T
  <2>. QED  BY <1>6, <1>12, <2>1
<1>14. turn[N] \in Calls(C) /\ PumpedTo(N, c, bytes, room, turn[N])
  <2>1. N \in 0 .. N
    BY <1>0
  <2>. HIDE DEF T
  <2>. QED  BY <1>2, <1>13, <2>1
<1>. QED  BY <1>1, <1>14
----------------------------------------------------------------------------
(***************************************************************************)
(* The invariant.  Of each codec it says what is on the wire, on its way   *)
(* and held back, against the stream to be produced, at every turn of the  *)
(* codec's loop: p bytes taken, o delivered, e the codec's state, fin      *)
(* whether the handle has seen the end.                                    *)
(***************************************************************************)
SumOf(n) == ChecksumUpdate(0, Input(n))

\* w is the stream s but for flush markers, which the one-shot loop never asks for.
Matches(w, s) == NoSyncMarks(w) = s /\ (job.driver = "one_shot" => w = s)

\* The end is announced, and all of the input taken.
Ending(p) == p = fed /\ flush = ZU_FINISH

MzContexts == [live : BOOLEAN, level : Int, lead : {<<>>}, held : Seq(Int),
               pend : Seq(Token), finishing : BOOLEAN]

DeflateStates ==
    [state : {"HEADER", "BODY", "TRAILER", "DONE"}, level : Int,
     hdr : Seq(Wrapper), hdr_pos : Nat, tail : Seq(Wrapper), tail_pos : Nat,
     checksum : Int, uncompressed : Int, mz : MzContexts]

\* The wrapper's head and the input at the level asked for.
DeflateBody(p) == HeaderBytes(asked) \o Compressed(Input(p), asked)

DeflateOk(p, o, e, fin) ==
    /\ e \in DeflateStates
    /\ e.level = asked
    /\ e.hdr = HeaderBytes(asked) /\ e.hdr_pos <= Len(e.hdr)
    /\ e.tail_pos <= Len(e.tail)
    /\ e.mz.live => e.mz.level = asked
    /\ job.driver # "caller" => e.mz.live
    /\ fin <=> e.state = "DONE"
    /\ e.state \in {"HEADER", "BODY"} /\ job.codec # "raw" =>
         e.checksum = SumOf(p) /\ e.uncompressed = p
    /\ e.state = "HEADER" =>
         /\ job.codec # "raw"
         /\ p = 0 /\ o = Take(e.hdr, e.hdr_pos)
         /\ e.mz.live => e.mz.held = <<>> /\ e.mz.pend = <<>> /\ ~e.mz.finishing
    /\ e.state = "BODY" /\ e.mz.live =>
         /\ Matches(o \o Image(e.mz),
                    IF e.mz.finishing THEN DeflateBody(p) \o <<LastBlock>> ELSE DeflateBody(p))
         /\ e.mz.finishing => e.mz.held = <<>> /\ e.mz.pend # <<>> /\ Ending(p)
    /\ e.state \in {"TRAILER", "DONE"} =>
         Ending(p) /\ e.mz.held = <<>> /\ e.mz.pend = <<>>
    /\ e.state = "TRAILER" =>
         /\ job.codec # "raw"
         /\ e.tail = TrailerBytes(SumOf(p), p)
         /\ Matches(o, DeflateBody(p) \o <<LastBlock>> \o Take(e.tail, e.tail_pos))
    /\ e.state = "DONE" => Matches(o, DeflateStream(p, asked))

FrameContexts == [level : Int, size : Nat, total : Nat, sum : Int,
                  lead : {<<>>}, held : Seq(Int), pend : Seq(Token)]

FrameStates ==
    [level : Int, size : Nat, started : BOOLEAN, ended : BOOLEAN, done : BOOLEAN,
     flushed : BOOLEAN, stage : Seq(Token), stage_pos : Nat, cctx : FrameContexts]

\* A frame's head and the input, and its end.
FrameBody(size, p) == << <<"frame", size, 0>> >> \o Compressed(Input(p), asked)
FrameTail(p) == << <<"endmark", 0, 0>>, <<"xxh", SumOf(p), 0>> >>
FrameSoFar(size, p, ended) ==
    IF ended THEN FrameBody(size, p) \o FrameTail(p) ELSE FrameBody(size, p)

FrameOk(p, o, e, fin) ==
    /\ e \in FrameStates
    /\ Lz4Level(e.level) = asked
    /\ e.stage_pos <= Len(e.stage)
    /\ e.cctx.pend = <<>>
    /\ fin <=> e.done
    /\ e.done => e.ended /\ e.stage = <<>>
    /\ e.ended => e.started
    /\ ~e.started => e.size = 0 /\ e.stage = <<>> /\ p = 0 /\ o = <<>>
    /\ e.size # 0 => e.size = fed /\ flush = ZU_FINISH
    /\ e.flushed => e.cctx.held = <<>> /\ p = fed

\* A frame whose begin did not fail.
FrameWire(p, o, e) ==
    e.started =>
      /\ e.cctx.level = asked /\ e.cctx.size = e.size /\ e.cctx.total = p
      /\ e.cctx.sum = SumOf(p)
      /\ o \o Drop(e.stage, e.stage_pos) \o Image(e.cctx) = FrameSoFar(e.size, p, e.ended)
      /\ e.ended => e.cctx.held = <<>> /\ Ending(p)

ZstdContexts == [param : Int, begun : BOOLEAN, level : Int, size : Int,
                 total : Nat, sum : Int, lead : Seq(Wrapper), held : Seq(Int),
                 pend : Seq(Token), ending : BOOLEAN]

ZstdStates == [level : Int, done : BOOLEAN, cctx : ZstdContexts]

\* A frame in progress after p bytes.
ZstdFrame(p, o, c) ==
    /\ c.level = asked /\ c.total = p /\ c.sum = SumOf(p)
    /\ c.size # Unpledged => c.size = fed /\ flush = ZU_FINISH
    /\ o \o Image(c) = FrameSoFar(c.size, p, c.ending)
    /\ c.ending => c.held = <<>> /\ c.lead = <<>> /\ Ending(p)

ZstdOk(p, o, e, fin) ==
    /\ e \in ZstdStates
    /\ e.level = asked /\ e.cctx.param = asked
    /\ fin <=> e.done
    /\ ~e.cctx.begun => e.cctx = Session(asked)
    /\ ~e.cctx.begun /\ ~e.done => p = 0 /\ o = <<>>
    /\ e.done => ~e.cctx.begun /\ Ending(p) /\ o \in ZstdStreams(p, asked)
    /\ e.cctx.begun => ZstdFrame(p, o, e.cctx) /\ (e.cctx.ending => e.cctx.pend # <<>>)

BlockStates == [level : Int, in : Seq(Int), stage : Seq(Token), stage_pos : Nat,
                done : BOOLEAN]

BlockCodecOk(p, o, e, fin) ==
    /\ e \in BlockStates
    /\ Lz4Level(e.level) = asked
    /\ e.stage_pos <= Len(e.stage)
    /\ fin <=> e.done /\ e.stage = <<>>
    /\ ~e.done => e.in = Input(p) /\ o = <<>> /\ e.stage = <<>>
    /\ e.done =>
         /\ e.in = <<>> /\ Ending(p)
         /\ o \o Drop(e.stage, e.stage_pos) = Lz4BlockStream(p, asked)

IdentityOk(p, o, fin) == o = Compressed(Input(p), 0) /\ (fin => Ending(p))

EncOk(p, o, e, fin) ==
    /\ IsDeflate => DeflateOk(p, o, e, fin)
    /\ IsFrame => FrameOk(p, o, e, fin)
    /\ IsZstd => ZstdOk(p, o, e, fin)
    /\ IsBlock => BlockCodecOk(p, o, e, fin)
    /\ IsIdentity => IdentityOk(p, o, fin)

CodecInv ==
    pc # "open" =>
      \/ pc = "closed" /\ enc = NoState /\ ~finished
      \/ /\ EncOk(pos, out, enc, finished)
         /\ IsFrame /\ result # ZU_ERR_MEMORY => FrameWire(pos, out, enc)
         /\ IsFrame /\ result = ZU_ERR_MEMORY => ~finished
         /\ IsFrame /\ (pc # "process" \/ HandleRefuses) => ~enc.flushed

LoopInv ==
    /\ job \in Jobs
    /\ pc \in {"open", "call", "process", "close", "closed"}
    /\ fed \in 0 .. job.n /\ pos \in 0 .. fed
    /\ out \in Seq(Token)
    /\ flush \in Flush
    /\ call \in [pos : Nat, out : Nat, room : Nat]
    /\ finished \in BOOLEAN /\ level \in Int /\ asked \in Int
    /\ CheckLevel(CodecTable[job.codec], level)
    /\ result \in Status \cup {Running}
    /\ job.driver # "caller" /\ flush = ZU_FINISH => fed = job.n
    /\ job.driver = "one_shot" => Len(out) <= job.room /\ flush # ZU_FLUSH
    /\ pc \in {"call", "process"} /\ job.driver # "caller" => result = Running /\ ~finished
    /\ pc = "open" =>
         /\ fed = 0 /\ pos = 0 /\ out = <<>> /\ flush = ZU_RUN
         /\ ~finished /\ result = Running /\ last.op = "none" /\ enc = NoState
         /\ asked = CodecTable[job.codec].level_default
    /\ pc = "process" =>
         /\ result = Running
         /\ call.out <= Len(out) /\ Len(out) <= call.out + call.room
         /\ job.driver = "whole" => (fed = job.n <=> flush = ZU_FINISH)
         /\ job.driver = "one_shot" =>
              flush = ZU_FINISH /\ fed = job.n /\ call.out + call.room = job.room

Inv == LoopInv /\ CodecInv
----------------------------------------------------------------------------
(***************************************************************************)
(* miniz.                                                                  *)
(***************************************************************************)
\* The call d, its context made c by closing a block with a mark, delivers r.
ClosedInto(d, c, mark, room, r) ==
    /\ r.used = d.used
    /\ Len(r.bytes) <= room
    /\ r.bytes \o Image(r.c) = (d.bytes \o Image(d.c)) \o mark
    /\ r.c.held = c.held /\ r.c.lead = c.lead /\ r.c.level = c.level
    /\ r.c.pend # <<>> => Len(r.bytes) = room
    /\ c.pend # <<>> /\ room > 0 => Len(r.bytes) > 0

\* A closed block joins what waits, and what fits of it is delivered.
LEMMA CloseDelivers ==
    ASSUME NEW B, NEW C, NEW d, NEW c, NEW mark, NEW room,
           Buffers(B), Buffers(C), d \in Calls(B), c \in C, mark \in Seq(Token), room \in Nat,
           Len(d.bytes) <= room, Image(c) = Image(d.c) \o mark
    PROVE  /\ Deliver([d EXCEPT !.c = c], room) \in Calls(C)
           /\ ClosedInto(d, c, mark, room, Deliver([d EXCEPT !.c = c], room))
<1>. DEFINE x == [c |-> c, used |-> d.used, bytes |-> d.bytes]
            r == Deliver(x, room)
<1>0. /\ d.c \in B /\ d.used \in Nat /\ d.bytes \in Seq(Token) /\ Len(d.bytes) \in Nat
      /\ Image(d.c) \in Seq(Token)
  <2>1. d.c \in B /\ d.used \in Nat /\ d.bytes \in Seq(Token) /\ Len(d.bytes) \in Nat
    BY CallParts
  <2>. QED  BY <2>1, ContextParts
<1>1. [d EXCEPT !.c = c] = x
  BY CallWith
<1>2. x \in Calls(C)
  BY <1>0 DEF Calls
<1>3. x.c = c /\ x.used = d.used /\ x.bytes = d.bytes
  OBVIOUS
<1>. HIDE DEF x
<1>4. r \in Calls(C) /\ Delivered(x, r, room)
  BY <1>2, <1>3, DeliverOk
<1>5. Len(r.bytes) \in Nat
  BY <1>4, CallParts
<1>. HIDE DEF r
<1>6. r.bytes \o Image(r.c) = d.bytes \o (Image(d.c) \o mark)
  BY <1>3, <1>4 DEF Delivered
<1>7. (d.bytes \o Image(d.c)) \o mark = d.bytes \o (Image(d.c) \o mark)
  <2>. DEFINE s == d.bytes
              I == Image(d.c)
  <2>1. s \in Seq(Token) /\ I \in Seq(Token)
    BY <1>0
  <2>. HIDE DEF s, I
  <2>2. (s \o I) \o mark = s \o (I \o mark)
    BY ONLY <2>1, mark \in Seq(Token), Assoc
  <2>. QED  BY <2>2 DEF s, I
<1>8. r.c.held = c.held /\ r.c.lead = c.lead /\ r.c.level = c.level /\ r.used = d.used
      /\ Len(r.bytes) <= room /\ (r.c.pend # <<>> => Len(r.bytes) = room)
  BY <1>3, <1>4 DEF Delivered
<1>9. c.pend # <<>> /\ room > 0 => Len(r.bytes) > 0
  <2>1. Len(r.bytes) >= Len(d.bytes) /\ (c.pend # <<>> /\ Len(d.bytes) < room => Len(r.bytes) > Len(d.bytes))
    BY <1>3, <1>4 DEF Delivered
  <2>. QED  BY <1>0, <1>5, <2>1
<1>10. r = Deliver([d EXCEPT !.c = c], room)
  BY <1>1 DEF r
<1>11. ClosedInto(d, c, mark, room, r)
  BY <1>6, <1>7, <1>8, <1>9 DEF ClosedInto
<1>. QED  BY <1>4, <1>10, <1>11

\* Contexts that differ from z in their buffers only.
MzLike(z) == {c \in MzContexts : c.live = z.live /\ c.finishing = z.finishing}

\* They are closed under writing the buffers.
LEMMA MzBuffers ==
    ASSUME NEW z
    PROVE  Buffers(MzLike(z))
<1>. SUFFICES ASSUME NEW c \in MzLike(z)
              PROVE  /\ c.held \in Seq(Int) /\ c.pend \in Seq(Token) /\ c.lead \in Seq(Wrapper)
                     /\ c.level \in Int
                     /\ \A h \in Seq(Int) :
                          /\ [c EXCEPT !.held = h] \in MzLike(z)
                          /\ Holds([c EXCEPT !.held = h], h, c.pend, c.lead, c.level)
                     /\ \A p \in Seq(Token) :
                          /\ [c EXCEPT !.pend = p] \in MzLike(z)
                          /\ Holds([c EXCEPT !.pend = p], c.held, p, c.lead, c.level)
                     /\ \A p \in Seq(Token) :
                          /\ [c EXCEPT !.held = <<>>, !.lead = <<>>, !.pend = p] \in MzLike(z)
                          /\ Holds([c EXCEPT !.held = <<>>, !.lead = <<>>, !.pend = p], <<>>, p, <<>>, c.level)
  BY Zenon DEF Buffers
<1>0. <<>> \in Seq(Int) /\ <<>> \in Seq(Wrapper)
  OBVIOUS
<1>1. c \in MzContexts /\ c.live = z.live /\ c.finishing = z.finishing
  BY DEF MzLike
<1>2. c.held \in Seq(Int) /\ c.pend \in Seq(Token) /\ c.lead \in Seq(Wrapper) /\ c.level \in Int
  BY <1>0, <1>1 DEF MzContexts
<1>3. ASSUME NEW h \in Seq(Int)
      PROVE  /\ [c EXCEPT !.held = h] \in MzLike(z)
             /\ Holds([c EXCEPT !.held = h], h, c.pend, c.lead, c.level)
  BY <1>1 DEF MzLike, MzContexts, Holds
<1>4. ASSUME NEW p \in Seq(Token)
      PROVE  /\ [c EXCEPT !.pend = p] \in MzLike(z)
             /\ Holds([c EXCEPT !.pend = p], c.held, p, c.lead, c.level)
  BY <1>1 DEF MzLike, MzContexts, Holds
<1>5. ASSUME NEW p \in Seq(Token)
      PROVE  /\ [c EXCEPT !.held = <<>>, !.lead = <<>>, !.pend = p] \in MzLike(z)
             /\ Holds([c EXCEPT !.held = <<>>, !.lead = <<>>, !.pend = p], <<>>, p, <<>>, c.level)
  BY <1>0, <1>1 DEF MzLike, MzContexts, Holds
<1>. QED  BY <1>2, <1>3, <1>4, <1>5, Zenon
\* What a call of miniz amounts to: the input it took, and a mark behind it.
MzTurned(mz, bytes, room, how, d, mark) ==
    /\ d.c.live = mz.live /\ d.c.level = mz.level
    /\ d.used <= Len(bytes) /\ Len(d.bytes) <= room
    /\ d.bytes \o Image(d.c) = (Image(mz) \o Compressed(Take(bytes, d.used), mz.level)) \o mark
    /\ mark = <<LastBlock>> =>
         how = ZU_FINISH /\ ~mz.finishing /\ d.c.finishing /\ d.used = Len(bytes) /\ d.c.held = <<>>
    /\ mark = <<Sync>> => how = ZU_FLUSH
    /\ mark # <<LastBlock>> => d.c.finishing = mz.finishing
    /\ mark = <<>> /\ d.used = 0 => d.c.held = mz.held
    /\ d.used = 0 /\ d.bytes = <<>> /\ room > 0 =>
         /\ bytes = <<>> /\ how # ZU_FLUSH
         /\ how = ZU_FINISH => mz.finishing /\ mz.pend = <<>>

MzTurns(mz, bytes, room, how, d) ==
    /\ d \in Calls(MzContexts)
    /\ \E mark \in {<<>>, <<Sync>>, <<LastBlock>>} : MzTurned(mz, bytes, room, how, d, mark)

\* A call that took what it could and added nothing.
LEMMA MzPlainTurn ==
    ASSUME NEW mz, NEW bytes, NEW room, NEW how, NEW d, NEW k,
           mz \in MzContexts, bytes \in Seq(Int), room \in Nat,
           d \in Calls(MzLike(mz)), k \in 0 .. Len(bytes), PumpedTo(k, mz, bytes, room, d),
           d.used = 0 /\ d.bytes = <<>> /\ room > 0 =>
             /\ bytes = <<>> /\ how # ZU_FLUSH
             /\ how = ZU_FINISH => mz.finishing /\ mz.pend = <<>>
    PROVE  d \in Calls(MzContexts) /\ MzTurned(mz, bytes, room, how, d, <<>>)
<1>0. d.c \in MzLike(mz) /\ d.used \in Nat /\ d.bytes \in Seq(Token) /\ Len(d.bytes) \in Nat
  BY CallParts
<1>1. d.c \in MzContexts /\ d.c.live = mz.live /\ d.c.finishing = mz.finishing
  BY <1>0 DEF MzLike
<1>2. d \in Calls(MzContexts)
  <2>1. d = [c |-> d.c, used |-> d.used, bytes |-> d.bytes]
    BY CallParts
  <2>2. [c |-> d.c, used |-> d.used, bytes |-> d.bytes] \in Calls(MzContexts)
    BY <1>0, <1>1 DEF Calls
  <2>. QED  BY <2>1, <2>2
<1>3. mz \in MzLike(mz)
  BY DEF MzLike
<1>4. d.used \in 0 .. Len(bytes)
  BY <1>0 DEF PumpedTo
<1>. DEFINE I == Image(mz)
            lv == mz.level
            t == Take(bytes, d.used)
            X == Compressed(t, lv)
            m == I \o X
<1>5. I \in Seq(Token) /\ lv \in Int
  BY <1>3, MzBuffers, ContextParts
<1>6. t \in Seq(Int)
  BY <1>4, Cut
<1>. HIDE DEF t, I, lv
<1>7. X \in Seq(Token)
  BY <1>5, <1>6, CompressedType
<1>. HIDE DEF X
<1>8. m \in Seq(Token)
  BY ONLY <1>5, <1>7, Cat, Zenon
<1>9. d.bytes \o Image(d.c) = m
  BY DEF PumpedTo, I, X, t, lv
<1>. HIDE DEF m
<1>10. m \o <<>> = m
  BY ONLY <1>8, Unit, Zenon
<1>11. d.bytes \o Image(d.c) = (Image(mz) \o Compressed(Take(bytes, d.used), mz.level)) \o <<>>
  BY <1>9, <1>10 DEF m, I, X, t, lv
<1>12. d.c.level = mz.level /\ Len(d.bytes) <= room /\ d.used <= Len(bytes)
       /\ (d.used = 0 => d.c.held = mz.held)
  BY <1>4 DEF PumpedTo
<1>13. <<>> # <<LastBlock>> /\ <<>> # <<Sync>>
  OBVIOUS
<1>. QED  BY <1>1, <1>2, <1>11, <1>12, <1>13 DEF MzTurned

\* A call that took all of the input and closed the block with a mark.
LEMMA MzMarkedTurn ==
    ASSUME NEW mz, NEW bytes, NEW room, NEW how, NEW d, NEW c, NEW mark,
           mz \in MzContexts, bytes \in Seq(Int), room \in Nat,
           d \in Calls(MzLike(mz)), PumpedTo(Len(bytes), mz, bytes, room, d), d.used = Len(bytes),
           mark \in {<<Sync>>, <<LastBlock>>},
           c \in MzContexts, c.live = mz.live, c.level = mz.level, c.held = <<>>, c.pend # <<>>,
           Image(c) = Image(d.c) \o mark,
           IF mark = <<Sync>> THEN how = ZU_FLUSH /\ c.finishing = mz.finishing
                              ELSE how = ZU_FINISH /\ ~mz.finishing /\ c.finishing
    PROVE  /\ Deliver([d EXCEPT !.c = c], room) \in Calls(MzContexts)
           /\ MzTurned(mz, bytes, room, how, Deliver([d EXCEPT !.c = c], room), mark)
<1>. DEFINE r == Deliver([d EXCEPT !.c = c], room)
            C == MzLike(c)
            B == MzLike(mz)
<1>0. /\ d.c \in B /\ d.used \in Nat /\ d.bytes \in Seq(Token) /\ Len(d.bytes) \in Nat
      /\ Len(bytes) \in Nat /\ Len(d.bytes) <= room
  <2>1. d.c \in B /\ d.used \in Nat /\ d.bytes \in Seq(Token) /\ Len(d.bytes) \in Nat
    BY CallParts
  <2>. QED  BY <2>1 DEF PumpedTo
<1>1. Buffers(B) /\ Buffers(C) /\ c \in C
  <2>1. c \in C
    BY DEF MzLike
  <2>. QED  BY <2>1, MzBuffers
<1>2. Sync \in Token /\ LastBlock \in Token /\ Sync # LastBlock
  <2>1. Sync \in Wrapper /\ LastBlock \in Wrapper
    BY WrapperTokens
  <2>. QED  BY <2>1, WrapperParts DEF Sync, LastBlock
<1>3. mark \in Seq(Token) /\ <<Sync>> # <<LastBlock>> /\ mark # <<>>
  <2>1. <<Sync>> \in Seq(Token) /\ <<LastBlock>> \in Seq(Token)
    BY <1>2
  <2>2. Len(<<Sync>>) = 1 /\ Len(<<LastBlock>>) = 1 /\ Len(<<>>) = 0
    OBVIOUS
  <2>3. <<Sync>> # <<LastBlock>>
    BY <1>2
  <2>4. mark = <<Sync>> \/ mark = <<LastBlock>>
    OBVIOUS
  <2>5. mark # <<>>
    BY ONLY <2>2, <2>4
  <2>6. mark \in Seq(Token)
    BY ONLY <2>1, <2>4
  <2>. QED  BY ONLY <2>3, <2>5, <2>6
<1>. HIDE DEF C, B
<1>4. /\ r \in Calls(C) /\ r.used = d.used /\ Len(r.bytes) <= room
      /\ r.bytes \o Image(r.c) = (d.bytes \o Image(d.c)) \o mark
      /\ r.c.held = c.held /\ r.c.level = c.level
      /\ (c.pend # <<>> /\ room > 0 => Len(r.bytes) > 0)
  <2>1. d \in Calls(B) /\ room \in Nat /\ Image(c) = Image(d.c) \o mark
    BY DEF B
  <2>2. r \in Calls(C) /\ ClosedInto(d, c, mark, room, r)
    BY ONLY <1>0, <1>1, <1>3, <2>1, CloseDelivers
  <2>. QED  BY <2>2 DEF ClosedInto
<1>. HIDE DEF r
<1>5. r.c \in C /\ r.used \in Nat /\ r.bytes \in Seq(Token)
      /\ r = [c |-> r.c, used |-> r.used, bytes |-> r.bytes]
  BY <1>4, CallParts
<1>6. r.c \in MzContexts /\ r.c.live = c.live /\ r.c.finishing = c.finishing
  BY <1>5 DEF C, MzLike
<1>7. r \in Calls(MzContexts)
  <2>1. [c |-> r.c, used |-> r.used, bytes |-> r.bytes] \in Calls(MzContexts)
    BY <1>5, <1>6 DEF Calls
  <2>. QED  BY <1>5, <2>1
<1>8. r.bytes \o Image(r.c) = (Image(mz) \o Compressed(Take(bytes, r.used), mz.level)) \o mark
  BY <1>4 DEF PumpedTo
<1>9. ~(r.used = 0 /\ r.bytes = <<>> /\ room > 0)
  <2>1. Len(<<>>) = 0
    OBVIOUS
  <2>. QED  BY <1>4, <2>1
<1>10. mark = <<LastBlock>> =>
         how = ZU_FINISH /\ ~mz.finishing /\ r.c.finishing /\ r.used = Len(bytes) /\ r.c.held = <<>>
  BY <1>3, <1>4, <1>6
<1>11. mark = <<Sync>> => how = ZU_FLUSH
  OBVIOUS
<1>12. mark # <<LastBlock>> => r.c.finishing = mz.finishing
  BY <1>6
<1>13. r.c.live = mz.live /\ r.c.level = mz.level /\ r.used <= Len(bytes) /\ Len(r.bytes) <= room
  BY <1>0, <1>4, <1>6
<1>14. MzTurned(mz, bytes, room, how, r, mark)
  BY <1>3, <1>8, <1>9, <1>10, <1>11, <1>12, <1>13 DEF MzTurned
<1>. QED  BY <1>7, <1>14 DEF r

\* miniz, once it has taken what it can.
MzSettled(mz, bytes, room, how, d) ==
    IF d.used < Len(bytes) \/ d.c.pend # <<>> THEN d
    ELSE IF how = ZU_FINISH /\ ~mz.finishing
      THEN Deliver([d EXCEPT !.c = [CloseBlock(d.c, <<LastBlock>>) EXCEPT !.finishing = TRUE]], room)
    ELSE IF how = ZU_FLUSH /\ (mz.pend = <<>> \/ bytes # <<>>)
      THEN Deliver([d EXCEPT !.c = CloseBlock(d.c, <<Sync>>)], room)
    ELSE d

\* The end of a call that was not full at once.
LEMMA MzSettles ==
    ASSUME NEW mz, NEW bytes, NEW room, NEW how, NEW d,
           mz \in MzContexts, bytes \in Seq(Int), room \in Nat,
           d \in Calls(MzLike(mz)), PumpedTo(Len(bytes), mz, bytes, room, d)
    PROVE  MzTurns(mz, bytes, room, how, MzSettled(mz, bytes, room, how, d))
<1>. DEFINE r == MzSettled(mz, bytes, room, how, d)
            B == MzLike(mz)
            N == Len(bytes)
<1>0. /\ d.c \in B /\ d.used \in Nat /\ d.bytes \in Seq(Token) /\ Len(d.bytes) \in Nat
      /\ N \in Nat
  <2>1. d.c \in B /\ d.used \in Nat /\ d.bytes \in Seq(Token) /\ Len(d.bytes) \in Nat
    BY CallParts
  <2>. QED  BY <2>1
<1>1. N \in 0 .. N /\ (bytes = <<>> <=> N = 0) /\ (d.bytes = <<>> => Len(d.bytes) = 0)
  BY <1>0
<1>2. /\ d.used <= N /\ (d.c.pend # <<>> => Len(d.bytes) = room) /\ (d.c.pend = <<>> => d.used = N)
      /\ (mz.pend # <<>> /\ room > 0 => Len(d.bytes) > 0) /\ d.c.level = mz.level
  BY DEF PumpedTo
<1>3. d.c \in MzContexts /\ d.c.live = mz.live /\ d.c.finishing = mz.finishing
  BY <1>0 DEF MzLike
<1>4. Buffers(B)
  BY MzBuffers
<1>5. Sync \in Token /\ LastBlock \in Token
  BY WrapperTokens, WrapperParts, SMTT(40)
<1>. DEFINE Stuck == d.used = 0 /\ d.bytes = <<>> /\ room > 0
<1>6. ASSUME r = d,
             Stuck => /\ bytes = <<>> /\ how # ZU_FLUSH
                      /\ how = ZU_FINISH => mz.finishing /\ mz.pend = <<>>
      PROVE  MzTurns(mz, bytes, room, how, r)
  <2>1. d \in Calls(MzContexts) /\ MzTurned(mz, bytes, room, how, d, <<>>)
    BY <1>1, <1>6, MzPlainTurn
  <2>. HIDE DEF r
  <2>. QED  BY <1>6, <2>1 DEF MzTurns
<1>7. CASE d.used < N \/ d.c.pend # <<>>
  <2>1. r = d
    BY <1>7 DEF MzSettled
  <2>2. ~Stuck
    BY <1>0, <1>1, <1>2, <1>7
  <2>. HIDE DEF Stuck
  <2>. QED  BY <1>6, <2>1, <2>2
<1>8. CASE ~(d.used < N \/ d.c.pend # <<>>) /\ how = ZU_FINISH /\ ~mz.finishing
  <2>. DEFINE mark == <<LastBlock>>
              b == CloseBlock(d.c, mark)
              c == [b EXCEPT !.finishing = TRUE]
  <2>1. r = Deliver([d EXCEPT !.c = c], room)
    BY <1>8 DEF MzSettled
  <2>2. mark \in Seq(Token) /\ Len(mark) = 1
    BY <1>5
  <2>. HIDE DEF mark
  <2>3. b \in B /\ Holds(b, <<>>, Image(d.c) \o mark, <<>>, d.c.level) /\ Image(b) = Image(d.c) \o mark
    BY <1>0, <1>4, <2>2, CloseBlockOk
  <2>. HIDE DEF b
  <2>4. b \in MzContexts /\ b.live = mz.live
    BY <2>3 DEF MzLike
  <2>5. /\ c \in MzContexts /\ c.live = b.live /\ c.level = b.level /\ c.held = b.held
        /\ c.pend = b.pend /\ c.lead = b.lead /\ c.finishing
    BY <2>4 DEF MzContexts
  <2>. HIDE DEF c
  <2>6. Image(c) = Image(b)
    BY <2>5 DEF Image
  <2>7. c.pend # <<>>
    <3>. DEFINE I == Image(d.c)
    <3>1. I \in Seq(Token)
      BY <1>0, <1>4, ContextParts
    <3>. HIDE DEF I
    <3>2. Len(I \o mark) = Len(I) + Len(mark) /\ Len(I) \in Nat
      BY ONLY <2>2, <3>1, Cat, Zenon
    <3>3. Len(I \o mark) # 0
      BY <2>2, <3>2
    <3>4. c.pend = I \o mark /\ Len(<<>>) = 0
      BY <2>3, <2>5 DEF Holds, I
    <3>. QED  BY ONLY <3>3, <3>4
  <2>8. c.held = <<>> /\ c.level = mz.level /\ c.live = mz.live /\ Image(c) = Image(d.c) \o mark
    BY <1>2, <2>3, <2>4, <2>5, <2>6 DEF Holds
  <2>9. mark \in {<<Sync>>, <<LastBlock>>} /\ mark # <<Sync>> /\ d.used = Len(bytes)
    <3>1. Sync # LastBlock
      BY DEF Sync, LastBlock
    <3>. QED  BY <1>2, <1>8, <3>1 DEF mark
  <2>10. /\ Deliver([d EXCEPT !.c = c], room) \in Calls(MzContexts)
         /\ MzTurned(mz, bytes, room, how, Deliver([d EXCEPT !.c = c], room), mark)
    BY <1>8, <2>5, <2>7, <2>8, <2>9, MzMarkedTurn
  <2>11. MzTurns(mz, bytes, room, how, Deliver([d EXCEPT !.c = c], room))
    BY <2>9, <2>10 DEF MzTurns
  <2>. QED  BY <2>1, <2>11
<1>9. CASE /\ ~(d.used < N \/ d.c.pend # <<>>) /\ ~(how = ZU_FINISH /\ ~mz.finishing)
           /\ how = ZU_FLUSH /\ (mz.pend = <<>> \/ bytes # <<>>)
  <2>. DEFINE mark == <<Sync>>
              c == CloseBlock(d.c, mark)
  <2>1. r = Deliver([d EXCEPT !.c = c], room)
    BY <1>9 DEF MzSettled
  <2>2. mark \in Seq(Token) /\ Len(mark) = 1
    BY <1>5
  <2>. HIDE DEF mark
  <2>3. c \in B /\ Holds(c, <<>>, Image(d.c) \o mark, <<>>, d.c.level) /\ Image(c) = Image(d.c) \o mark
    BY <1>0, <1>4, <2>2, CloseBlockOk
  <2>. HIDE DEF c
  <2>4. c \in MzContexts /\ c.live = mz.live /\ c.finishing = mz.finishing
    BY <2>3 DEF MzLike
  <2>7. c.pend # <<>>
    <3>. DEFINE I == Image(d.c)
    <3>1. I \in Seq(Token)
      BY <1>0, <1>4, ContextParts
    <3>. HIDE DEF I
    <3>2. Len(I \o mark) = Len(I) + Len(mark) /\ Len(I) \in Nat
      BY ONLY <2>2, <3>1, Cat, Zenon
    <3>3. Len(I \o mark) # 0
      BY <2>2, <3>2
    <3>4. c.pend = I \o mark /\ Len(<<>>) = 0
      BY <2>3 DEF Holds, I
    <3>. QED  BY ONLY <3>3, <3>4
  <2>8. c.held = <<>> /\ c.level = mz.level /\ Image(c) = Image(d.c) \o mark
    BY <1>2, <2>3 DEF Holds
  <2>9. mark \in {<<Sync>>, <<LastBlock>>} /\ mark = <<Sync>> /\ d.used = Len(bytes)
    BY <1>2, <1>9 DEF mark
  <2>10. /\ Deliver([d EXCEPT !.c = c], room) \in Calls(MzContexts)
         /\ MzTurned(mz, bytes, room, how, Deliver([d EXCEPT !.c = c], room), mark)
    BY <1>9, <2>4, <2>7, <2>8, <2>9, MzMarkedTurn
  <2>11. MzTurns(mz, bytes, room, how, Deliver([d EXCEPT !.c = c], room))
    BY <2>9, <2>10 DEF MzTurns
  <2>. QED  BY <2>1, <2>11
<1>10. CASE /\ ~(d.used < N \/ d.c.pend # <<>>) /\ ~(how = ZU_FINISH /\ ~mz.finishing)
            /\ ~(how = ZU_FLUSH /\ (mz.pend = <<>> \/ bytes # <<>>))
  <2>1. r = d
    BY <1>10 DEF MzSettled
  <2>2. Stuck => /\ bytes = <<>> /\ how # ZU_FLUSH
                 /\ how = ZU_FINISH => mz.finishing /\ mz.pend = <<>>
    BY <1>0, <1>1, <1>2, <1>10
  <2>. HIDE DEF Stuck
  <2>. QED  BY <1>6, <2>1, <2>2
<1>. QED  BY <1>7, <1>8, <1>9, <1>10

\* mz_deflate.
LEMMA MzDeflateOk ==
    ASSUME NEW mz, NEW bytes, NEW room, NEW how,
           mz \in MzContexts, bytes \in Seq(Int), room \in Nat
    PROVE  MzTurns(mz, bytes, room, how, MzDeflate(mz, bytes, room, how))
<1>. DEFINE r == MzDeflate(mz, bytes, room, how)
            B == MzLike(mz)
<1>0. Buffers(B) /\ mz \in B
  BY MzBuffers DEF MzLike
<1>1. CASE mz.pend # <<>> /\ Len(mz.pend) >= room
  <2>. DEFINE d == Deliver(Started(mz), room)
  <2>1. r = d
    BY <1>1 DEF MzDeflate
  <2>2. d \in Calls(B) /\ PumpedTo(0, mz, bytes, room, d)
    BY <1>0, PumpStarts
  <2>. HIDE DEF d
  <2>3. 0 \in 0 .. Len(bytes)
    OBVIOUS
  <2>4. ~(d.used = 0 /\ d.bytes = <<>> /\ room > 0)
    <3>1. mz.pend # <<>> /\ room > 0 => Len(d.bytes) > 0
      BY <2>2 DEF PumpedTo
    <3>2. Len(<<>>) = 0
      OBVIOUS
    <3>. QED  BY <1>1, <3>1, <3>2
  <2>5. d \in Calls(MzContexts) /\ MzTurned(mz, bytes, room, how, d, <<>>)
    BY <2>2, <2>3, <2>4, MzPlainTurn
  <2>. HIDE DEF r
  <2>6. MzTurns(mz, bytes, room, how, r)
    BY <2>1, <2>5 DEF MzTurns
  <2>. QED  BY <2>6 DEF r
<1>2. CASE ~(mz.pend # <<>> /\ Len(mz.pend) >= room)
  <2>. DEFINE d == Pump(mz, bytes, room)
  <2>1. r = Only({MzSettled(mz, bytes, room, how, x) : x \in {d}})
    BY <1>2 DEF MzDeflate, MzSettled
  <2>2. d \in Calls(B) /\ PumpedTo(Len(bytes), mz, bytes, room, d)
    BY <1>0, PumpOk
  <2>. HIDE DEF d
  <2>3. {MzSettled(mz, bytes, room, how, x) : x \in {d}} = {MzSettled(mz, bytes, room, how, d)}
    OBVIOUS
  <2>4. r = MzSettled(mz, bytes, room, how, d)
    <3>. HIDE DEF r
    <3>. QED  BY <2>1, <2>3, OnlyOne
  <2>5. MzTurns(mz, bytes, room, how, MzSettled(mz, bytes, room, how, d))
    BY <2>2, MzSettles
  <2>. QED  BY <2>4, <2>5
<1>. QED  BY <1>1, <1>2
----------------------------------------------------------------------------
(***************************************************************************)
(* Streams and their flush markers.                                        *)
(***************************************************************************)
\* A token that is no marker.
LEMMA PlainToken ==
    ASSUME NEW t, t # Sync
    PROVE  Plain(<<t>>)
BY DEF Plain

\* What is compressed holds no marker.
LEMMA PlainCompressed ==
    ASSUME NEW b, NEW lv, b \in Seq(Int), lv \in Int
    PROVE  Plain(Compressed(b, lv))
<1>1. Len(Compressed(b, lv)) = Len(b) /\ \A i \in 1 .. Len(b) : Compressed(b, lv)[i] = <<"data", b[i], lv>>
  BY CompressedType
<1>2. \A x, y : <<"data", x, y>> # Sync
  BY DEF Sync
<1>. QED  BY <1>1, <1>2 DEF Plain

\* Nor does a beginning of a stream that has none.
LEMMA PlainTake ==
    ASSUME NEW s, NEW k, s \in Seq(Token), k \in 0 .. Len(s), Plain(s)
    PROVE  Plain(Take(s, k))
<1>1. Len(s) \in Nat /\ k \in Nat /\ \A i \in 1 .. k : s[i] \in Token
  OBVIOUS
<1>2. Len(Take(s, k)) = k
  BY Cut
<1>3. ASSUME NEW i \in 1 .. k PROVE Take(s, k)[i] = s[i]
  <2>1. \A j \in 1 .. k - 1 + 1 : SubSeq(s, 1, k)[j] = s[1 + j - 1]
    BY <1>1, SubSeqProperties
  <2>2. i \in 1 .. k - 1 + 1 /\ 1 + i - 1 = i
    BY <1>1
  <2>. QED  BY <2>1, <2>2 DEF Take
<1>4. \A i \in 1 .. k : s[i] # Sync
  BY <1>1 DEF Plain
<1>. QED  BY <1>2, <1>3, <1>4 DEF Plain

\* Two plain streams, joined.
LEMMA PlainConcat ==
    ASSUME NEW s, NEW t, s \in Seq(Token), t \in Seq(Token), Plain(s), Plain(t)
    PROVE  Plain(s \o t)
<1>1. Len(s) \in Nat /\ Len(t) \in Nat /\ Len(s \o t) = Len(s) + Len(t)
  BY Cat
<1>2. ASSUME NEW i \in 1 .. Len(s) + Len(t) PROVE (s \o t)[i] # Sync
  <2>1. (s \o t)[i] = IF i <= Len(s) THEN s[i] ELSE t[i - Len(s)]
    BY ConcatProperties
  <2>2. CASE i <= Len(s)
    <3>1. i \in 1 .. Len(s)
      BY <1>1, <2>2
    <3>. QED  BY <2>1, <2>2, <3>1 DEF Plain
  <2>3. CASE ~(i <= Len(s))
    <3>1. i - Len(s) \in 1 .. Len(t)
      BY <1>1, <2>3
    <3>. QED  BY <2>1, <2>3, <3>1 DEF Plain
  <2>. QED  BY <2>2, <2>3
<1>. QED  BY <1>1, <1>2 DEF Plain

\* What is joined to the wire is joined to the stream.
LEMMA MatchesMore ==
    ASSUME NEW w, NEW s, NEW t, w \in Seq(Token), t \in Seq(Token), Plain(t), Matches(w, s)
    PROVE  Matches(w \o t, s \o t)
<1>1. NoSyncMarks(w \o t) = NoSyncMarks(w) \o NoSyncMarks(t)
  BY NoSyncConcat
<1>2. NoSyncMarks(t) = t
  BY PlainIsKept
<1>. QED  BY <1>1, <1>2 DEF Matches

\* A marker is on the wire and not in the stream.
LEMMA MatchesMarked ==
    ASSUME NEW w, NEW s, w \in Seq(Token), Matches(w, s), job.driver # "one_shot"
    PROVE  Matches(w \o <<Sync>>, s)
<1>0. Sync \in Token
  BY WrapperTokens, WrapperParts
<1>1. <<Sync>> \in Seq(Token) /\ NoSyncMarks(<<Sync>>) = <<>>
  BY <1>0, SingleToken DEF Kept
<1>. DEFINE m == <<Sync>>
            n == NoSyncMarks(w)
<1>. HIDE DEF m
<1>2. NoSyncMarks(w \o m) = n \o NoSyncMarks(m) /\ n \in Seq(Token)
  BY <1>1, NoSyncConcat DEF m
<1>. HIDE DEF n
<1>3. n \o <<>> = n
  BY <1>2, Unit
<1>. QED  BY <1>1, <1>2, <1>3 DEF Matches, m, n

\* A plain stream on the wire is that stream.
LEMMA MatchesPlain ==
    ASSUME NEW s, s \in Seq(Token), Plain(s)
    PROVE  Matches(s, s)
BY PlainIsKept DEF Matches

\* The head of a wrapper.
LEMMA HeaderIs ==
    ASSUME NEW lv, lv \in Int, IsDeflate
    PROVE  /\ HeaderBytes(lv) \in Seq(Wrapper) /\ HeaderBytes(lv) \in Seq(Token)
           /\ Plain(HeaderBytes(lv))
           /\ job.codec = "raw" => HeaderBytes(lv) = <<>>
<1>1. ASSUME NEW k \in {"cmf", "flg", "gz"}, NEW n \in Int
      PROVE  <<k, n, 0>> \in Wrapper /\ <<k, n, 0>> # Sync
  BY DEF Wrapper, Wrapping, Sync
<1>2. HeaderBytes(lv) \in Seq(Wrapper) /\ Plain(HeaderBytes(lv))
  <2>1. CASE job.codec = "raw"
    <3>1. HeaderBytes(lv) = <<>>
      BY <2>1 DEF HeaderBytes
    <3>2. <<>> \in Seq(Wrapper)
      OBVIOUS
    <3>3. Plain(<<>>)
      BY DEF Plain
    <3>. QED  BY <3>1, <3>2, <3>3
  <2>2. CASE job.codec = "zlib"
    <3>. DEFINE a == <<"cmf", 0, 0>>
                b == <<"flg", FLevel(lv), 0>>
    <3>1. a \in Wrapper /\ b \in Wrapper /\ a # Sync /\ b # Sync
      <4>1. FLevel(lv) \in Int
        BY DEF FLevel
      <4>. QED  BY <1>1, <4>1
    <3>2. HeaderBytes(lv) = <<a, b>>
      BY <2>2 DEF HeaderBytes
    <3>. HIDE DEF a, b
    <3>3. <<a, b>> \in Seq(Wrapper)
      BY <3>1
    <3>4. Plain(<<a, b>>)
      <4>1. Len(<<a, b>>) = 2 /\ <<a, b>>[1] = a /\ <<a, b>>[2] = b
        OBVIOUS
      <4>2. \A i \in 1 .. 2 : i = 1 \/ i = 2
        OBVIOUS
      <4>. QED  BY <3>1, <4>1, <4>2 DEF Plain
    <3>. QED  BY <3>2, <3>3, <3>4
  <2>3. CASE job.codec = "gzip"
    <3>. DEFINE g == [i \in 1 .. 3 |-> <<"gz", i, 0>>]
    <3>1. HeaderBytes(lv) = g
      BY <2>3 DEF HeaderBytes
    <3>2. ASSUME NEW i \in 1 .. 3 PROVE g[i] \in Wrapper /\ g[i] # Sync
      <4>1. g[i] = <<"gz", i, 0>>
        OBVIOUS
      <4>2. <<"gz", i, 0>> \in Wrapper /\ <<"gz", i, 0>> # Sync
        BY <1>1
      <4>. HIDE DEF g
      <4>. QED  BY <4>1, <4>2
    <3>3. g \in [1 .. 3 -> Wrapper] /\ Len(g) = 3
      <4>1. DOMAIN g = 1 .. 3 /\ g = [i \in 1 .. 3 |-> g[i]] /\ Len(g) = 3
        OBVIOUS
      <4>. HIDE DEF g
      <4>. QED  BY <3>2, <4>1
    <3>. HIDE DEF g
    <3>4. g \in Seq(Wrapper)
      <4>1. 3 \in Nat
        OBVIOUS
      <4>. QED  BY <3>3, <4>1, SeqDef
    <3>5. Plain(g)
      BY <3>2, <3>3 DEF Plain
    <3>. QED  BY <3>1, <3>4, <3>5
  <2>. QED  BY <2>1, <2>2, <2>3 DEF IsDeflate, DeflateFamily
<1>3. HeaderBytes(lv) \in Seq(Token)
  BY <1>2, WrappersAreTokens
<1>4. job.codec = "raw" => HeaderBytes(lv) = <<>>
  BY DEF HeaderBytes
<1>. QED  BY <1>2, <1>3, <1>4

\* The tail of a wrapper.
LEMMA TrailerIs ==
    ASSUME NEW sum, NEW size, sum \in Int, size \in Int, IsDeflate
    PROVE  /\ TrailerBytes(sum, size) \in Seq(Wrapper) /\ TrailerBytes(sum, size) \in Seq(Token)
           /\ Plain(TrailerBytes(sum, size))
           /\ job.codec = "raw" => TrailerBytes(sum, size) = <<>>
<1>1. ASSUME NEW k \in {"adler", "crc", "isize"}, NEW n \in Int
      PROVE  <<k, n, 0>> \in Wrapper /\ <<k, n, 0>> # Sync
  BY DEF Wrapper, Wrapping, Sync
<1>2. TrailerBytes(sum, size) \in Seq(Wrapper) /\ Plain(TrailerBytes(sum, size))
  <2>1. CASE job.codec = "raw"
    <3>1. TrailerBytes(sum, size) = <<>>
      BY <2>1 DEF TrailerBytes
    <3>2. <<>> \in Seq(Wrapper)
      OBVIOUS
    <3>3. Plain(<<>>)
      BY DEF Plain
    <3>. QED  BY <3>1, <3>2, <3>3
  <2>2. CASE job.codec = "zlib"
    <3>. DEFINE a == <<"adler", sum, 0>>
    <3>1. a \in Wrapper /\ a # Sync
      BY <1>1
    <3>2. TrailerBytes(sum, size) = <<a>>
      BY <2>2 DEF TrailerBytes
    <3>. HIDE DEF a
    <3>3. <<a>> \in Seq(Wrapper)
      BY <3>1
    <3>4. Plain(<<a>>)
      BY <3>1, PlainToken
    <3>. QED  BY <3>2, <3>3, <3>4
  <2>3. CASE job.codec = "gzip"
    <3>. DEFINE m == size % ISizeMod
                a == <<"crc", sum, 0>>
                b == <<"isize", m, 0>>
    <3>0. m \in Int
      BY ISizeModAssumption
    <3>1. a \in Wrapper /\ b \in Wrapper /\ a # Sync /\ b # Sync
      <4>. HIDE DEF m
      <4>. QED  BY <1>1, <3>0
    <3>2. TrailerBytes(sum, size) = <<a, b>>
      BY <2>3 DEF TrailerBytes
    <3>. HIDE DEF a, b
    <3>3. <<a, b>> \in Seq(Wrapper)
      BY <3>1
    <3>4. Plain(<<a, b>>)
      <4>1. Len(<<a, b>>) = 2 /\ <<a, b>>[1] = a /\ <<a, b>>[2] = b
        OBVIOUS
      <4>2. \A i \in 1 .. 2 : i = 1 \/ i = 2
        OBVIOUS
      <4>. QED  BY <3>1, <4>1, <4>2 DEF Plain
    <3>. QED  BY <3>2, <3>3, <3>4
  <2>. QED  BY <2>1, <2>2, <2>3 DEF IsDeflate, DeflateFamily
<1>3. TrailerBytes(sum, size) \in Seq(Token)
  BY <1>2, WrappersAreTokens
<1>4. job.codec = "raw" => TrailerBytes(sum, size) = <<>>
  BY DEF TrailerBytes
<1>. QED  BY <1>2, <1>3, <1>4

\* The checksum of the input so far.
LEMMA SumGrows ==
    ASSUME NEW p, NEW n, p \in Nat, n \in Nat
    PROVE  /\ SumOf(p) \in Int /\ SumOf(0) = 0
           /\ SumOf(p + n) = ChecksumUpdate(SumOf(p), OfferedAfter(p, n))
<1>1. Input(p) \in Seq(Int) /\ OfferedAfter(p, n) \in Seq(Int) /\ Input(p) \o OfferedAfter(p, n) = Input(p + n)
  BY InputType, OfferedType, InputGrows
<1>. DEFINE a == Input(p)
            b == OfferedAfter(p, n)
<1>. HIDE DEF a, b
<1>2. a \in Seq(Int) /\ b \in Seq(Int) /\ a \o b = Input(p + n)
  BY <1>1 DEF a, b
<1>3. ChecksumUpdate(0, a) \in Int /\ ChecksumUpdate(0, a \o b) = ChecksumUpdate(ChecksumUpdate(0, a), b)
  <2>. DEFINE z == 0
  <2>1. z \in Int /\ a \in Seq(Int) /\ b \in Seq(Int)
    BY <1>2
  <2>. HIDE DEF z
  <2>2. ChecksumUpdate(z, a) \in Int /\ ChecksumUpdate(z, a \o b) = ChecksumUpdate(ChecksumUpdate(z, a), b)
    BY ONLY <2>1, ChecksumConcat, SMTT(40)
  <2>. QED  BY <2>2 DEF z
<1>4. SumOf(0) = 0
  <2>1. Input(0) = <<>>
    BY InputType
  <2>. DEFINE h == [k \in {0} |-> 0]
  <2>2. h[0] = 0 /\ Len(<<>>) = 0 /\ <<>> \in Seq(Int)
    OBVIOUS
  <2>. HIDE DEF h
  <2>3. \A k \in 1 .. Len(<<>>) : h[k] = 10 * h[k - 1] + <<>>[k]
    BY <2>2
  <2>4. ChecksumUpdate(0, <<>>) = h[Len(<<>>)]
    BY <2>2, <2>3, ChecksumIs, ZenonT(40)
  <2>. QED  BY <2>1, <2>2, <2>4 DEF SumOf
<1>. QED  BY <1>2, <1>3, <1>4 DEF SumOf, a, b

\* Nothing more to sum.
LEMMA SumOfNothing ==
    ASSUME NEW sum, sum \in Int
    PROVE  ChecksumUpdate(sum, <<>>) = sum
<1>. DEFINE h == [k \in {0} |-> sum]
<1>1. h[0] = sum /\ Len(<<>>) = 0 /\ <<>> \in Seq(Int)
  OBVIOUS
<1>. HIDE DEF h
<1>2. \A k \in 1 .. Len(<<>>) : h[k] = 10 * h[k - 1] + <<>>[k]
  BY <1>1
<1>3. ChecksumUpdate(sum, <<>>) = h[Len(<<>>)]
  BY <1>1, <1>2, ChecksumIs
<1>. QED  BY <1>1, <1>3

----------------------------------------------------------------------------
(***************************************************************************)
(* The loops.                                                              *)
(***************************************************************************)
\* A step that leaves the call's request alone.
LEMMA EncOkSame ==
    ASSUME NEW p, NEW o, NEW e, NEW fin, EncOk(p, o, e, fin),
           UNCHANGED <<job, fed, flush, asked>>,
           pos' = p, out' = o, enc' = e, finished' = fin
    PROVE  EncOk(pos, out, enc, finished)'
<1>0. job' = job /\ fed' = fed /\ flush' = flush /\ asked' = asked
  OBVIOUS
<1>1. CASE IsDeflate
  <2>1. DeflateOk(p, o, e, fin)
    BY <1>1 DEF EncOk
  <2>2. IsDeflate' /\ ~IsFrame' /\ ~IsZstd' /\ ~IsBlock' /\ ~IsIdentity'
    BY <1>1, <1>0, SMTT(40) DEF IsDeflate, DeflateFamily, IsFrame, IsZstd, IsBlock, IsIdentity
  <2>3. DeflateOk(pos, out, enc, finished)'
    BY <1>0, <2>1, ZenonT(40) DEF DeflateOk, Matches, Ending, DeflateBody, HeaderBytes, TrailerBytes, DeflateStream
  <2>. QED  BY <2>2, <2>3 DEF EncOk
<1>2. CASE IsFrame
  <2>1. FrameOk(p, o, e, fin)
    BY <1>2 DEF EncOk
  <2>2. ~IsDeflate' /\ IsFrame' /\ ~IsZstd' /\ ~IsBlock' /\ ~IsIdentity'
    BY <1>2, <1>0 DEF IsDeflate, DeflateFamily, IsFrame, IsZstd, IsBlock, IsIdentity
  <2>3. FrameOk(pos, out, enc, finished)'
    BY <1>0, <2>1 DEF FrameOk, Lz4Level
  <2>. QED  BY <2>2, <2>3 DEF EncOk
<1>3. CASE IsZstd
  <2>1. ZstdOk(p, o, e, fin)
    BY <1>3 DEF EncOk
  <2>2. ~IsDeflate' /\ ~IsFrame' /\ IsZstd' /\ ~IsBlock' /\ ~IsIdentity'
    BY <1>3, <1>0 DEF IsDeflate, DeflateFamily, IsFrame, IsZstd, IsBlock, IsIdentity
  <2>3. ZstdOk(pos, out, enc, finished)'
    BY <1>0, <2>1 DEF ZstdOk, ZstdFrame, Ending, FrameSoFar, FrameBody
  <2>. QED  BY <2>2, <2>3 DEF EncOk
<1>4. CASE IsBlock
  <2>1. BlockCodecOk(p, o, e, fin)
    BY <1>4 DEF EncOk
  <2>2. ~IsDeflate' /\ ~IsFrame' /\ ~IsZstd' /\ IsBlock' /\ ~IsIdentity'
    BY <1>4, <1>0 DEF IsDeflate, DeflateFamily, IsFrame, IsZstd, IsBlock, IsIdentity
  <2>3. BlockCodecOk(pos, out, enc, finished)'
    BY <1>0, <2>1 DEF BlockCodecOk, Lz4Level, Ending
  <2>. QED  BY <2>2, <2>3 DEF EncOk
<1>5. CASE IsIdentity
  <2>1. IdentityOk(p, o, fin)
    BY <1>5 DEF EncOk
  <2>2. ~IsDeflate' /\ ~IsFrame' /\ ~IsZstd' /\ ~IsBlock' /\ IsIdentity'
    BY <1>5, <1>0 DEF IsDeflate, DeflateFamily, IsFrame, IsZstd, IsBlock, IsIdentity
  <2>3. IdentityOk(pos, out, finished)'
    BY <1>0, <2>1 DEF IdentityOk, Ending
  <2>. QED  BY <2>2, <2>3 DEF EncOk
<1>6. CASE ~IsDeflate /\ ~IsFrame /\ ~IsZstd /\ ~IsBlock /\ ~IsIdentity
  <2>1. ~IsDeflate' /\ ~IsFrame' /\ ~IsZstd' /\ ~IsBlock' /\ ~IsIdentity'
    BY <1>0, <1>6 DEF IsDeflate, DeflateFamily, IsFrame, IsZstd, IsBlock, IsIdentity
  <2>. QED  BY <2>1 DEF EncOk
<1>. QED  BY <1>1, <1>2, <1>3, <1>4, <1>5, <1>6

\* The same for a frame's wire.
LEMMA FrameWireSame ==
    ASSUME NEW p, NEW o, NEW e, FrameWire(p, o, e),
           UNCHANGED <<job, fed, flush, asked>>, pos' = p, out' = o, enc' = e
    PROVE  FrameWire(pos, out, enc)'
BY DEF FrameWire, FrameSoFar, FrameBody, Ending

\* A new call: nothing of what was promised for the end is taken back.
LEMMA EncOkCalled ==
    ASSUME EncOk(pos, out, enc, finished), UNCHANGED <<job, asked, pos, out, enc, finished>>,
           flush = ZU_FINISH => fed' = fed /\ flush' = flush,
           IsFrame => ~enc.flushed
    PROVE  EncOk(pos, out, enc, finished)'
<1>0. job' = job /\ asked' = asked /\ pos' = pos /\ out' = out /\ enc' = enc /\ finished' = finished
  OBVIOUS
<1>00. CASE flush = ZU_FINISH
  BY <1>00, EncOkSame
<1>01. ASSUME flush # ZU_FINISH PROVE ~Ending(pos)
  BY <1>01 DEF Ending
<1>. SUFFICES ASSUME flush # ZU_FINISH PROVE EncOk(pos, out, enc, finished)'
  BY <1>00
<1>1. CASE IsDeflate
  <2>1. DeflateOk(pos, out, enc, finished)
    BY <1>1 DEF EncOk
  <2>2. IsDeflate' /\ ~IsFrame' /\ ~IsZstd' /\ ~IsBlock' /\ ~IsIdentity'
    BY <1>1, <1>0 DEF IsDeflate, DeflateFamily, IsFrame, IsZstd, IsBlock, IsIdentity
  <2>3. DeflateOk(pos, out, enc, finished)'
    <3>1. enc.state \in {"HEADER", "BODY"} /\ ~finished /\ (enc.state = "BODY" /\ enc.mz.live => ~enc.mz.finishing)
      BY <1>01, <2>1 DEF DeflateOk, DeflateStates
    <3>2. HeaderBytes(asked)' = HeaderBytes(asked) /\ DeflateBody(pos)' = DeflateBody(pos)
      BY <1>0 DEF DeflateBody, HeaderBytes
    <3>3. enc.state = "BODY" /\ enc.mz.live => Matches(out \o Image(enc.mz), DeflateBody(pos))
      BY <2>1, <3>1 DEF DeflateOk
    <3>4. enc.state = "BODY" /\ enc.mz.live => Matches(out \o Image(enc.mz), DeflateBody(pos))'
      BY <1>0, <3>2, <3>3 DEF Matches
    <3>. QED  BY <1>0, <2>1, <3>1, <3>2, <3>4 DEF DeflateOk
  <2>. QED  BY <2>2, <2>3 DEF EncOk
<1>2. CASE IsFrame
  <2>1. FrameOk(pos, out, enc, finished) /\ ~enc.flushed
    BY <1>2 DEF EncOk
  <2>2. ~IsDeflate' /\ IsFrame' /\ ~IsZstd' /\ ~IsBlock' /\ ~IsIdentity'
    BY <1>2, <1>0 DEF IsDeflate, DeflateFamily, IsFrame, IsZstd, IsBlock, IsIdentity
  <2>3. FrameOk(pos, out, enc, finished)'
    BY <1>0, <2>1 DEF FrameOk, Lz4Level
  <2>. QED  BY <2>2, <2>3 DEF EncOk
<1>3. CASE IsZstd
  <2>1. ZstdOk(pos, out, enc, finished)
    BY <1>3 DEF EncOk
  <2>2. ~IsDeflate' /\ ~IsFrame' /\ IsZstd' /\ ~IsBlock' /\ ~IsIdentity'
    BY <1>3, <1>0 DEF IsDeflate, DeflateFamily, IsFrame, IsZstd, IsBlock, IsIdentity
  <2>3. ZstdOk(pos, out, enc, finished)'
    <3>1. ~enc.done /\ ~finished /\ (enc.cctx.begun => ~enc.cctx.ending /\ enc.cctx.size = Unpledged)
      BY <1>01, <2>1 DEF ZstdOk, ZstdFrame
    <3>2. enc.cctx.begun => ZstdFrame(pos, out, enc.cctx)'
      BY <1>0, <2>1, <3>1 DEF ZstdOk, ZstdFrame, FrameSoFar, FrameBody
    <3>. QED  BY <1>0, <2>1, <3>1, <3>2 DEF ZstdOk
  <2>. QED  BY <2>2, <2>3 DEF EncOk
<1>4. CASE IsBlock
  <2>1. BlockCodecOk(pos, out, enc, finished)
    BY <1>4 DEF EncOk
  <2>2. ~IsDeflate' /\ ~IsFrame' /\ ~IsZstd' /\ IsBlock' /\ ~IsIdentity'
    BY <1>4, <1>0 DEF IsDeflate, DeflateFamily, IsFrame, IsZstd, IsBlock, IsIdentity
  <2>3. BlockCodecOk(pos, out, enc, finished)'
    BY <1>0, <1>01, <2>1 DEF BlockCodecOk, Lz4Level, Ending
  <2>. QED  BY <2>2, <2>3 DEF EncOk
<1>5. CASE IsIdentity
  <2>1. IdentityOk(pos, out, finished)
    BY <1>5 DEF EncOk
  <2>2. ~IsDeflate' /\ ~IsFrame' /\ ~IsZstd' /\ ~IsBlock' /\ IsIdentity'
    BY <1>5, <1>0 DEF IsDeflate, DeflateFamily, IsFrame, IsZstd, IsBlock, IsIdentity
  <2>3. IdentityOk(pos, out, finished)'
    BY <1>0, <1>01, <2>1 DEF IdentityOk, Ending
  <2>. QED  BY <2>2, <2>3 DEF EncOk
<1>6. CASE ~IsDeflate /\ ~IsFrame /\ ~IsZstd /\ ~IsBlock /\ ~IsIdentity
  <2>1. ~IsDeflate' /\ ~IsFrame' /\ ~IsZstd' /\ ~IsBlock' /\ ~IsIdentity'
    BY <1>0, <1>6 DEF IsDeflate, DeflateFamily, IsFrame, IsZstd, IsBlock, IsIdentity
  <2>. QED  BY <2>1 DEF EncOk
<1>. QED  BY <1>1, <1>2, <1>3, <1>4, <1>5, <1>6

\* The same for a frame's wire.
LEMMA FrameWireCalled ==
    ASSUME FrameWire(pos, out, enc), UNCHANGED <<job, asked, pos, out, enc>>,
           flush = ZU_FINISH => fed' = fed /\ flush' = flush
    PROVE  FrameWire(pos, out, enc)'
BY DEF FrameWire, FrameSoFar, FrameBody, Ending
----------------------------------------------------------------------------
(***************************************************************************)
(* What a codec owes the loop at every turn, and with every answer.        *)
(***************************************************************************)
TurnOk(p, o, e, fin) ==
    /\ p \in pos .. fed
    /\ o \in Seq(Token) /\ Len(out) <= Len(o) /\ Len(o) <= call.out + call.room
    /\ EncOk(p, o, e, fin)

FlushedOut(p, e) ==
    /\ p = fed
    /\ IsDeflate => e.mz.pend = <<>> /\ e.mz.held = <<>>
    /\ IsFrame => Drop(e.stage, e.stage_pos) = <<>> /\ (e.started => e.cctx.held = <<>>)
    /\ IsZstd => e.cctx.pend = <<>> /\ e.cctx.held = <<>>
    /\ IsBlock => Drop(e.stage, e.stage_pos) = <<>> /\ e.in = <<>>

CodecAnswers == {ZU_NEED_INPUT, ZU_NEED_OUTPUT, ZU_STREAM_END, ZU_ERR_MEMORY,
                 ZU_ERR_INVALID_ARGUMENT, ZU_ERR_INVALID_DATA}

ReturnOk(st, p, o, e) ==
    /\ TurnOk(p, o, e, st = ZU_STREAM_END)
    /\ IsFrame => ~e.flushed
    /\ IsFrame /\ st # ZU_ERR_MEMORY => FrameWire(p, o, e)
    /\ st \in CodecAnswers
    /\ st = ZU_NEED_INPUT => flush # ZU_FINISH /\ (flush = ZU_FLUSH => FlushedOut(p, e))
    /\ st = ZU_NEED_OUTPUT =>
         /\ Len(o) = call.out + call.room
         /\ job.driver = "one_shot" => \A s \in CompleteStreams(job.n, asked) : Len(o) < Len(s)
    /\ st = ZU_ERR_INVALID_ARGUMENT => IsBlock /\ Len(e.in) + (fed - p) > MaxBlockInput
    /\ st = ZU_ERR_INVALID_DATA => IsDeflate /\ ~e.mz.live

ContinueOk(p, o, e) == TurnOk(p, o, e, FALSE) /\ (IsFrame => FrameWire(p, o, e))

\* The five kinds of codec exclude each other.
LEMMA Kinds ==
    ASSUME job.codec \in DOMAIN CodecTable
    PROVE  /\ IsDeflate \/ IsFrame \/ IsZstd \/ IsBlock \/ IsIdentity
           /\ IsDeflate => ~IsFrame /\ ~IsZstd /\ ~IsBlock /\ ~IsIdentity
           /\ IsFrame => ~IsDeflate /\ ~IsZstd /\ ~IsBlock /\ ~IsIdentity
           /\ IsZstd => ~IsDeflate /\ ~IsFrame /\ ~IsBlock /\ ~IsIdentity
           /\ IsBlock => ~IsDeflate /\ ~IsFrame /\ ~IsZstd /\ ~IsIdentity
           /\ IsIdentity => ~IsDeflate /\ ~IsFrame /\ ~IsZstd /\ ~IsBlock
<1>1. job.codec \in {"raw", "zlib", "gzip", "lz4frame", "lz4block", "zstd", "identity"}
  BY CodecTableAssumption
<1>. QED  BY <1>1 DEF IsDeflate, DeflateFamily, IsFrame, IsZstd, IsBlock, IsIdentity

\* What each calls complete.
LEMMA StreamsAre ==
    ASSUME NEW n, NEW lv, job.codec \in DOMAIN CodecTable
    PROVE  /\ IsDeflate => CompleteStreams(n, lv) = {DeflateStream(n, lv)}
           /\ IsFrame => CompleteStreams(n, lv) = Lz4FrameStreams(n, lv)
           /\ IsZstd => CompleteStreams(n, lv) = ZstdStreams(n, lv)
           /\ IsBlock => CompleteStreams(n, lv) = {Lz4BlockStream(n, lv)}
           /\ IsIdentity => CompleteStreams(n, lv) = {Compressed(Input(n), 0)}
<1>. USE Kinds
<1>1. IsDeflate => CompleteStreams(n, lv) = {DeflateStream(n, lv)}
  BY Zenon DEF CompleteStreams
<1>2. IsFrame => CompleteStreams(n, lv) = Lz4FrameStreams(n, lv)
  BY Zenon DEF CompleteStreams
<1>3. IsZstd => CompleteStreams(n, lv) = ZstdStreams(n, lv)
  BY Zenon DEF CompleteStreams
<1>4. IsBlock => CompleteStreams(n, lv) = {Lz4BlockStream(n, lv)}
  BY Zenon DEF CompleteStreams
<1>5. IsIdentity => CompleteStreams(n, lv) = {Compressed(Input(n), 0)}
  BY Zenon DEF CompleteStreams, Input
<1>. QED  BY <1>1, <1>2, <1>3, <1>4, <1>5

\* An ended stream is the one asked for.
LEMMA EndIsWhole ==
    ASSUME NEW p, NEW o, NEW e, p \in Nat, asked \in Int, o \in Seq(Token), job.codec \in DOMAIN CodecTable,
           EncOk(p, o, e, TRUE), IsFrame => FrameWire(p, o, e)
    PROVE  /\ Ending(p)
           /\ NoSyncMarks(o) \in CompleteStreams(p, asked)
           /\ job.driver = "one_shot" => o \in CompleteStreams(p, asked)
<1>0. job.codec \in {"raw", "zlib", "gzip", "lz4frame", "lz4block", "zstd", "identity"}
  BY CodecTableAssumption
<1>1. CASE IsDeflate
  <2>1. CompleteStreams(p, asked) = {DeflateStream(p, asked)}
    BY <1>1, StreamsAre
  <2>2. DeflateOk(p, o, e, TRUE)
    BY <1>1 DEF EncOk
  <2>3. Ending(p) /\ Matches(o, DeflateStream(p, asked))
    BY <2>2 DEF DeflateOk
  <2>. QED  BY <2>1, <2>3 DEF Matches
<1>2. CASE IsFrame
  <2>. DEFINE z == FrameBody(e.size, p) \o FrameTail(p)
  <2>1. CompleteStreams(p, asked) = Lz4FrameStreams(p, asked)
    BY <1>2, StreamsAre
  <2>2. FrameOk(p, o, e, TRUE) /\ FrameWire(p, o, e)
    BY <1>2 DEF EncOk
  <2>3. /\ e \in FrameStates /\ e.done /\ e.ended /\ e.started /\ e.stage = <<>>
        /\ e.cctx.pend = <<>> /\ e.cctx.held = <<>>
        /\ Ending(p) /\ (e.size # 0 => e.size = fed) /\ e.stage_pos <= Len(e.stage)
        /\ o \o Drop(e.stage, e.stage_pos) \o Image(e.cctx) = z
    BY <2>2 DEF FrameOk, FrameWire, FrameSoFar
  <2>4. e.size \in {0, p} /\ e.size \in Nat
    BY <2>3 DEF Ending, FrameStates
  <2>5. o = z
    <3>1. e.stage_pos \in Nat /\ e.stage_pos <= 0
      BY <2>3 DEF FrameStates
    <3>2. Drop(e.stage, e.stage_pos) = <<>>
      <4>1. e.stage_pos = 0
        BY <3>1
      <4>2. Drop(<<>>, 0) = <<>>
        BY DEF Drop
      <4>. QED  BY <2>3, <4>1, <4>2
    <3>3. Image(e.cctx) = <<>>
      <4>1. e.cctx.lead = <<>> /\ e.cctx.level \in Int
        BY <2>3 DEF FrameStates, FrameContexts
      <4>2. Compressed(<<>>, e.cctx.level) = <<>>
        BY <4>1, CompressedEmpty
      <4>3. <<>> \o <<>> = <<>>
        OBVIOUS
      <4>. QED  BY <2>3, <4>1, <4>2, <4>3 DEF Image
    <3>4. o \o <<>> = o
      BY Unit
    <3>. QED  BY <2>3, <3>2, <3>3, <3>4
  <2>6. z \in Lz4FrameStreams(p, asked) /\ Plain(z)
    <3>. DEFINE a == << <<"frame", e.size, 0>> >>
                b == Compressed(Input(p), asked)
                t == << <<"endmark", 0, 0>>, <<"xxh", SumOf(p), 0>> >>
    <3>1. z = (a \o b) \o t
      BY DEF FrameBody, FrameTail
    <3>2. z \in Lz4FrameStreams(p, asked)
      BY <2>4, <3>1 DEF Lz4FrameStreams, Input, SumOf
    <3>3. a \in Seq(Token) /\ Plain(a)
      <4>. DEFINE x == <<"frame", e.size, 0>>
      <4>1. x \in Token /\ x # Sync
        BY <2>4 DEF Token, Sync, Wrapping
      <4>. HIDE DEF x
      <4>2. <<x>> \in Seq(Token) /\ Plain(<<x>>)
        BY <4>1, PlainToken
      <4>. QED  BY <4>2 DEF x
    <3>4. b \in Seq(Token) /\ Plain(b)
      BY InputType, CompressedType, PlainCompressed
    <3>5. t \in Seq(Token) /\ Plain(t)
      <4>. DEFINE x == <<"endmark", 0, 0>>
                  y == <<"xxh", SumOf(p), 0>>
      <4>0. SumOf(p) \in Int
        BY SumGrows
      <4>1. x \in Token /\ x # Sync /\ y \in Token /\ y # Sync
        BY <4>0 DEF Token, Sync, Wrapping
      <4>. HIDE DEF x, y
      <4>2. <<x, y>> \in Seq(Token) /\ Len(<<x, y>>) = 2 /\ <<x, y>>[1] = x /\ <<x, y>>[2] = y
        BY <4>1
      <4>3. \A i \in 1 .. 2 : i = 1 \/ i = 2
        OBVIOUS
      <4>4. Plain(<<x, y>>)
        BY <4>1, <4>2, <4>3 DEF Plain
      <4>. QED  BY <4>2, <4>4 DEF x, y
    <3>. HIDE DEF a, b, t
    <3>6. a \o b \in Seq(Token) /\ Plain(a \o b)
      BY ONLY <3>3, <3>4, Cat, PlainConcat
    <3>7. Plain((a \o b) \o t)
      BY ONLY <3>5, <3>6, PlainConcat
    <3>. QED  BY <3>1, <3>2, <3>7
  <2>. HIDE DEF z
  <2>7. NoSyncMarks(o) = o
    BY <2>5, <2>6, PlainIsKept
  <2>. QED  BY <2>1, <2>3, <2>5, <2>6, <2>7
<1>3. CASE IsZstd
  <2>1. CompleteStreams(p, asked) = ZstdStreams(p, asked)
    BY <1>3, StreamsAre
  <2>2. Ending(p) /\ o \in ZstdStreams(p, asked)
    BY <1>3 DEF EncOk, ZstdOk
  <2>3. Plain(o)
    <3>. DEFINE b == Compressed(Input(p), asked)
                t == << <<"endmark", 0, 0>>, <<"xxh", SumOf(p), 0>> >>
    <3>1. PICK size \in {Unpledged, p} : o = << <<"frame", size, 0>> >> \o b \o t
      BY <2>2 DEF ZstdStreams, Input, SumOf
    <3>. DEFINE a == << <<"frame", size, 0>> >>
    <3>3. a \in Seq(Token) /\ Plain(a)
      <4>. DEFINE x == <<"frame", size, 0>>
      <4>1. x \in Token /\ x # Sync
        BY DEF Token, Sync, Wrapping, Unpledged
      <4>. HIDE DEF x
      <4>2. <<x>> \in Seq(Token) /\ Plain(<<x>>)
        BY <4>1, PlainToken
      <4>. QED  BY <4>2 DEF x
    <3>4. b \in Seq(Token) /\ Plain(b)
      BY InputType, CompressedType, PlainCompressed
    <3>5. t \in Seq(Token) /\ Plain(t)
      <4>. DEFINE x == <<"endmark", 0, 0>>
                  y == <<"xxh", SumOf(p), 0>>
      <4>0. SumOf(p) \in Int
        BY SumGrows
      <4>1. x \in Token /\ x # Sync /\ y \in Token /\ y # Sync
        BY <4>0 DEF Token, Sync, Wrapping
      <4>. HIDE DEF x, y
      <4>2. <<x, y>> \in Seq(Token) /\ Len(<<x, y>>) = 2 /\ <<x, y>>[1] = x /\ <<x, y>>[2] = y
        BY <4>1
      <4>3. \A i \in 1 .. 2 : i = 1 \/ i = 2
        OBVIOUS
      <4>4. Plain(<<x, y>>)
        BY <4>1, <4>2, <4>3 DEF Plain
      <4>. QED  BY <4>2, <4>4 DEF x, y
    <3>. HIDE DEF a, b, t
    <3>6. a \o b \in Seq(Token) /\ Plain(a \o b)
      BY ONLY <3>3, <3>4, Cat, PlainConcat
    <3>7. Plain((a \o b) \o t)
      BY ONLY <3>5, <3>6, PlainConcat
    <3>. QED  BY <3>1, <3>7 DEF a
  <2>. QED  BY <2>1, <2>2, <2>3, PlainIsKept
<1>4. CASE IsBlock
  <2>. DEFINE b == Compressed(Input(p), asked)
              x == <<"last", 0, 0>>
              z == Lz4BlockStream(p, asked)
  <2>1. CompleteStreams(p, asked) = {z}
    BY <1>4, StreamsAre
  <2>2. BlockCodecOk(p, o, e, TRUE)
    BY <1>4 DEF EncOk
  <2>3. /\ e \in BlockStates /\ e.done /\ e.stage = <<>> /\ e.stage_pos <= Len(e.stage)
        /\ Ending(p) /\ o \o Drop(e.stage, e.stage_pos) = z
    BY <2>2 DEF BlockCodecOk
  <2>4. o = z
    <3>1. e.stage_pos \in Nat /\ e.stage_pos <= 0
      BY <2>3 DEF BlockStates
    <3>2. Drop(e.stage, e.stage_pos) = <<>>
      <4>1. e.stage_pos = 0
        BY <3>1
      <4>2. Drop(<<>>, 0) = <<>>
        BY DEF Drop
      <4>. QED  BY <2>3, <4>1, <4>2
    <3>3. o \o <<>> = o
      BY Unit
    <3>. QED  BY <2>3, <3>2, <3>3
  <2>5. Plain(z)
    <3>1. b \in Seq(Token) /\ Plain(b)
      BY InputType, CompressedType, PlainCompressed
    <3>2. z = Append(b, x)
      BY DEF Lz4BlockStream, Input
    <3>3. x \in Token /\ x # Sync
      BY DEF Token, Sync, Wrapping
    <3>. HIDE DEF b, x, z
    <3>4. <<x>> \in Seq(Token) /\ Plain(<<x>>)
      BY <3>3, PlainToken
    <3>5. Append(b, x) = b \o <<x>>
      BY <3>1, <3>3
    <3>6. Plain(b \o <<x>>)
      BY ONLY <3>1, <3>4, PlainConcat
    <3>. QED  BY <3>2, <3>5, <3>6
  <2>. HIDE DEF z
  <2>6. NoSyncMarks(o) = o
    BY <2>4, <2>5, PlainIsKept
  <2>. QED  BY <2>1, <2>3, <2>4, <2>6
<1>5. CASE IsIdentity
  <2>. DEFINE z == Compressed(Input(p), 0)
  <2>1. CompleteStreams(p, asked) = {z}
    BY <1>5, StreamsAre
  <2>2. Ending(p) /\ o = z
    BY <1>5 DEF EncOk, IdentityOk
  <2>3. Plain(z)
    <3>1. 0 \in Int /\ Input(p) \in Seq(Int)
      BY InputType
    <3>. QED  BY <3>1, PlainCompressed
  <2>. HIDE DEF z
  <2>. QED  BY <2>1, <2>2, <2>3, PlainIsKept
<1>. QED  BY <1>0, <1>1, <1>2, <1>3, <1>4, <1>5 DEF IsDeflate, DeflateFamily, IsFrame, IsZstd, IsBlock, IsIdentity

\* What waits and what is held back, by kind of codec.
LEMMA WaitingIs ==
    ASSUME job.codec \in DOMAIN CodecTable
    PROVE  /\ IsDeflate => Undelivered = enc.mz.pend /\ HeldBack = enc.mz.held
           /\ IsFrame => /\ Undelivered = Drop(enc.stage, enc.stage_pos)
                         /\ HeldBack = IF enc.started THEN enc.cctx.held ELSE <<>>
           /\ IsZstd => Undelivered = enc.cctx.pend /\ HeldBack = enc.cctx.held
           /\ IsBlock => Undelivered = Drop(enc.stage, enc.stage_pos) /\ HeldBack = enc.in
           /\ IsIdentity => Undelivered = <<>> /\ HeldBack = <<>>
<1>. USE Kinds
<1>1. IsDeflate => Undelivered = enc.mz.pend /\ HeldBack = enc.mz.held
  BY Zenon DEF Undelivered, HeldBack
<1>2. IsFrame => /\ Undelivered = Drop(enc.stage, enc.stage_pos)
                 /\ HeldBack = IF enc.started THEN enc.cctx.held ELSE <<>>
  BY Zenon DEF Undelivered, HeldBack
<1>3. IsZstd => Undelivered = enc.cctx.pend /\ HeldBack = enc.cctx.held
  BY Zenon DEF Undelivered, HeldBack
<1>4. IsBlock => Undelivered = Drop(enc.stage, enc.stage_pos) /\ HeldBack = enc.in
  BY Zenon DEF Undelivered, HeldBack
<1>5. IsIdentity => Undelivered = <<>> /\ HeldBack = <<>>
  BY Zenon DEF Undelivered, HeldBack
<1>. QED  BY <1>1, <1>2, <1>3, <1>4, <1>5

\* Nothing waits after a flush that asks for more.
LEMMA FlushedOutIs ==
    ASSUME job.codec \in DOMAIN CodecTable, FlushedOut(pos, enc)
    PROVE  pos = fed /\ Undelivered = <<>> /\ HeldBack = <<>>
<1>. USE Kinds, WaitingIs
<1>1. CASE IsDeflate
  BY <1>1 DEF FlushedOut
<1>2. CASE IsFrame
  BY <1>2 DEF FlushedOut
<1>3. CASE IsZstd
  BY <1>3 DEF FlushedOut
<1>4. CASE IsBlock
  BY <1>4 DEF FlushedOut
<1>5. CASE IsIdentity
  BY <1>5 DEF FlushedOut
<1>. QED  BY <1>1, <1>2, <1>3, <1>4, <1>5

\* The facts about jobs the loops rest on.
LEMMA JobIs ==
    ASSUME job \in Jobs
    PROVE  /\ job.driver \in {"whole", "one_shot", "caller"}
           /\ job.codec \in DOMAIN CodecTable
           /\ job.level \in Int /\ CheckLevel(CodecTable[job.codec], job.level)
           /\ job.n \in Nat /\ job.in_chunk \in Nat /\ job.in_chunk > 0
           /\ job.room \in Nat /\ job.flush_every \in Nat
BY EncodeJobsAssumption

\* What a loop makes of a codec's answer that keeps the contract.
LEMMA ResultIs ==
    ASSUME Inv, pc = "process", NEW st, NEW p, NEW o, NEW e, ReturnOk(st, p, o, e)
    PROVE  ResultAfter(st, st, p, o) =
             IF st \in Errors THEN st
             ELSE IF job.driver = "caller" THEN Running
             ELSE IF st = ZU_STREAM_END THEN (IF job.driver = "whole" THEN ZU_STREAM_END ELSE ZU_OK)
             ELSE IF job.driver = "whole" THEN Running ELSE ZU_ERR_OUTPUT_LIMIT
<1>0. st \in CodecAnswers
  BY DEF ReturnOk
<1>1. MayGoOn(st) <=> st = ZU_NEED_INPUT \/ st = ZU_NEED_OUTPUT
  BY <1>0 DEF MayGoOn, CodecAnswers, ZU_OK, ZU_NEED_INPUT, ZU_NEED_OUTPUT, ZU_STREAM_END, ZU_ERR_MEMORY,
              ZU_ERR_INVALID_ARGUMENT, ZU_ERR_INVALID_DATA
<1>2. st \in Errors <=> st # ZU_STREAM_END /\ ~MayGoOn(st)
  BY <1>0 DEF MayGoOn, CodecAnswers, Errors, ZU_OK, ZU_NEED_INPUT, ZU_NEED_OUTPUT, ZU_STREAM_END, ZU_ERR_MEMORY,
              ZU_ERR_INVALID_ARGUMENT, ZU_ERR_INVALID_DATA, ZU_ERR_UNSUPPORTED, ZU_ERR_TRUNCATED,
              ZU_ERR_CHECKSUM, ZU_ERR_TRAILING, ZU_ERR_OUTPUT_LIMIT, ZU_ERR_RATIO_LIMIT, ZU_ERR_INTERNAL
<1>3. job \in Jobs /\ job.driver \in {"whole", "one_shot", "caller"} /\ job.n \in Nat /\ fed \in 0 .. job.n
  BY JobIs DEF Inv, LoopInv
<1>4. ZU_NEED_INPUT # ZU_STREAM_END /\ ZU_NEED_OUTPUT # ZU_STREAM_END /\ ZU_NEED_INPUT # ZU_NEED_OUTPUT
  BY DEF ZU_NEED_INPUT, ZU_NEED_OUTPUT, ZU_STREAM_END
<1>5. CASE job.driver = "whole"
  <2>1. ResultAfter(st, st, p, o) = WholeResult(st, p, o)
    BY <1>5 DEF ResultAfter
  <2>2. st = ZU_NEED_INPUT => ~(fed >= job.n)
    <3>1. st = ZU_NEED_INPUT => flush # ZU_FINISH
      BY DEF ReturnOk
    <3>2. fed = job.n => flush = ZU_FINISH
      BY <1>5 DEF Inv, LoopInv
    <3>. QED  BY <1>3, <3>1, <3>2
  <2>. QED  BY <1>1, <1>2, <1>4, <1>5, <2>1, <2>2 DEF WholeResult
<1>6. CASE job.driver = "one_shot"
  <2>1. ResultAfter(st, st, p, o) = OneShotResult(st, p, o)
    BY <1>6 DEF ResultAfter
  <2>2. st # ZU_NEED_INPUT
    BY <1>6 DEF ReturnOk, Inv, LoopInv
  <2>3. st = ZU_NEED_OUTPUT => Len(o) = job.room
    BY <1>6 DEF ReturnOk, Inv, LoopInv
  <2>. QED  BY <1>1, <1>2, <1>4, <1>6, <2>1, <2>2, <2>3 DEF OneShotResult
<1>7. CASE job.driver = "caller"
  <2>1. ResultAfter(st, st, p, o) = IF st \in Errors THEN st ELSE Running
    BY <1>7 DEF ResultAfter
  <2>. QED  BY <1>7, <2>1
<1>. QED  BY <1>3, <1>5, <1>6, <1>7

Good == Inv /\ FlushDelivers /\ ErrorsHaveACause /\ OneShotVerdict

\* An answer that keeps the contract keeps the invariant.
LEMMA ReturnKeeps ==
    ASSUME Inv, Asked, NEW st, NEW p, NEW o, NEW e, ReturnOk(st, p, o, e), Return(st, p, o, e)
    PROVE  Good'
<1>0. pc = "process" /\ ~finished /\ result = Running
  BY DEF Asked, HandleRefuses, Refused, Inv, LoopInv
<1>1. /\ pos' = p /\ out' = o /\ enc' = e
      /\ last' = Answer("process", st, st, fed - p)
      /\ result' = ResultAfter(st, st, p, o)
      /\ pc' = IF result' = Running \/ job.driver = "caller" THEN "call" ELSE "close"
      /\ UNCHANGED <<job, fed, flush, call, resets, level, asked>>
  BY DEF Return, Answered
<1>2. finished' = (st = ZU_STREAM_END)
  BY <1>0 DEF Return, Answered
<1>3. result' = IF st \in Errors THEN st
                ELSE IF job.driver = "caller" THEN Running
                ELSE IF st = ZU_STREAM_END THEN (IF job.driver = "whole" THEN ZU_STREAM_END ELSE ZU_OK)
                ELSE IF job.driver = "whole" THEN Running ELSE ZU_ERR_OUTPUT_LIMIT
  <2>1. ResultAfter(st, st, p, o) =
             IF st \in Errors THEN st
             ELSE IF job.driver = "caller" THEN Running
             ELSE IF st = ZU_STREAM_END THEN (IF job.driver = "whole" THEN ZU_STREAM_END ELSE ZU_OK)
             ELSE IF job.driver = "whole" THEN Running ELSE ZU_ERR_OUTPUT_LIMIT
    BY <1>0, ResultIs
  <2>. QED  BY <1>1, <2>1
<1>4. /\ job \in Jobs /\ job.driver \in {"whole", "one_shot", "caller"}
      /\ job.codec \in DOMAIN CodecTable /\ job.n \in Nat /\ job.room \in Nat
  BY JobIs DEF Inv, LoopInv
<1>5. /\ p \in pos .. fed /\ o \in Seq(Token) /\ Len(out) <= Len(o) /\ Len(o) <= call.out + call.room
      /\ EncOk(p, o, e, st = ZU_STREAM_END)
  BY DEF ReturnOk, TurnOk
<1>6. fed \in 0 .. job.n /\ pos \in 0 .. fed /\ asked \in Int /\ call \in [pos : Nat, out : Nat, room : Nat]
  BY DEF Inv, LoopInv
<1>7. p \in 0 .. fed /\ p \in Nat /\ fed \in Nat /\ p <= fed
  BY <1>4, <1>5, <1>6
<1>8. st \in CodecAnswers
  BY DEF ReturnOk
<1>9. /\ st \in Status /\ (st \in Errors => st # ZU_STREAM_END) /\ Running \notin Errors
      /\ Running # ZU_STREAM_END /\ Running # ZU_OK /\ Running # ZU_ERR_OUTPUT_LIMIT
      /\ ZU_STREAM_END # ZU_ERR_MEMORY /\ ZU_OK # ZU_ERR_MEMORY /\ ZU_ERR_OUTPUT_LIMIT # ZU_ERR_MEMORY
      /\ ZU_STREAM_END \in Status /\ ZU_OK \in Status /\ ZU_ERR_OUTPUT_LIMIT \in Status
      /\ Running # ZU_ERR_MEMORY
  BY <1>8 DEF CodecAnswers, Status, Progress, Errors, Running, ZU_OK, ZU_NEED_INPUT, ZU_NEED_OUTPUT,
              ZU_STREAM_END, ZU_ERR_MEMORY, ZU_ERR_INVALID_ARGUMENT, ZU_ERR_INVALID_DATA,
              ZU_ERR_UNSUPPORTED, ZU_ERR_TRUNCATED, ZU_ERR_CHECKSUM, ZU_ERR_TRAILING,
              ZU_ERR_OUTPUT_LIMIT, ZU_ERR_RATIO_LIMIT, ZU_ERR_INTERNAL
<1>10. result' \in Status \cup {Running}
  BY <1>3, <1>9
<1>11. result' = ZU_ERR_MEMORY <=> st = ZU_ERR_MEMORY
  <2>1. ZU_ERR_MEMORY \in Errors
    BY DEF Errors
  <2>. QED  BY <1>3, <1>9, <2>1
<1>12. pc' \in {"call", "close"}
  BY <1>1
<1>13. LoopInv'
  <2>1. job.driver = "one_shot" => Len(o) <= job.room
    BY <1>0, <1>5 DEF Inv, LoopInv
  <2>2. pc' = "call" /\ job.driver # "caller" => result' = Running /\ ~finished'
    <3>1. CASE pc' = "call" /\ job.driver # "caller"
      <4>1. result' = Running
        BY <1>1, <3>1
      <4>2. st # ZU_STREAM_END
        BY <1>3, <1>4, <1>9, <3>1, <4>1
      <4>. QED  BY <1>2, <4>1, <4>2
    <3>. QED  BY <3>1
  <2>3. finished' \in BOOLEAN
    BY <1>2
  <2>. QED  BY <1>1, <1>5, <1>7, <1>10, <1>12, <2>1, <2>2, <2>3 DEF Inv, LoopInv
<1>14. EncOk(pos, out, enc, finished)'
  BY <1>1, <1>2, <1>5, EncOkSame
<1>15. IsFrame' => ~enc'.flushed /\ (result' = ZU_ERR_MEMORY => ~finished')
  <2>1. IsFrame' => IsFrame
    BY <1>1 DEF IsFrame
  <2>2. IsFrame => ~e.flushed
    BY DEF ReturnOk
  <2>. QED  BY <1>1, <1>2, <1>9, <1>11, <2>1, <2>2
<1>16. IsFrame' /\ result' # ZU_ERR_MEMORY => FrameWire(pos, out, enc)'
  <2>1. IsFrame' => IsFrame
    BY <1>1 DEF IsFrame
  <2>2. CASE IsFrame /\ st # ZU_ERR_MEMORY
    <3>1. FrameWire(p, o, e)
      BY <2>2 DEF ReturnOk
    <3>. QED  BY <1>1, <3>1, FrameWireSame
  <2>. QED  BY <1>11, <2>1, <2>2
<1>17. CodecInv'
  BY <1>14, <1>15, <1>16 DEF CodecInv
<1>18. FlushDelivers'
  <2>1. CASE flush = ZU_FLUSH /\ st = ZU_NEED_INPUT
    <3>1. FlushedOut(p, e)
      BY <2>1 DEF ReturnOk
    <3>2. FlushedOut(pos, enc)'
      BY <1>1, <3>1 DEF FlushedOut, IsDeflate, DeflateFamily, IsFrame, IsZstd, IsBlock
    <3>3. (job.codec \in DOMAIN CodecTable)'
      BY <1>1, <1>4
    <3>4. (pos = fed /\ Undelivered = <<>> /\ HeldBack = <<>>)'
      BY <3>2, <3>3, FlushedOutIs, PTL
    <3>. QED  BY <3>4 DEF FlushDelivers
  <2>2. CASE ~(flush = ZU_FLUSH /\ st = ZU_NEED_INPUT)
    <3>1. last'.st = st /\ flush' = flush
      BY <1>1 DEF Answer
    <3>. QED  BY <2>2, <3>1 DEF FlushDelivers
  <2>. QED  BY <2>1, <2>2
<1>19. ErrorsHaveACause'
  <2>1. last'.status = st /\ last'.st = st /\ last'.left = fed - p
    BY <1>1 DEF Answer
  <2>2. result' # ZU_ERR_INTERNAL
    BY <1>3, <1>8 DEF CodecAnswers, Running, ZU_OK, ZU_NEED_INPUT, ZU_NEED_OUTPUT, ZU_STREAM_END,
                ZU_ERR_MEMORY, ZU_ERR_INVALID_ARGUMENT, ZU_ERR_INVALID_DATA, ZU_ERR_OUTPUT_LIMIT, ZU_ERR_INTERNAL
  <2>3. st = ZU_ERR_INVALID_ARGUMENT => (IsBlock /\ Len(enc.in) + last.left > MaxBlockInput)'
    BY <1>1, <2>1 DEF ReturnOk, IsBlock
  <2>4. st = ZU_ERR_INVALID_DATA => ~Usable'
    BY <1>1 DEF ReturnOk, Usable, IsDeflate
  <2>. DEFINE M == ZU_ERR_MEMORY
              A == ZU_ERR_INVALID_ARGUMENT
              D == ZU_ERR_INVALID_DATA
              U == ZU_ERR_UNSUPPORTED
  <2>5. M # A /\ M # D /\ M # U /\ A # D /\ A # U /\ D # U
    BY DEF ZU_ERR_MEMORY, ZU_ERR_INVALID_ARGUMENT, ZU_ERR_INVALID_DATA, ZU_ERR_UNSUPPORTED
  <2>6. st \in Errors => st = M \/ st = A \/ st = D
    BY <1>8 DEF CodecAnswers, Errors, ZU_OK, ZU_NEED_INPUT, ZU_NEED_OUTPUT, ZU_STREAM_END, ZU_ERR_MEMORY,
              ZU_ERR_INVALID_ARGUMENT, ZU_ERR_INVALID_DATA, ZU_ERR_UNSUPPORTED, ZU_ERR_TRUNCATED,
              ZU_ERR_CHECKSUM, ZU_ERR_TRAILING, ZU_ERR_OUTPUT_LIMIT, ZU_ERR_RATIO_LIMIT, ZU_ERR_INTERNAL
  <2>. HIDE DEF M, A, D, U
  <2>. QED  BY <2>1, <2>2, <2>3, <2>4, <2>5, <2>6 DEF ErrorsHaveACause, M, A, D, U
<1>20. OneShotVerdict'
  <2>. SUFFICES ASSUME (/\ job.driver = "one_shot" /\ pc \in {"close", "closed"}
                        /\ result \notin {ZU_ERR_MEMORY, ZU_ERR_INVALID_ARGUMENT})'
                PROVE  (result = IF \E s \in CompleteStreams(job.n, asked) : Len(s) <= job.room
                                   THEN ZU_OK ELSE ZU_ERR_OUTPUT_LIMIT)'
    BY DEF OneShotVerdict
  <2>1. job.driver = "one_shot" /\ result' # ZU_ERR_MEMORY /\ result' # ZU_ERR_INVALID_ARGUMENT
    BY <1>1
  <2>2. CompleteStreams(job.n, asked)' = CompleteStreams(job.n, asked)
    BY <1>1 DEF CompleteStreams, IsDeflate, DeflateFamily, IsFrame, IsZstd, IsBlock, IsIdentity,
                DeflateStream, HeaderBytes, TrailerBytes, Lz4FrameStreams, ZstdStreams, Lz4BlockStream
  <2>3. flush = ZU_FINISH /\ fed = job.n /\ call.out + call.room = job.room
    BY <1>0, <2>1 DEF Inv, LoopInv
  <2>4. CASE st = ZU_STREAM_END
    <3>1. Ending(p) /\ o \in CompleteStreams(p, asked)
      <4>1. EncOk(p, o, e, TRUE) /\ (IsFrame => FrameWire(p, o, e))
        BY <1>5, <1>9, <2>4 DEF ReturnOk
      <4>. QED  BY <1>4, <1>5, <1>6, <1>7, <2>1, <4>1, EndIsWhole
    <3>2. o \in CompleteStreams(job.n, asked) /\ Len(o) <= job.room
      BY <1>5, <2>3, <3>1 DEF Ending
    <3>3. result' = ZU_OK
      BY <1>3, <1>9, <2>1, <2>4
    <3>. QED  BY <1>1, <2>2, <3>2, <3>3
  <2>5. CASE st # ZU_STREAM_END
    <3>1. st = ZU_NEED_OUTPUT
      <4>1. st \notin Errors
        <5>1. CASE st \in Errors
          <6>1. result' = st
            BY <1>3, <5>1
          <6>2. st = ZU_ERR_INVALID_DATA
            BY <1>8, <2>1, <5>1, <6>1 DEF CodecAnswers, Errors, ZU_OK, ZU_NEED_INPUT, ZU_NEED_OUTPUT, ZU_STREAM_END, ZU_ERR_MEMORY,
              ZU_ERR_INVALID_ARGUMENT, ZU_ERR_INVALID_DATA, ZU_ERR_UNSUPPORTED, ZU_ERR_TRUNCATED,
              ZU_ERR_CHECKSUM, ZU_ERR_TRAILING, ZU_ERR_OUTPUT_LIMIT, ZU_ERR_RATIO_LIMIT, ZU_ERR_INTERNAL
          <6>3. IsDeflate /\ ~e.mz.live
            BY <6>2 DEF ReturnOk
          <6>4. e.mz.live
            <7>1. DeflateOk(p, o, e, st = ZU_STREAM_END)
              BY <1>5, <6>3 DEF EncOk
            <7>. QED  BY <2>1, <7>1 DEF DeflateOk
          <6>. QED  BY <6>3, <6>4
        <5>. QED  BY <5>1
      <4>2. st # ZU_NEED_INPUT
        BY <2>3 DEF ReturnOk
      <4>. QED  BY <1>8, <2>5, <4>1, <4>2 DEF CodecAnswers, Errors
    <3>2. result' = ZU_ERR_OUTPUT_LIMIT
      <4>1. st \notin Errors
        BY <3>1 DEF Errors, ZU_NEED_OUTPUT, ZU_ERR_MEMORY,
              ZU_ERR_INVALID_ARGUMENT, ZU_ERR_INVALID_DATA, ZU_ERR_UNSUPPORTED, ZU_ERR_TRUNCATED,
              ZU_ERR_CHECKSUM, ZU_ERR_TRAILING, ZU_ERR_OUTPUT_LIMIT, ZU_ERR_RATIO_LIMIT, ZU_ERR_INTERNAL
      <4>. QED  BY <1>3, <2>1, <2>5, <4>1
    <3>3. Len(o) = job.room /\ \A s \in CompleteStreams(job.n, asked) : Len(o) < Len(s)
      BY <2>1, <2>3, <3>1 DEF ReturnOk
    <3>4. \A s \in CompleteStreams(job.n, asked) : ~(Len(s) <= job.room)
      <4>. SUFFICES ASSUME NEW s \in CompleteStreams(job.n, asked), Len(s) <= job.room PROVE FALSE
        OBVIOUS
      <4>1. job.room < Len(s)
        BY <3>3
      <4>2. job.room \in Nat
        BY <1>4
      <4>. QED  BY <4>1, <4>2
    <3>. QED  BY <1>1, <2>2, <3>2, <3>4
  <2>. QED  BY <2>4, <2>5
<1>. QED  BY <1>13, <1>17, <1>18, <1>19, <1>20 DEF Good, Inv

\* So does another turn.
LEMMA ContinueKeeps ==
    ASSUME Inv, Asked, NEW p, NEW o, NEW e, ContinueOk(p, o, e), Continue(p, o, e)
    PROVE  Good'
<1>0. pc = "process" /\ finished = FALSE /\ result = Running /\ finished \in BOOLEAN
  BY DEF Asked, HandleRefuses, Refused, Inv, LoopInv
<1>1. /\ pos' = p /\ out' = o /\ enc' = e
      /\ UNCHANGED <<job, pc, fed, flush, call, calls, resets, finished, level, asked, last, result>>
  BY DEF Continue
<1>2. /\ p \in pos .. fed /\ o \in Seq(Token) /\ Len(out) <= Len(o) /\ Len(o) <= call.out + call.room
      /\ EncOk(p, o, e, FALSE)
  BY DEF ContinueOk, TurnOk
<1>3. /\ job \in Jobs /\ job.n \in Nat /\ job.room \in Nat
      /\ fed \in 0 .. job.n /\ pos \in 0 .. fed /\ call \in [pos : Nat, out : Nat, room : Nat]
      /\ Len(out) \in Nat /\ call.out <= Len(out)
  BY <1>0, JobIs DEF Inv, LoopInv
<1>4. p \in 0 .. fed /\ call.out <= Len(o)
  <2>1. p \in 0 .. fed
    BY <1>2, <1>3
  <2>2. call.out \in Nat /\ Len(o) \in Nat
    BY <1>2, <1>3
  <2>. QED  BY <1>2, <1>3, <2>1, <2>2
<1>5. LoopInv'
  <2>1. job.driver = "one_shot" => Len(o) <= job.room
    BY <1>0, <1>2 DEF Inv, LoopInv
  <2>. QED  BY <1>0, <1>1, <1>2, <1>4, <2>1 DEF Inv, LoopInv
<1>6. EncOk(pos, out, enc, finished)'
  BY <1>0, <1>1, <1>2, EncOkSame
<1>7. IsFrame' => FrameWire(pos, out, enc)'
  <2>1. IsFrame' => IsFrame
    BY <1>1 DEF IsFrame
  <2>2. CASE IsFrame
    <3>1. FrameWire(p, o, e)
      BY <2>2 DEF ContinueOk
    <3>. QED  BY <1>1, <3>1, FrameWireSame
  <2>. QED  BY <2>1, <2>2
<1>8. CodecInv'
  <2>1. ~HandleRefuses' /\ pc' = "process"
    BY <1>1 DEF Asked, HandleRefuses
  <2>. QED  BY <1>0, <1>1, <1>6, <1>7, <2>1 DEF CodecInv
<1>9. FlushDelivers' /\ ErrorsHaveACause' /\ OneShotVerdict'
  <2>1. Running # ZU_ERR_INTERNAL
    BY DEF Running, ZU_ERR_INTERNAL
  <2>. QED  BY <1>0, <1>1, <2>1 DEF FlushDelivers, ErrorsHaveACause, OneShotVerdict
<1>. QED  BY <1>5, <1>8, <1>9 DEF Good, Inv

----------------------------------------------------------------------------
\* The invariant of a live handle.
LEMMA LiveInv ==
    ASSUME Inv, pc \in {"call", "process", "close"}
    PROVE  /\ EncOk(pos, out, enc, finished)
           /\ IsFrame /\ result # ZU_ERR_MEMORY => FrameWire(pos, out, enc)
           /\ IsFrame /\ result = ZU_ERR_MEMORY => ~finished
           /\ IsFrame /\ (pc # "process" \/ HandleRefuses) => ~enc.flushed
BY DEF Inv, CodecInv

\* A new call.
LEMMA CallKeeps ==
    ASSUME Good, pc = "call", result = Running, NEW room, room \in Nat, Enter(room),
           fed' \in fed .. job.n, flush' \in Flush,
           flush = ZU_FINISH => fed' = fed /\ flush' = flush,
           job.driver # "caller" /\ flush' = ZU_FINISH => fed' = job.n,
           job.driver = "whole" => (fed' = job.n <=> flush' = ZU_FINISH),
           job.driver = "one_shot" => flush' = ZU_FINISH /\ fed' = job.n /\ Len(out) + room = job.room
    PROVE  Good'
<1>1. /\ call' = [pos |-> pos, out |-> Len(out), room |-> room]
      /\ pc' = "process"
      /\ UNCHANGED <<job, pos, out, calls, resets, finished, level, asked, enc, last, result>>
  BY DEF Enter
<1>2. /\ job \in Jobs /\ job.n \in Nat /\ fed \in 0 .. job.n /\ pos \in 0 .. fed
      /\ out \in Seq(Token) /\ Len(out) \in Nat
  BY JobIs DEF Good, Inv, LoopInv
<1>3. fed' \in 0 .. job.n /\ pos \in 0 .. fed' /\ pos \in Nat
  BY <1>2
<1>4. call' \in [pos : Nat, out : Nat, room : Nat] /\ call'.out = Len(out) /\ call'.room = room
  BY <1>1, <1>2, <1>3
<1>5. LoopInv'
  <2>1. Len(out) <= Len(out) /\ Len(out) <= Len(out) + room
    BY <1>2
  <2>2. ZU_FINISH # ZU_FLUSH
    BY DEF ZU_FINISH, ZU_FLUSH
  <2>. QED  BY <1>1, <1>3, <1>4, <2>1, <2>2 DEF Good, Inv, LoopInv
<1>6. /\ EncOk(pos, out, enc, finished) /\ (IsFrame => ~enc.flushed)
      /\ (IsFrame => FrameWire(pos, out, enc))
  <2>1. Running # ZU_ERR_MEMORY
    BY DEF Running, ZU_ERR_MEMORY
  <2>2. pc # "process"
    OBVIOUS
  <2>. QED  BY <2>1, <2>2, LiveInv DEF Good
<1>7. EncOk(pos, out, enc, finished)'
  BY <1>1, <1>6, EncOkCalled
<1>8. IsFrame' => FrameWire(pos, out, enc)'
  <2>1. IsFrame' => IsFrame
    BY <1>1 DEF IsFrame
  <2>2. CASE IsFrame
    BY <1>1, <1>6, <2>2, FrameWireCalled
  <2>. QED  BY <2>1, <2>2
<1>9. CodecInv'
  <2>1. result' # ZU_ERR_MEMORY
    BY <1>1 DEF Running, ZU_ERR_MEMORY
  <2>2. IsFrame' => ~enc'.flushed
    BY <1>1, <1>6 DEF IsFrame
  <2>. QED  BY <1>1, <1>7, <1>8, <2>1, <2>2 DEF CodecInv
<1>10. FlushDelivers' /\ ErrorsHaveACause' /\ OneShotVerdict'
  <2>1. Running # ZU_ERR_INTERNAL
    BY DEF Running, ZU_ERR_INTERNAL
  <2>. QED  BY <1>1, <2>1 DEF FlushDelivers, ErrorsHaveACause, OneShotVerdict
<1>. QED  BY <1>5, <1>9, <1>10 DEF Good, Inv

\* The three loops make their calls.
LEMMA CallsKeep ==
    ASSUME Good, CallWhole \/ CallOneShot \/ CallByCaller
    PROVE  Good'
<1>0. /\ job \in Jobs /\ job.n \in Nat /\ job.room \in Nat /\ fed \in 0 .. job.n
      /\ job.in_chunk \in Nat /\ Len(out) \in Nat /\ flush \in Flush
      /\ job.driver \in {"whole", "one_shot", "caller"}
  BY JobIs DEF Good, Inv, LoopInv
<1>1. CASE CallWhole
  <2>1. pc = "call" /\ job.driver = "whole" /\ Enter(job.room) /\ flush' = WholeFlush
        /\ fed' = IF pos = fed THEN fed + Least(job.n - fed, job.in_chunk) ELSE fed
    BY <1>1 DEF CallWhole
  <2>2. result = Running /\ (flush = ZU_FINISH => fed = job.n)
    BY <2>1 DEF Good, Inv, LoopInv
  <2>3. fed' \in fed .. job.n
    <3>. DEFINE k == Least(job.n - fed, job.in_chunk)
    <3>1. k \in 0 .. job.n - fed
      BY <1>0 DEF Least
    <3>. HIDE DEF k
    <3>2. fed' = fed \/ fed' = fed + k
      BY <2>1 DEF k
    <3>. QED  BY <1>0, <3>1, <3>2
  <2>4. flush' \in Flush /\ (fed' = job.n <=> flush' = ZU_FINISH)
    <3>1. fed' \in Nat /\ (fed' >= job.n <=> fed' = job.n)
      BY <1>0, <2>3
    <3>. QED  BY <2>1, <3>1 DEF WholeFlush, Flush, ZU_RUN, ZU_FLUSH, ZU_FINISH
  <2>5. flush = ZU_FINISH => fed' = fed /\ flush' = flush
    <3>1. flush = ZU_FINISH => fed' = job.n /\ fed = job.n
      BY <1>0, <2>2, <2>3
    <3>. QED  BY <2>4, <3>1
  <2>6. job.driver # "one_shot"
    BY <2>1
  <2>. QED  BY <1>0, <2>1, <2>2, <2>3, <2>4, <2>5, <2>6, CallKeeps
<1>2. CASE CallOneShot
  <2>1. /\ pc = "call" /\ job.driver = "one_shot" /\ Enter(job.room - Len(out))
        /\ flush' = ZU_FINISH /\ fed' = job.n
    BY <1>2 DEF CallOneShot
  <2>2. /\ result = Running /\ (flush = ZU_FINISH => fed = job.n) /\ Len(out) <= job.room
    BY <2>1 DEF Good, Inv, LoopInv
  <2>. DEFINE room == job.room - Len(out)
  <2>3. room \in Nat /\ Len(out) + room = job.room
    BY <1>0, <2>2
  <2>4. fed' \in fed .. job.n /\ flush' \in Flush /\ (flush = ZU_FINISH => fed' = fed /\ flush' = flush)
    BY <1>0, <2>1, <2>2 DEF Flush
  <2>5. job.driver # "whole" /\ Enter(room)
    BY <2>1
  <2>. HIDE DEF room
  <2>. QED  BY <2>1, <2>2, <2>3, <2>4, <2>5, CallKeeps
<1>3. CASE CallByCaller
  <2>1. PICK room \in 0 .. job.room : Enter(room)
    BY <1>3 DEF CallByCaller
  <2>2. /\ pc = "call" /\ job.driver = "caller" /\ result = Running
        /\ IF flush = ZU_FINISH THEN UNCHANGED <<fed, flush>>
           ELSE fed' \in fed .. job.n /\ flush' \in Flush
    BY <1>3 DEF CallByCaller
  <2>3. /\ fed' \in fed .. job.n /\ flush' \in Flush
        /\ (flush = ZU_FINISH => fed' = fed /\ flush' = flush)
    BY <1>0, <2>2
  <2>4. room \in Nat /\ job.driver # "whole" /\ job.driver # "one_shot"
    BY <1>0, <2>2
  <2>. QED  BY <2>1, <2>2, <2>3, <2>4, CallKeeps
<1>. QED  BY <1>1, <1>2, <1>3

\* The handle answers alone.
LEMMA RefusesKeeps ==
    ASSUME Good, Refuses
    PROVE  Good'
<1>. DEFINE status == Refusal(finished, AvailIn)
<1>0. pc = "process" /\ HandleRefuses /\ result = Running
  BY DEF Refuses, Good, Inv, LoopInv
<1>1. /\ UNCHANGED <<pos, out, enc, job, fed, flush, call, resets, level, asked>>
      /\ last' = Answer("process", status, NotAsked, fed - pos)
      /\ result' = ResultAfter(status, NotAsked, pos, out)
      /\ pc' = IF result' = Running \/ job.driver = "caller" THEN "call" ELSE "close"
  BY DEF Refuses, Answered
<1>2. finished' = finished
  <2>1. NotAsked # ZU_STREAM_END /\ finished \in BOOLEAN
    BY DEF NotAsked, ZU_STREAM_END, Good, Inv, LoopInv
  <2>. QED  BY <2>1 DEF Refuses, Answered
<1>3. job \in Jobs /\ job.driver \in {"whole", "one_shot", "caller"}
  BY JobIs DEF Good, Inv, LoopInv
<1>4. job.driver # "one_shot"
  BY <1>0 DEF HandleRefuses, Refused, Good, Inv, LoopInv, ZU_FINISH, ZU_FLUSH
<1>5. result' = IF job.driver = "caller" THEN Running ELSE ZU_ERR_UNSUPPORTED
  <2>1. CASE job.driver = "caller"
    <3>1. NotAsked \notin Errors
      BY DEF NotAsked, Errors, ZU_ERR_MEMORY,
              ZU_ERR_INVALID_ARGUMENT, ZU_ERR_INVALID_DATA, ZU_ERR_UNSUPPORTED, ZU_ERR_TRUNCATED,
              ZU_ERR_CHECKSUM, ZU_ERR_TRAILING, ZU_ERR_OUTPUT_LIMIT, ZU_ERR_RATIO_LIMIT, ZU_ERR_INTERNAL
    <3>2. ResultAfter(status, NotAsked, pos, out) = IF NotAsked \in Errors THEN NotAsked ELSE Running
      BY <2>1 DEF ResultAfter
    <3>. QED  BY <1>1, <2>1, <3>1, <3>2
  <2>2. CASE job.driver = "whole"
    <3>1. status = ZU_ERR_UNSUPPORTED
      BY <1>0, <2>2 DEF Refusal, Good, Inv, LoopInv
    <3>2. ~MayGoOn(ZU_ERR_UNSUPPORTED)
      BY DEF MayGoOn, ZU_ERR_UNSUPPORTED, ZU_OK, ZU_NEED_INPUT, ZU_NEED_OUTPUT
    <3>3. ResultAfter(status, NotAsked, pos, out) = WholeResult(status, pos, out)
      BY <2>2 DEF ResultAfter
    <3>. QED  BY <1>1, <2>2, <3>1, <3>2, <3>3 DEF WholeResult
  <2>. QED  BY <1>3, <1>4, <2>1, <2>2
<1>. DEFINE U == ZU_ERR_UNSUPPORTED
            M == ZU_ERR_MEMORY
<1>6. /\ U \in Status /\ U # Running /\ U # M /\ U # ZU_ERR_INTERNAL /\ Running # ZU_ERR_INTERNAL
      /\ Running # M
  BY DEF Status, Errors, Running, ZU_ERR_MEMORY, ZU_ERR_INTERNAL, ZU_ERR_UNSUPPORTED
<1>7. pc' \in {"call", "close"} /\ (pc' = "call" => job.driver = "caller")
  BY <1>1, <1>5, <1>6
<1>. HIDE DEF status
<1>8. LoopInv'
  <2>1. result' \in Status \cup {Running}
    BY <1>5, <1>6
  <2>. QED  BY <1>1, <1>2, <1>7, <2>1 DEF Good, Inv, LoopInv
<1>9. EncOk(pos, out, enc, finished) /\ (IsFrame => FrameWire(pos, out, enc))
  BY <1>0, <1>6, LiveInv DEF Good
<1>10. EncOk(pos, out, enc, finished)'
  BY <1>1, <1>2, <1>9, EncOkSame
<1>11. IsFrame' => FrameWire(pos, out, enc)'
  <2>1. IsFrame' => IsFrame
    BY <1>1 DEF IsFrame
  <2>2. CASE IsFrame
    BY <1>1, <1>9, <2>2, FrameWireSame
  <2>. QED  BY <2>1, <2>2
<1>12. IsFrame' => ~enc'.flushed
  <2>1. IsFrame' => IsFrame
    BY <1>1 DEF IsFrame
  <2>2. IsFrame => ~enc.flushed
    BY <1>0, LiveInv DEF Good
  <2>. QED  BY <1>1, <2>1, <2>2
<1>13. CodecInv'
  <2>1. result' # ZU_ERR_MEMORY
    BY <1>5, <1>6
  <2>. QED  BY <1>10, <1>11, <1>12, <2>1 DEF CodecInv
<1>14. last'.status = status /\ last'.st = NotAsked /\ last'.left = fed - pos /\ last'.op = "process"
  BY <1>1 DEF Answer
<1>15. FlushDelivers'
  <2>1. NotAsked # ZU_NEED_INPUT
    BY DEF NotAsked, ZU_NEED_INPUT
  <2>. QED  BY <1>14, <2>1 DEF FlushDelivers
<1>16. OneShotVerdict'
  BY <1>1, <1>4 DEF OneShotVerdict
<1>17. ErrorsHaveACause'
  <2>. DEFINE A == ZU_ERR_INVALID_ARGUMENT
              D == ZU_ERR_INVALID_DATA
  <2>1. M # A /\ M # D /\ M # U /\ A # D /\ A # U /\ D # U
    BY DEF ZU_ERR_MEMORY, ZU_ERR_INVALID_ARGUMENT, ZU_ERR_INVALID_DATA, ZU_ERR_UNSUPPORTED
  <2>2. status \in Errors => status = A \/ status = U
    BY DEF status, Refusal, Errors, ZU_STREAM_END, ZU_ERR_MEMORY, ZU_ERR_INVALID_ARGUMENT, ZU_ERR_INVALID_DATA,
              ZU_ERR_UNSUPPORTED, ZU_ERR_TRUNCATED,
              ZU_ERR_CHECKSUM, ZU_ERR_TRAILING, ZU_ERR_OUTPUT_LIMIT, ZU_ERR_RATIO_LIMIT, ZU_ERR_INTERNAL
  <2>3. status = A => finished /\ AvailIn > 0
    BY DEF status, Refusal, ZU_STREAM_END, ZU_ERR_INVALID_ARGUMENT, ZU_ERR_UNSUPPORTED
  <2>4. status = U => flush = ZU_FLUSH /\ ~CodecTable[job.codec].can_flush
    BY <1>0 DEF status, Refusal, HandleRefuses, Refused, ZU_STREAM_END, ZU_ERR_INVALID_ARGUMENT, ZU_ERR_UNSUPPORTED
  <2>5. status = A => (finished /\ last.left > 0)'
    BY <1>2, <1>14, <2>3 DEF AvailIn
  <2>6. status = U => (flush = ZU_FLUSH /\ ~CodecTable[job.codec].can_flush)'
    BY <1>1, <2>4
  <2>7. result' # ZU_ERR_INTERNAL
    BY <1>5, <1>6
  <2>. HIDE DEF M, A, D, U
  <2>. QED  BY <1>14, <2>1, <2>2, <2>5, <2>6, <2>7 DEF ErrorsHaveACause, M, A, D, U
<1>. QED  BY <1>8, <1>13, <1>15, <1>16, <1>17 DEF Good, Inv

\* A step that changes nothing.
LEMMA StutterKeeps ==
    ASSUME Good, UNCHANGED encVars
    PROVE  Good'
<1>0. UNCHANGED <<job, pc, fed, pos, out, flush, call, calls, resets, finished, level, asked, enc, last, result>>
  BY DEF encVars
<1>1. LoopInv'
  BY <1>0 DEF Good, Inv, LoopInv
<1>2. CodecInv'
  <2>1. CASE pc = "open" \/ (pc = "closed" /\ enc = NoState /\ ~finished)
    BY <1>0, <2>1 DEF CodecInv
  <2>2. CASE ~(pc = "open" \/ (pc = "closed" /\ enc = NoState /\ ~finished))
    <3>1. /\ EncOk(pos, out, enc, finished)
          /\ IsFrame /\ result # ZU_ERR_MEMORY => FrameWire(pos, out, enc)
          /\ IsFrame /\ result = ZU_ERR_MEMORY => ~finished
          /\ IsFrame /\ (pc # "process" \/ HandleRefuses) => ~enc.flushed
      BY <2>2 DEF Good, Inv, CodecInv
    <3>2. EncOk(pos, out, enc, finished)'
      BY <1>0, <3>1, EncOkSame
    <3>3. IsFrame' = IsFrame /\ HandleRefuses' = HandleRefuses
      BY <1>0 DEF IsFrame, HandleRefuses
    <3>4. IsFrame /\ result # ZU_ERR_MEMORY => FrameWire(pos, out, enc)'
      <4>1. CASE IsFrame /\ result # ZU_ERR_MEMORY
        BY <1>0, <3>1, <4>1, FrameWireSame
      <4>. QED  BY <4>1
    <3>. QED  BY <1>0, <3>1, <3>2, <3>3, <3>4 DEF CodecInv
  <2>. QED  BY <2>1, <2>2
<1>3. /\ IsDeflate' = IsDeflate /\ IsFrame' = IsFrame /\ IsZstd' = IsZstd /\ IsBlock' = IsBlock
      /\ IsIdentity' = IsIdentity
  BY <1>0 DEF IsDeflate, DeflateFamily, IsFrame, IsZstd, IsBlock, IsIdentity
<1>4. FlushDelivers'
  BY <1>0, <1>3 DEF Good, FlushDelivers, Opened, Undelivered, HeldBack
<1>5. ErrorsHaveACause'
  BY <1>0, <1>3 DEF Good, ErrorsHaveACause, Usable
<1>6. OneShotVerdict'
  <2>1. CompleteStreams(job.n, asked)' = CompleteStreams(job.n, asked)
    BY <1>0, <1>3 DEF CompleteStreams, DeflateStream, HeaderBytes, TrailerBytes, Lz4FrameStreams,
                      ZstdStreams, Lz4BlockStream
  <2>. QED  BY <1>0, <2>1 DEF Good, OneShotVerdict
<1>. QED  BY <1>1, <1>2, <1>4, <1>5, <1>6 DEF Good, Inv

\* The rest of the loop's steps.
LEMMA LoopKeeps ==
    ASSUME Good, LoopStep \/ Returned
    PROVE  Good'
<1>1. CASE CallWhole \/ CallOneShot \/ CallByCaller
  BY <1>1, CallsKeep
<1>2. CASE Refuses
  BY <1>2, RefusesKeeps
<1>3. CASE Returned
  BY <1>3, StutterKeeps DEF Returned
<1>4. CASE ReserveFails \/ Stop \/ Close
  <2>1. /\ pc \in {"call", "close"} /\ pc' \in {"close", "closed"}
        /\ UNCHANGED <<job, fed, pos, out, flush, call, calls, resets, finished, level, asked, enc>>
        /\ pc' = "close" => last' = last
        /\ pc' = "closed" => last'.op = "free"
        /\ result' = result \/ (result' = ZU_ERR_MEMORY /\ job.driver = "whole" /\ ~finished)
    <3>1. CASE ReserveFails
      <4>1. pc = "call" /\ job.driver = "whole" /\ ~finished
        BY <3>1 DEF ReserveFails, Good, Inv, LoopInv
      <4>. QED  BY <3>1, <4>1 DEF ReserveFails
    <3>2. CASE Stop
      BY <3>2 DEF Stop
    <3>3. CASE Close
      BY <3>3 DEF Close, Answer
    <3>. QED  BY <1>4, <3>1, <3>2, <3>3
  <2>2. LoopInv'
    <3>1. ZU_ERR_MEMORY \in Status
      BY DEF Status, Errors
    <3>. QED  BY <2>1, <3>1 DEF Good, Inv, LoopInv
  <2>3. /\ EncOk(pos, out, enc, finished)
        /\ IsFrame /\ result # ZU_ERR_MEMORY => FrameWire(pos, out, enc)
        /\ IsFrame /\ result = ZU_ERR_MEMORY => ~finished
        /\ IsFrame => ~enc.flushed
    BY <2>1, LiveInv DEF Good
  <2>4. EncOk(pos, out, enc, finished)'
    BY <2>1, <2>3, EncOkSame
  <2>5. IsFrame' => IsFrame
    BY <2>1 DEF IsFrame
  <2>6. IsFrame' /\ result' # ZU_ERR_MEMORY => FrameWire(pos, out, enc)'
    <3>1. CASE IsFrame /\ result' # ZU_ERR_MEMORY
      <4>1. FrameWire(pos, out, enc)
        BY <2>1, <2>3, <3>1
      <4>. QED  BY <2>1, <4>1, FrameWireSame
    <3>. QED  BY <2>5, <3>1
  <2>7. CodecInv'
    <3>1. IsFrame' /\ result' = ZU_ERR_MEMORY => ~finished'
      BY <2>1, <2>3, <2>5
    <3>2. IsFrame' => ~enc'.flushed
      BY <2>1, <2>3, <2>5
    <3>. QED  BY <2>4, <2>6, <3>1, <3>2 DEF CodecInv
  <2>8. FlushDelivers'
    BY <2>1 DEF FlushDelivers
  <2>9. ErrorsHaveACause'
    <3>1. ZU_ERR_MEMORY # ZU_ERR_INTERNAL /\ result' # ZU_ERR_INTERNAL
      BY <2>1 DEF ZU_ERR_MEMORY, ZU_ERR_INTERNAL, Good, ErrorsHaveACause
    <3>2. pc' = "closed" => ErrorsHaveACause'
      BY <2>1, <3>1 DEF ErrorsHaveACause
    <3>3. CASE pc' = "close"
      <4>1. last' = last /\ pc # "process"
        BY <2>1, <3>3
      <4>2. Usable' = Usable /\ IsBlock' = IsBlock
        BY <2>1 DEF Usable, IsDeflate, IsBlock
      <4>. QED  BY <2>1, <3>1, <4>1, <4>2 DEF Good, ErrorsHaveACause
    <3>. QED  BY <2>1, <3>2, <3>3
  <2>10. OneShotVerdict'
    <3>1. CASE Close
      <4>1. /\ pc = "close" /\ UNCHANGED <<job, result, asked>>
        BY <3>1 DEF Close
      <4>2. CompleteStreams(job.n, asked)' = CompleteStreams(job.n, asked)
        BY <4>1 DEF CompleteStreams, IsDeflate, DeflateFamily, IsFrame, IsZstd, IsBlock, IsIdentity,
                DeflateStream, HeaderBytes, TrailerBytes, Lz4FrameStreams, ZstdStreams, Lz4BlockStream
      <4>. QED  BY <4>1, <4>2 DEF Good, OneShotVerdict
    <3>2. CASE ReserveFails \/ Stop
      <4>1. job'.driver # "one_shot"
        BY <3>2 DEF ReserveFails, Stop
      <4>. QED  BY <4>1 DEF OneShotVerdict
    <3>. QED  BY <1>4, <3>1, <3>2
  <2>. QED  BY <2>2, <2>7, <2>8, <2>9, <2>10 DEF Good, Inv
<1>. QED  BY <1>1, <1>2, <1>3, <1>4 DEF LoopStep

\* The loops begin well.
LEMMA InitGood == Init => Good
<1>. SUFFICES ASSUME Init PROVE Good
  OBVIOUS
<1>1. job \in Jobs /\ job.n \in Nat /\ job.room \in Nat /\ job.codec \in DOMAIN CodecTable
  BY JobIs DEF Init
<1>2. CodecTable[job.codec] \in EncoderVtables
  BY <1>1, CodecTableAssumption
<1>3. CodecTable[job.codec].level_default \in Int
  BY <1>2 DEF EncoderVtables
<1>4. LoopInv
  <2>1. <<>> \in Seq(Token) /\ Len(<<>>) = 0 /\ 0 \in 0 .. job.n /\ 0 \in 0 .. 0
    BY <1>1
  <2>2. [pos |-> 0, out |-> 0, room |-> 0] \in [pos : Nat, out : Nat, room : Nat]
    OBVIOUS
  <2>3. ZU_RUN \in Flush /\ ZU_RUN # ZU_FINISH /\ ZU_RUN # ZU_FLUSH
    BY DEF Flush, ZU_RUN, ZU_FINISH, ZU_FLUSH
  <2>4. CheckLevel(CodecTable[job.codec], ZU_LEVEL_DEFAULT) /\ ZU_LEVEL_DEFAULT \in Int
    BY LevelAssumption DEF CheckLevel
  <2>5. Answer("none", ZU_OK, NotAsked, 0).op = "none"
    BY DEF Answer
  <2>6. /\ fed = 0 /\ pos = 0 /\ out = <<>> /\ flush = ZU_RUN /\ pc = "open"
        /\ ~finished /\ finished \in BOOLEAN /\ result = Running /\ level = ZU_LEVEL_DEFAULT
        /\ asked = CodecTable[job.codec].level_default /\ last.op = "none"
        /\ call = [pos |-> 0, out |-> 0, room |-> 0] /\ enc = NoState
    BY <2>5 DEF Init
  <2>7. Len(out) <= job.room
    BY <1>1, <2>1, <2>6
  <2>8. fed \in 0 .. job.n /\ pos \in 0 .. fed
    BY <2>1, <2>6
  <2>9. pc # "call" /\ pc # "process"
    BY <2>6
  <2>. QED  BY <1>1, <1>3, <2>1, <2>2, <2>3, <2>4, <2>6, <2>7, <2>8, <2>9 DEF LoopInv
<1>5. CodecInv
  BY DEF Init, CodecInv
<1>6. FlushDelivers /\ ErrorsHaveACause /\ OneShotVerdict
  BY DEF Init, FlushDelivers, ErrorsHaveACause, OneShotVerdict, Answer, Running, ZU_ERR_INTERNAL
<1>. QED  BY <1>4, <1>5, <1>6 DEF Good, Inv
----------------------------------------------------------------------------
(***************************************************************************)
(* Streams begin: a new handle, and a reset one.                           *)
(***************************************************************************)
\* A codec's state at the beginning of a stream at level a.
FreshState(e, a) ==
    /\ IsDeflate => e = DeflateStart(a, MzFresh(a))
    /\ IsFrame => \E lv \in Int, c \in FrameContexts :
                    Lz4Level(lv) = a /\ c.pend = <<>> /\ e = FrameStart(lv, c)
    /\ IsZstd => e = ZstdStart(a, Session(a))
    /\ IsBlock => \E lv \in Int : Lz4Level(lv) = a /\ e = BlockStart(lv)

\* Such a state keeps the invariant.
LEMMA FreshOk ==
    ASSUME job \in Jobs, asked \in Int, FreshState(enc, asked), pos = 0, out = <<>>, finished = FALSE
    PROVE  EncOk(pos, out, enc, finished) /\ (IsFrame => ~enc.started /\ ~enc.flushed)
<1>0. job.codec \in DOMAIN CodecTable
  BY JobIs
<1>. USE Kinds
<1>. DEFINE o == <<>>
            z == 0
<1>00. /\ <<>> \in Seq(Token) /\ <<>> \in Seq(Int) /\ <<>> \in Seq(Wrapper) /\ Len(<<>>) = 0
       /\ 0 \in Nat /\ 0 \in Int
  OBVIOUS
<1>01. SumOf(0) = 0 /\ Input(0) = <<>> /\ Compressed(Input(0), asked) = <<>>
  <2>1. SumOf(0) = 0 /\ Input(0) = <<>>
    BY <1>00, SumGrows, InputType
  <2>. QED  BY <2>1, CompressedEmpty
<1>1. CASE IsDeflate
  <2>. DEFINE h == HeaderBytes(asked)
  <2>1. h \in Seq(Wrapper) /\ h \in Seq(Token) /\ Plain(h) /\ (job.codec = "raw" => h = <<>>)
    BY <1>1, HeaderIs
  <2>2. /\ enc.state = StartState /\ enc.level = asked /\ enc.hdr = h /\ enc.hdr_pos = 0
        /\ enc.tail = <<>> /\ enc.tail_pos = 0 /\ enc.checksum = 0 /\ enc.uncompressed = 0
        /\ enc.mz = MzFresh(asked)
    BY <1>1 DEF FreshState, DeflateStart
  <2>3. /\ MzFresh(asked) \in MzContexts /\ MzFresh(asked).live /\ MzFresh(asked).level = asked
        /\ MzFresh(asked).held = <<>> /\ MzFresh(asked).pend = <<>> /\ MzFresh(asked).lead = <<>>
        /\ MzFresh(asked).finishing = FALSE
    BY <1>00 DEF MzFresh, MzContexts
  <2>4. StartState \in {"HEADER", "BODY"} /\ (StartState = "BODY" <=> job.codec = "raw")
    BY DEF StartState
  <2>5. enc \in DeflateStates
    <3>1. enc = DeflateStart(asked, MzFresh(asked))
      BY <1>1 DEF FreshState
    <3>. HIDE DEF h
    <3>. QED  BY <1>00, <2>1, <2>3, <2>4, <3>1 DEF DeflateStates, DeflateStart, h
  <2>6. Image(enc.mz) = <<>>
    <3>1. <<>> \o <<>> = <<>>
      OBVIOUS
    <3>2. Compressed(<<>>, asked) = <<>>
      BY CompressedEmpty
    <3>. QED  BY <2>2, <2>3, <3>1, <3>2 DEF Image
  <2>7. job.codec = "raw" => DeflateBody(0) = <<>>
    <3>1. <<>> \o <<>> = <<>>
      OBVIOUS
    <3>. QED  BY <1>01, <2>1, <3>1 DEF DeflateBody
  <2>8. Take(h, 0) = <<>>
    BY <2>1, CutEnds
  <2>9. Matches(<<>>, <<>>)
    <3>1. Plain(o)
      BY DEF Plain
    <3>2. o \in Seq(Token)
      OBVIOUS
    <3>. HIDE DEF o
    <3>3. Matches(o, o)
      BY ONLY <3>1, <3>2, MatchesPlain
    <3>. QED  BY <3>3 DEF o
  <2>10. Matches(out \o Image(enc.mz), <<>>)
    <3>1. <<>> \o <<>> = <<>>
      OBVIOUS
    <3>. QED  BY <2>6, <2>9, <3>1
  <2>11. 0 <= Len(h) /\ Len(h) \in Nat
    BY <2>1
  <2>. HIDE DEF h
  <2>12. DeflateOk(pos, out, enc, finished)
    BY <1>00, <1>01, <2>2, <2>3, <2>4, <2>5, <2>7, <2>8, <2>10, <2>11 DEF DeflateOk, h
  <2>. QED  BY <1>0, <1>1, <2>12 DEF EncOk
<1>2. CASE IsFrame
  <2>1. PICK lv \in Int, c \in FrameContexts :
          Lz4Level(lv) = asked /\ c.pend = <<>> /\ enc = FrameStart(lv, c)
    BY <1>2 DEF FreshState
  <2>2. enc \in FrameStates
    BY <1>00, <2>1 DEF FrameStates, FrameStart
  <2>3. /\ enc.level = lv /\ enc.size = 0 /\ enc.started = FALSE /\ enc.ended = FALSE /\ enc.done = FALSE
        /\ enc.flushed = FALSE /\ enc.stage = <<>> /\ enc.stage_pos = 0 /\ enc.cctx = c
    BY <2>1 DEF FrameStart
  <2>4. FrameOk(pos, out, enc, finished)
    BY <1>00, <2>1, <2>2, <2>3 DEF FrameOk
  <2>. QED  BY <1>0, <1>2, <2>3, <2>4 DEF EncOk
<1>3. CASE IsZstd
  <2>1. enc = ZstdStart(asked, Session(asked))
    BY <1>3 DEF FreshState
  <2>2. Session(asked) \in ZstdContexts /\ Session(asked).begun = FALSE /\ Session(asked).param = asked
    BY <1>00 DEF Session, ZstdContexts, Unpledged
  <2>3. enc.level = asked /\ enc.done = FALSE /\ enc.cctx = Session(asked) /\ enc \in ZstdStates
    BY <2>1, <2>2 DEF ZstdStart, ZstdStates
  <2>4. ZstdOk(pos, out, enc, finished)
    BY <2>2, <2>3 DEF ZstdOk
  <2>. QED  BY <1>0, <1>3, <2>4 DEF EncOk
<1>4. CASE IsBlock
  <2>1. PICK lv \in Int : Lz4Level(lv) = asked /\ enc = BlockStart(lv)
    BY <1>4 DEF FreshState
  <2>2. /\ enc \in BlockStates /\ enc.level = lv /\ enc.in = <<>> /\ enc.stage = <<>> /\ enc.stage_pos = 0
        /\ enc.done = FALSE
    BY <1>00, <2>1 DEF BlockStart, BlockStates
  <2>3. BlockCodecOk(pos, out, enc, finished)
    BY <1>00, <1>01, <2>1, <2>2 DEF BlockCodecOk
  <2>. QED  BY <1>0, <1>4, <2>3 DEF EncOk
<1>5. CASE IsIdentity
  <2>1. Compressed(Input(0), 0) = <<>>
    BY <1>00, <1>01, CompressedEmpty
  <2>2. IdentityOk(pos, out, finished)
    BY <2>1 DEF IdentityOk
  <2>. QED  BY <1>0, <1>5, <2>2 DEF EncOk
<1>. QED  BY <1>0, <1>1, <1>2, <1>3, <1>4, <1>5

\* What a fresh state is does not change in a step.
LEMMA FreshSame ==
    ASSUME NEW e, NEW a, FreshState(e, a), job' = job, enc' = e, asked' = a
    PROVE  FreshState(enc, asked)'
<1>1. /\ IsDeflate' = IsDeflate /\ IsFrame' = IsFrame /\ IsZstd' = IsZstd /\ IsBlock' = IsBlock
  BY DEF IsDeflate, DeflateFamily, IsFrame, IsZstd, IsBlock
<1>2. IsDeflate => (enc = DeflateStart(asked, MzFresh(asked)))'
  <2>1. DeflateStart(asked, MzFresh(asked))' = DeflateStart(a, MzFresh(a))
    BY DEF DeflateStart, MzFresh, StartState, HeaderBytes
  <2>. QED  BY <2>1 DEF FreshState
<1>3. IsFrame => (\E lv \in Int, c \in FrameContexts : Lz4Level(lv) = asked /\ c.pend = <<>> /\ enc = FrameStart(lv, c))'
  <2>1. \A lv : Lz4Level(lv)' = Lz4Level(lv)
    BY DEF Lz4Level
  <2>. QED  BY <2>1 DEF FreshState, FrameStart
<1>4. IsZstd => (enc = ZstdStart(asked, Session(asked)))'
  BY DEF FreshState, ZstdStart, Session
<1>5. IsBlock => (\E lv \in Int : Lz4Level(lv) = asked /\ enc = BlockStart(lv))'
  <2>1. \A lv : Lz4Level(lv)' = Lz4Level(lv)
    BY DEF Lz4Level
  <2>. QED  BY <2>1 DEF FreshState, BlockStart
<1>. QED  BY <1>1, <1>2, <1>3, <1>4, <1>5 DEF FreshState

\* zu_encoder_new.
LEMMA OpenKeeps ==
    ASSUME Good, NEW state, Open(state), FreshState(state, LevelAsked(job.level, asked))
    PROVE  Good'
<1>0. /\ pc = "open" /\ fed = 0 /\ pos = 0 /\ out = <<>> /\ flush = ZU_RUN /\ ~finished /\ finished = FALSE
      /\ result = Running /\ enc = NoState
      /\ UNCHANGED <<job, fed, pos, out, flush, call, calls, resets, finished>>
      /\ job \in Jobs /\ job.level \in Int /\ asked \in Int /\ CheckLevel(CodecTable[job.codec], job.level)
      /\ level \in Int /\ CheckLevel(CodecTable[job.codec], level)
  BY JobIs DEF Open, Good, Inv, LoopInv
<1>. DEFINE M == ZU_ERR_MEMORY
<1>1. /\ M \in Status /\ M # ZU_ERR_INTERNAL /\ Running # ZU_ERR_INTERNAL /\ Running # M
      /\ ZU_RUN # ZU_FINISH /\ ZU_RUN # ZU_FLUSH
  BY DEF Status, Errors, Running, ZU_ERR_MEMORY, ZU_ERR_INTERNAL, ZU_RUN, ZU_FINISH, ZU_FLUSH
<1>2. CASE /\ pc' = "call" /\ enc' = state /\ level' = job.level /\ asked' = LevelAsked(job.level, asked)
           /\ last' = Answer("new", ZU_OK, ZU_OK, 0) /\ UNCHANGED result
  <2>1. asked' \in Int
    BY <1>0, <1>2 DEF LevelAsked
  <2>2. last'.op = "new"
    BY <1>2 DEF Answer
  <2>3. LoopInv'
    BY <1>0, <1>1, <1>2, <2>1 DEF Good, Inv, LoopInv
  <2>4. FreshState(enc, asked)'
    BY <1>0, <1>2, FreshSame
  <2>5. (job \in Jobs /\ asked \in Int /\ pos = 0 /\ out = <<>> /\ finished = FALSE)'
    BY <1>0, <2>1
  <2>6. (EncOk(pos, out, enc, finished) /\ (IsFrame => ~enc.started /\ ~enc.flushed))'
    BY <2>4, <2>5, FreshOk, PTL
  <2>7. CodecInv'
    <3>1. IsFrame' => FrameWire(pos, out, enc)'
      BY <2>6 DEF FrameWire
    <3>. QED  BY <1>0, <1>1, <1>2, <2>6, <3>1 DEF CodecInv
  <2>8. FlushDelivers' /\ ErrorsHaveACause' /\ OneShotVerdict'
    BY <1>0, <1>1, <1>2, <2>2 DEF FlushDelivers, ErrorsHaveACause, OneShotVerdict
  <2>. QED  BY <2>3, <2>7, <2>8 DEF Good, Inv
<1>3. CASE /\ pc' = "closed" /\ last' = Answer("new", M, M, 0) /\ result' = M
           /\ UNCHANGED <<enc, level, asked>>
  <2>1. LoopInv'
    BY <1>0, <1>1, <1>3 DEF Good, Inv, LoopInv
  <2>2. CodecInv'
    BY <1>0, <1>3 DEF CodecInv
  <2>3. last'.op = "new"
    BY <1>3 DEF Answer
  <2>4. FlushDelivers' /\ ErrorsHaveACause' /\ OneShotVerdict'
    BY <1>0, <1>1, <1>3, <2>3 DEF FlushDelivers, ErrorsHaveACause, OneShotVerdict
  <2>. QED  BY <2>1, <2>2, <2>4 DEF Good, Inv
<1>. QED  BY <1>2, <1>3 DEF Open

\* zu_encoder_reset.
LEMMA ResetKeeps ==
    ASSUME Good, NEW outcomes, ResetByCaller(outcomes),
           \A lv \in ResetLevels : lv \in Int /\ CheckLevel(CodecTable[job.codec], lv) =>
             \A r \in outcomes[lv] :
               \/ r[1] = ZU_OK /\ FreshState(r[2], LevelAsked(lv, asked))
               \/ r[1] # ZU_OK /\ IsDeflate /\ EncOk(pos, out, r[2], finished)
    PROVE  Good'
<1>0. /\ pc = "call" /\ job.driver = "caller" /\ UNCHANGED <<job, pc, calls>>
      /\ job \in Jobs /\ job.codec \in DOMAIN CodecTable /\ job.n \in Nat /\ asked \in Int /\ level \in Int
  BY JobIs DEF ResetByCaller, Good, Inv, LoopInv
<1>1. PICK lv \in ResetLevels :
         IF ~CheckLevel(CodecTable[job.codec], lv)
           THEN ResetFails(ZU_ERR_INVALID_ARGUMENT, NotAsked, enc)
           ELSE \E r \in outcomes[lv] :
                  IF r[1] # ZU_OK THEN ResetFails(r[1], r[1], r[2])
                  ELSE /\ last' = Answer("reset", ZU_OK, ZU_OK, 0)
                       /\ enc' = r[2]
                       /\ fed' = 0 /\ pos' = 0 /\ out' = <<>>
                       /\ flush' = ZU_RUN
                       /\ call' = [pos |-> 0, out |-> 0, room |-> 0]
                       /\ finished' = FALSE
                       /\ level' = lv
                       /\ asked' = LevelAsked(lv, asked)
                       /\ result' = Running
  BY DEF ResetByCaller
<1>2. lv \in Int
  BY <1>0, LevelAssumption, CodecTableAssumption DEF ResetLevels
<1>3. Running # ZU_ERR_INTERNAL /\ Running # ZU_ERR_MEMORY /\ ZU_RUN # ZU_FINISH /\ ZU_RUN # ZU_FLUSH
      /\ ZU_RUN \in Flush
  BY DEF Running, ZU_ERR_MEMORY, ZU_ERR_INTERNAL, ZU_RUN, ZU_FINISH, ZU_FLUSH, Flush
<1>4. ASSUME NEW status, NEW st, NEW e, ResetFails(status, st, e), EncOk(pos, out, e, finished),
             IsFrame => e = enc
      PROVE  Good'
  <2>1. /\ last' = Answer("reset", status, st, 0) /\ enc' = e
        /\ UNCHANGED <<fed, pos, out, flush, call, finished, level, asked, result>>
    BY <1>4 DEF ResetFails
  <2>2. last'.op = "reset" /\ pc' = "call" /\ job'.driver = "caller"
    BY <1>0, <2>1 DEF Answer
  <2>3. LoopInv'
    BY <1>0, <2>1, <2>2 DEF Good, Inv, LoopInv
  <2>4. EncOk(pos, out, enc, finished)'
    BY <1>0, <1>4, <2>1, EncOkSame
  <2>5. IsFrame' = IsFrame
    BY <1>0 DEF IsFrame
  <2>6. IsFrame => /\ ~enc'.flushed /\ (result' = ZU_ERR_MEMORY => ~finished')
                   /\ result' # ZU_ERR_MEMORY => FrameWire(pos, out, enc)'
    <3>1. CASE IsFrame
      <4>1. /\ result # ZU_ERR_MEMORY => FrameWire(pos, out, enc)
            /\ (result = ZU_ERR_MEMORY => ~finished) /\ ~enc.flushed
        BY <1>0, <3>1, LiveInv DEF Good
      <4>2. enc' = enc
        BY <1>4, <2>1, <3>1
      <4>3. result # ZU_ERR_MEMORY => FrameWire(pos, out, enc)'
        BY <1>0, <2>1, <4>1, <4>2, FrameWireSame
      <4>. QED  BY <2>1, <4>1, <4>2, <4>3
    <3>. QED  BY <3>1
  <2>7. CodecInv'
    BY <2>4, <2>5, <2>6 DEF CodecInv
  <2>8. FlushDelivers' /\ ErrorsHaveACause' /\ OneShotVerdict'
    BY <2>1, <2>2 DEF Good, FlushDelivers, ErrorsHaveACause, OneShotVerdict
  <2>. QED  BY <2>3, <2>7, <2>8 DEF Good, Inv
<1>5. CASE ~CheckLevel(CodecTable[job.codec], lv)
  <2>1. EncOk(pos, out, enc, finished)
    BY <1>0, LiveInv DEF Good
  <2>. QED  BY <1>1, <1>4, <1>5, <2>1
<1>6. CASE CheckLevel(CodecTable[job.codec], lv)
  <2>1. PICK r \in outcomes[lv] :
                  IF r[1] # ZU_OK THEN ResetFails(r[1], r[1], r[2])
                  ELSE /\ last' = Answer("reset", ZU_OK, ZU_OK, 0)
                       /\ enc' = r[2]
                       /\ fed' = 0 /\ pos' = 0 /\ out' = <<>>
                       /\ flush' = ZU_RUN
                       /\ call' = [pos |-> 0, out |-> 0, room |-> 0]
                       /\ finished' = FALSE
                       /\ level' = lv
                       /\ asked' = LevelAsked(lv, asked)
                       /\ result' = Running
    BY <1>1, <1>6
  <2>2. CASE r[1] # ZU_OK
    <3>1. IsDeflate /\ EncOk(pos, out, r[2], finished)
      BY <1>2, <1>6, <2>2
    <3>2. ~IsFrame
      BY <1>0, <3>1, Kinds
    <3>3. ResetFails(r[1], r[1], r[2])
      BY <2>1, <2>2
    <3>. QED  BY <1>4, <3>1, <3>2, <3>3
  <2>3. CASE r[1] = ZU_OK
    <3>1. FreshState(r[2], LevelAsked(lv, asked))
      BY <1>2, <1>6, <2>3
    <3>2. /\ last' = Answer("reset", ZU_OK, ZU_OK, 0)
          /\ enc' = r[2]
          /\ fed' = 0 /\ pos' = 0 /\ out' = <<>>
          /\ flush' = ZU_RUN
          /\ call' = [pos |-> 0, out |-> 0, room |-> 0]
          /\ finished' = FALSE
          /\ level' = lv
          /\ asked' = LevelAsked(lv, asked)
          /\ result' = Running
      BY <2>1, <2>3
    <3>3. asked' \in Int
      BY <1>0, <1>2, <3>2 DEF LevelAsked
    <3>4. FreshState(enc, asked)'
      BY <1>0, <3>1, <3>2, FreshSame
    <3>5. (job \in Jobs /\ asked \in Int /\ pos = 0 /\ out = <<>> /\ finished = FALSE)'
      BY <1>0, <3>2, <3>3
    <3>6. (EncOk(pos, out, enc, finished) /\ (IsFrame => ~enc.started /\ ~enc.flushed))'
      BY <3>4, <3>5, FreshOk, PTL
    <3>7. last'.op = "reset" /\ pc' = "call" /\ job'.driver = "caller"
      BY <1>0, <3>2 DEF Answer
    <3>8. LoopInv'
      <4>1. <<>> \in Seq(Token) /\ 0 \in 0 .. job.n /\ 0 \in 0 .. 0
        BY <1>0
      <4>2. [pos |-> 0, out |-> 0, room |-> 0] \in [pos : Nat, out : Nat, room : Nat]
        OBVIOUS
      <4>. QED  BY <1>0, <1>2, <1>3, <1>6, <3>2, <3>3, <3>7, <4>1, <4>2 DEF LoopInv
    <3>9. CodecInv'
      <4>1. IsFrame' => FrameWire(pos, out, enc)'
        BY <3>6 DEF FrameWire
      <4>. QED  BY <1>3, <3>2, <3>6, <4>1 DEF CodecInv
    <3>10. FlushDelivers' /\ ErrorsHaveACause' /\ OneShotVerdict'
      BY <1>3, <3>2, <3>7 DEF FlushDelivers, ErrorsHaveACause, OneShotVerdict
    <3>. QED  BY <3>8, <3>9, <3>10 DEF Good, Inv
  <2>. QED  BY <2>2, <2>3
<1>. QED  BY <1>5, <1>6

\* The level a handle remembers and the one it was asked for.
LEMMA LevelFollows ==
    ASSUME NEW lv, NEW mine, NEW default, Good,
           LevelAsked(mine, default) = asked
    PROVE  LevelAsked(LevelAsked(lv, mine), default) = LevelAsked(lv, asked)
BY DEF LevelAsked

\* Every codec's constructor.
LEMMA NewKeeps ==
    ASSUME Good, DeflateNew \/ FrameNew \/ BlockNew \/ ZstdNew \/ IdentityNew
    PROVE  Good'
<1>0. pc = "open"
  BY DEF DeflateNew, FrameNew, BlockNew, ZstdNew, IdentityNew, Open
<1>1. /\ job \in Jobs /\ job.codec \in DOMAIN CodecTable /\ job.level \in Int
      /\ asked = CodecTable[job.codec].level_default
  BY <1>0, JobIs DEF Good, Inv, LoopInv
<1>. DEFINE a == LevelAsked(job.level, asked)
<1>2. CASE DeflateNew
  <2>1. IsDeflate /\ Open(DeflateStart(a, MzFresh(a)))
    BY <1>1, <1>2 DEF DeflateNew
  <2>2. FreshState(DeflateStart(a, MzFresh(a)), a)
    BY <1>1, <2>1, Kinds DEF FreshState
  <2>. QED  BY <2>1, <2>2, OpenKeeps
<1>3. CASE FrameNew
  <2>1. IsFrame /\ Open(FrameStart(job.level, NoCctx))
    BY <1>3 DEF FrameNew
  <2>2. NoCctx \in FrameContexts /\ NoCctx.pend = <<>>
    <3>1. <<>> \in Seq(Token) /\ <<>> \in Seq(Int)
      OBVIOUS
    <3>. QED  BY <3>1 DEF NoCctx, FrameContexts
  <2>3. Lz4Level(job.level) = a
    BY <1>1 DEF Lz4Level
  <2>. HIDE DEF a
  <2>4. FreshState(FrameStart(job.level, NoCctx), a)
    BY <1>1, <2>1, <2>2, <2>3, Kinds DEF FreshState
  <2>. QED  BY <2>1, <2>4, OpenKeeps DEF a
<1>4. CASE BlockNew
  <2>1. IsBlock /\ Open(BlockStart(job.level))
    BY <1>4 DEF BlockNew
  <2>2. Lz4Level(job.level) = a
    BY <1>1 DEF Lz4Level
  <2>. HIDE DEF a
  <2>3. FreshState(BlockStart(job.level), a)
    BY <1>1, <2>1, <2>2, Kinds DEF FreshState
  <2>. QED  BY <2>1, <2>3, OpenKeeps DEF a
<1>5. CASE ZstdNew
  <2>1. IsZstd /\ Open(ZstdStart(a, Session(a)))
    BY <1>1, <1>5 DEF ZstdNew, ZstdLevel, IsZstd
  <2>2. FreshState(ZstdStart(a, Session(a)), a)
    BY <1>1, <2>1, Kinds DEF FreshState
  <2>. QED  BY <2>1, <2>2, OpenKeeps
<1>6. CASE IdentityNew
  <2>1. IsIdentity /\ Open([stateless |-> TRUE])
    BY <1>6 DEF IdentityNew
  <2>2. FreshState([stateless |-> TRUE], a)
    BY <1>1, <2>1, Kinds DEF FreshState
  <2>. QED  BY <2>1, <2>2, OpenKeeps
<1>. QED  BY <1>2, <1>3, <1>4, <1>5, <1>6

\* What a codec's reset to lv may come to: a new stream, the old one because
\* there is no miniz context to reset, or no context any more.
ResetOutcome(lv, r) ==
    \/ /\ r[1] = ZU_OK /\ FreshState(r[2], LevelAsked(lv, asked))
       /\ ~Usable => LevelAsked(lv, asked) # asked
    \/ r[1] = ZU_ERR_INVALID_DATA /\ r[2] = enc /\ ~Usable
    \/ r[1] = ZU_ERR_MEMORY /\ IsDeflate /\ r[2] = [enc EXCEPT !.mz = MzDead]

\* Every codec's reset.
LEMMA OutcomesAre ==
    ASSUME Good, DeflateResets \/ FrameResets \/ BlockResets \/ ZstdResets \/ IdentityResets
    PROVE  \E f : /\ ResetByCaller(f)
                  /\ \A lv \in ResetLevels : \A r \in f[lv] : ResetOutcome(lv, r)
<1>0. pc = "call" /\ job.driver = "caller"
  BY DEF DeflateResets, FrameResets, BlockResets, ZstdResets, IdentityResets, ResetByCaller
<1>1. /\ job \in Jobs /\ job.codec \in DOMAIN CodecTable /\ level \in Int /\ asked \in Int
  BY JobIs DEF Good, Inv, LoopInv
<1>2. EncOk(pos, out, enc, finished)
  BY <1>0, LiveInv DEF Good
<1>8. ResetLevels \subseteq Int
  BY <1>1, LevelAssumption, CodecTableAssumption DEF ResetLevels
<1>3. CASE DeflateResets
  <2>. DEFINE f == [lv \in ResetLevels |-> DeflateReset(lv)]
  <2>1. IsDeflate /\ ResetByCaller(f)
    BY <1>3 DEF DeflateResets
  <2>2. DeflateOk(pos, out, enc, finished)
    BY <1>2, <2>1 DEF EncOk
  <2>3. enc \in DeflateStates /\ enc.level = asked /\ (enc.mz.live => enc.mz.level = asked)
    BY <2>2 DEF DeflateOk
  <2>5. ASSUME NEW lv \in ResetLevels, NEW r \in f[lv]
        PROVE  ResetOutcome(lv, r)
    <3>. DEFINE want == LevelAsked(lv, asked)
    <3>1. r \in DeflateReset(lv)
      BY <2>5
    <3>2. /\ want # asked => \/ r = <<ZU_OK, DeflateStart(want, MzFresh(want))>>
                             \/ r = <<ZU_ERR_MEMORY, [enc EXCEPT !.mz = MzDead]>>
          /\ want = asked => \/ enc.mz.live /\ r = <<ZU_OK, DeflateStart(want, MzFresh(want))>>
                             \/ ~enc.mz.live /\ r = <<ZU_ERR_INVALID_DATA, enc>>
      BY <2>3, <3>1 DEF DeflateReset
    <3>3. FreshState(DeflateStart(want, MzFresh(want)), want)
      BY <1>1, <2>1, Kinds DEF FreshState
    <3>4. Usable = enc.mz.live
      BY <2>1, <2>3 DEF Usable, DeflateStates, MzContexts
    <3>. HIDE DEF want
    <3>. QED  BY <2>1, <3>2, <3>3, <3>4 DEF ResetOutcome, want
  <2>. HIDE DEF f
  <2>. QED  BY <2>1, <2>5
<1>4. CASE FrameResets
  <2>. DEFINE f == [lv \in ResetLevels |-> FrameReset(lv)]
  <2>1. IsFrame /\ ResetByCaller(f)
    BY <1>4 DEF FrameResets
  <2>2. /\ enc \in FrameStates /\ LevelAsked(enc.level, CodecTable[job.codec].level_default) = asked
        /\ enc.cctx.pend = <<>>
    BY <1>2, <2>1 DEF EncOk, FrameOk, Lz4Level
  <2>3. enc.level \in Int /\ enc.cctx \in FrameContexts
    BY <2>2 DEF FrameStates
  <2>5. ASSUME NEW lv \in ResetLevels, lv \in Int, NEW r \in f[lv]
        PROVE  r[1] = ZU_OK /\ FreshState(r[2], LevelAsked(lv, asked))
    <3>. DEFINE new == LevelAsked(lv, enc.level)
    <3>1. r = <<ZU_OK, FrameStart(new, enc.cctx)>>
      BY <2>5 DEF FrameReset
    <3>2. new \in Int
      BY <2>3, <2>5 DEF LevelAsked
    <3>3. Lz4Level(new) = LevelAsked(lv, asked)
      BY <2>2, LevelFollows DEF Lz4Level
    <3>. HIDE DEF new
    <3>4. FreshState(FrameStart(new, enc.cctx), LevelAsked(lv, asked))
      BY <1>1, <2>1, <2>2, <2>3, <3>2, <3>3, Kinds DEF FreshState
    <3>. QED  BY <3>1, <3>4
  <2>. HIDE DEF f
  <2>6. Usable
    BY <1>1, <2>1, Kinds DEF Usable
  <2>. QED  BY <1>8, <2>1, <2>5, <2>6 DEF ResetOutcome
<1>5. CASE BlockResets
  <2>. DEFINE f == [lv \in ResetLevels |-> BlockReset(lv)]
  <2>1. IsBlock /\ ResetByCaller(f)
    BY <1>5 DEF BlockResets
  <2>2. /\ enc \in BlockStates /\ LevelAsked(enc.level, CodecTable[job.codec].level_default) = asked
    BY <1>2, <2>1 DEF EncOk, BlockCodecOk, Lz4Level
  <2>3. enc.level \in Int
    BY <2>2 DEF BlockStates
  <2>5. ASSUME NEW lv \in ResetLevels, lv \in Int, NEW r \in f[lv]
        PROVE  r[1] = ZU_OK /\ FreshState(r[2], LevelAsked(lv, asked))
    <3>. DEFINE new == LevelAsked(lv, enc.level)
    <3>1. r = <<ZU_OK, BlockStart(new)>>
      BY <2>5 DEF BlockReset
    <3>2. new \in Int
      BY <2>3, <2>5 DEF LevelAsked
    <3>3. Lz4Level(new) = LevelAsked(lv, asked)
      BY <2>2, LevelFollows DEF Lz4Level
    <3>. HIDE DEF new
    <3>4. FreshState(BlockStart(new), LevelAsked(lv, asked))
      BY <1>1, <2>1, <2>2, <2>3, <3>2, <3>3, Kinds DEF FreshState
    <3>. QED  BY <3>1, <3>4
  <2>. HIDE DEF f
  <2>6. Usable
    BY <1>1, <2>1, Kinds DEF Usable
  <2>. QED  BY <1>8, <2>1, <2>5, <2>6 DEF ResetOutcome
<1>6. CASE ZstdResets
  <2>. DEFINE f == [lv \in ResetLevels |-> ZstdReset(lv)]
  <2>1. IsZstd /\ ResetByCaller(f)
    BY <1>6 DEF ZstdResets
  <2>2. enc.level = asked
    BY <1>2, <2>1 DEF EncOk, ZstdOk
  <2>5. ASSUME NEW lv \in ResetLevels, NEW r \in f[lv]
        PROVE  r[1] = ZU_OK /\ FreshState(r[2], LevelAsked(lv, asked))
    <3>. DEFINE want == LevelAsked(lv, asked)
    <3>1. r = <<ZU_OK, ZstdStart(want, Session(want))>>
      BY <2>2, <2>5 DEF ZstdReset
    <3>2. FreshState(ZstdStart(want, Session(want)), want)
      BY <1>1, <2>1, Kinds DEF FreshState
    <3>. QED  BY <3>1, <3>2
  <2>. HIDE DEF f
  <2>6. Usable
    BY <1>1, <2>1, Kinds DEF Usable
  <2>. QED  BY <1>8, <2>1, <2>5, <2>6 DEF ResetOutcome
<1>7. CASE IdentityResets
  <2>. DEFINE f == [lv \in ResetLevels |-> IdentityReset(lv)]
  <2>1. IsIdentity /\ ResetByCaller(f)
    BY <1>7 DEF IdentityResets
  <2>5. ASSUME NEW lv \in ResetLevels, NEW r \in f[lv]
        PROVE  r[1] = ZU_OK /\ FreshState(r[2], LevelAsked(lv, asked))
    <3>1. r = <<ZU_OK, enc>>
      BY <2>5 DEF IdentityReset
    <3>2. FreshState(enc, LevelAsked(lv, asked))
      BY <1>1, <2>1, Kinds DEF FreshState
    <3>. QED  BY <3>1, <3>2
  <2>. HIDE DEF f
  <2>6. Usable
    BY <1>1, <2>1, Kinds DEF Usable
  <2>. QED  BY <1>8, <2>1, <2>5, <2>6 DEF ResetOutcome
<1>. QED  BY <1>3, <1>4, <1>5, <1>6, <1>7

\* The invariant survives them.
LEMMA ResetsKeep ==
    ASSUME Good, DeflateResets \/ FrameResets \/ BlockResets \/ ZstdResets \/ IdentityResets
    PROVE  Good'
<1>1. PICK f : /\ ResetByCaller(f)
               /\ \A lv \in ResetLevels : \A r \in f[lv] : ResetOutcome(lv, r)
  BY OutcomesAre
<1>2. /\ job \in Jobs /\ job.codec \in DOMAIN CodecTable /\ pc = "call" /\ job.driver = "caller"
      /\ EncOk(pos, out, enc, finished)
  BY <1>1, JobIs, LiveInv DEF Good, Inv, LoopInv, ResetByCaller
<1>3. IsDeflate => EncOk(pos, out, [enc EXCEPT !.mz = MzDead], finished)
  <2>. SUFFICES ASSUME IsDeflate PROVE EncOk(pos, out, [enc EXCEPT !.mz = MzDead], finished)
    OBVIOUS
  <2>2. DeflateOk(pos, out, enc, finished)
    BY <1>2 DEF EncOk
  <2>3. enc \in DeflateStates /\ enc.level = asked /\ (enc.mz.live => enc.mz.level = asked)
    BY <2>2 DEF DeflateOk
  <2>4. EncOk(pos, out, [enc EXCEPT !.mz = MzDead], finished)
    <3>. DEFINE e == [enc EXCEPT !.mz = MzDead]
    <3>1. /\ MzDead \in MzContexts /\ MzDead.live = FALSE /\ MzDead.held = <<>> /\ MzDead.pend = <<>>
      <4>1. <<>> \in Seq(Token) /\ <<>> \in Seq(Int)
        OBVIOUS
      <4>. DEFINE m == MzFresh(0)
      <4>2. m \in MzContexts /\ m.held = <<>> /\ m.pend = <<>>
        BY <4>1 DEF MzFresh, MzContexts
      <4>3. MzDead = [m EXCEPT !.live = FALSE]
        BY DEF MzDead
      <4>. HIDE DEF m
      <4>. QED  BY <4>2, <4>3 DEF MzContexts
    <3>2. /\ e \in DeflateStates /\ e.mz = MzDead
          /\ e.state = enc.state /\ e.level = enc.level /\ e.hdr = enc.hdr /\ e.hdr_pos = enc.hdr_pos
          /\ e.tail = enc.tail /\ e.tail_pos = enc.tail_pos /\ e.checksum = enc.checksum
          /\ e.uncompressed = enc.uncompressed
      BY <2>3, <3>1 DEF DeflateStates
    <3>. HIDE DEF e
    <3>3. DeflateOk(pos, out, e, finished)
      BY <1>2, <2>2, <3>1, <3>2 DEF DeflateOk
    <3>4. EncOk(pos, out, e, finished)
      BY <1>2, <3>3, Kinds DEF EncOk
    <3>. QED  BY <3>4 DEF e
  <2>. QED  BY <2>4
<1>4. ASSUME NEW lv \in ResetLevels, NEW r \in f[lv]
      PROVE  \/ r[1] = ZU_OK /\ FreshState(r[2], LevelAsked(lv, asked))
             \/ r[1] # ZU_OK /\ IsDeflate /\ EncOk(pos, out, r[2], finished)
  <2>1. ZU_OK # ZU_ERR_MEMORY /\ ZU_OK # ZU_ERR_INVALID_DATA
    BY DEF ZU_OK, ZU_ERR_MEMORY, ZU_ERR_INVALID_DATA
  <2>2. ResetOutcome(lv, r)
    BY <1>1, <1>4
  <2>. QED  BY <1>2, <1>3, <2>1, <2>2 DEF ResetOutcome, Usable
<1>. QED  BY <1>1, <1>4, ResetKeeps

\* A stream that begins is usable at the level asked for.
LEMMA FreshLevel ==
    ASSUME job \in Jobs, FreshState(enc, asked)
    PROVE  Usable /\ LevelInUse = asked
<1>0. job.codec \in DOMAIN CodecTable
  BY JobIs
<1>1. CASE IsDeflate
  BY <1>0, <1>1, Kinds DEF FreshState, DeflateStart, MzFresh, Usable, LevelInUse
<1>2. CASE IsFrame
  BY <1>0, <1>2, Kinds DEF FreshState, FrameStart, Usable, LevelInUse
<1>3. CASE IsBlock
  BY <1>0, <1>3, Kinds DEF FreshState, BlockStart, Usable, LevelInUse
<1>4. CASE IsZstd
  BY <1>0, <1>4, Kinds DEF FreshState, ZstdStart, Session, Usable, LevelInUse
<1>5. CASE IsIdentity
  BY <1>0, <1>5, Kinds DEF Usable, LevelInUse
<1>. QED  BY <1>0, <1>1, <1>2, <1>3, <1>4, <1>5, Kinds

\* What a reset may do, as ResetsReopen has it.
ResetTells ==
    /\ last'.status = ZU_OK =>
         /\ Usable' /\ LevelInUse' = asked'
         /\ ~Usable => asked' # asked
    /\ last'.status # ZU_OK =>
         /\ enc' = enc \/ (last'.status = ZU_ERR_MEMORY /\ ~Usable')
         /\ last'.status = ZU_ERR_INVALID_DATA => ~Usable

LEMMA ResetsTell ==
    ASSUME Good, DeflateResets \/ FrameResets \/ BlockResets \/ ZstdResets \/ IdentityResets
    PROVE  ResetTells
<1>1. PICK f : /\ ResetByCaller(f)
               /\ \A lv \in ResetLevels : \A r \in f[lv] : ResetOutcome(lv, r)
  BY OutcomesAre
<1>2. job' = job /\ job \in Jobs
  BY <1>1 DEF ResetByCaller, Good, Inv, LoopInv
<1>3. /\ ZU_OK # ZU_ERR_MEMORY /\ ZU_OK # ZU_ERR_INVALID_DATA /\ ZU_ERR_MEMORY # ZU_ERR_INVALID_DATA
      /\ ZU_ERR_INVALID_ARGUMENT # ZU_OK /\ ZU_ERR_INVALID_ARGUMENT # ZU_ERR_INVALID_DATA
  BY DEF ZU_OK, ZU_ERR_MEMORY, ZU_ERR_INVALID_DATA, ZU_ERR_INVALID_ARGUMENT
<1>4. PICK lv \in ResetLevels :
         \/ ResetFails(ZU_ERR_INVALID_ARGUMENT, NotAsked, enc)
         \/ \E r \in f[lv] :
              \/ r[1] # ZU_OK /\ ResetFails(r[1], r[1], r[2])
              \/ /\ r[1] = ZU_OK /\ last' = Answer("reset", ZU_OK, ZU_OK, 0)
                 /\ enc' = r[2] /\ asked' = LevelAsked(lv, asked)
  BY <1>1 DEF ResetByCaller
<1>5. CASE ResetFails(ZU_ERR_INVALID_ARGUMENT, NotAsked, enc)
  BY <1>3, <1>5 DEF ResetFails, Answer, ResetTells
<1>6. ASSUME NEW r \in f[lv], r[1] # ZU_OK, ResetFails(r[1], r[1], r[2])
      PROVE  ResetTells
  <2>1. ResetOutcome(lv, r) /\ last'.status = r[1] /\ enc' = r[2]
    BY <1>1, <1>6 DEF ResetFails, Answer
  <2>2. CASE r[1] = ZU_ERR_INVALID_DATA /\ r[2] = enc /\ ~Usable
    BY <1>3, <2>1, <2>2 DEF ResetTells
  <2>3. CASE r[1] = ZU_ERR_MEMORY /\ IsDeflate /\ r[2] = [enc EXCEPT !.mz = MzDead]
    <3>1. EncOk(pos, out, enc, finished)
      BY <1>1, LiveInv DEF Good, ResetByCaller
    <3>2. enc \in DeflateStates
      BY <2>3, <3>1 DEF EncOk, DeflateOk
    <3>3. enc'.mz = MzDead
      BY <2>1, <2>3, <3>2 DEF DeflateStates
    <3>4. ~MzDead.live
      BY DEF MzDead, MzFresh
    <3>5. IsDeflate'
      BY <1>2, <2>3 DEF IsDeflate
    <3>6. ~Usable'
      BY <3>3, <3>4, <3>5 DEF Usable
    <3>. QED  BY <1>3, <2>1, <2>3, <3>6 DEF ResetTells
  <2>. QED  BY <1>6, <2>1, <2>2, <2>3 DEF ResetOutcome
<1>7. ASSUME NEW r \in f[lv], r[1] = ZU_OK, last' = Answer("reset", ZU_OK, ZU_OK, 0),
             enc' = r[2], asked' = LevelAsked(lv, asked)
      PROVE  ResetTells
  <2>1. FreshState(r[2], LevelAsked(lv, asked)) /\ (~Usable => asked' # asked)
    BY <1>1, <1>3, <1>7 DEF ResetOutcome
  <2>2. FreshState(enc, asked)'
    BY <1>2, <1>7, <2>1, FreshSame
  <2>3. (job \in Jobs)'
    BY <1>2
  <2>4. (Usable /\ LevelInUse = asked)'
    BY <2>2, <2>3, FreshLevel, PTL
  <2>. QED  BY <1>7, <2>1, <2>4 DEF Answer, ResetTells
<1>. QED  BY <1>4, <1>5, <1>6, <1>7
----------------------------------------------------------------------------
(***************************************************************************)
(* The codecs' turns.                                                      *)
(***************************************************************************)
\* What a codec finds when it is asked.
LEMMA AskedIs ==
    ASSUME Good, Asked
    PROVE  /\ job \in Jobs /\ job.codec \in DOMAIN CodecTable /\ job.n \in Nat /\ job.room \in Nat
           /\ pos \in Nat /\ fed \in Nat /\ pos <= fed /\ fed <= job.n
           /\ AvailIn \in Nat /\ pos + AvailIn = fed /\ Offered = OfferedAfter(pos, AvailIn)
           /\ Offered \in Seq(Int) /\ Len(Offered) = AvailIn
           /\ out \in Seq(Token) /\ Len(out) \in Nat
           /\ AvailOut \in Nat /\ Len(out) + AvailOut = call.out + call.room
           /\ asked \in Int /\ finished = FALSE /\ flush \in Flush
           /\ EncOk(pos, out, enc, FALSE) /\ (IsFrame => FrameWire(pos, out, enc))
           /\ flush = ZU_FLUSH => CodecTable[job.codec].can_flush
           /\ job.driver = "one_shot" => flush = ZU_FINISH /\ fed = job.n
<1>1. pc = "process" /\ ~finished /\ (flush = ZU_FLUSH => CodecTable[job.codec].can_flush)
  BY DEF Asked, HandleRefuses, Refused
<1>2. /\ job \in Jobs /\ fed \in 0 .. job.n /\ pos \in 0 .. fed /\ out \in Seq(Token) /\ flush \in Flush
      /\ call \in [pos : Nat, out : Nat, room : Nat] /\ finished \in BOOLEAN /\ asked \in Int
      /\ call.out <= Len(out) /\ Len(out) <= call.out + call.room /\ result = Running
      /\ job.driver = "one_shot" => flush = ZU_FINISH /\ fed = job.n
  BY <1>1 DEF Good, Inv, LoopInv
<1>3. job.n \in Nat /\ job.room \in Nat /\ job.codec \in DOMAIN CodecTable
  BY <1>2, JobIs
<1>4. pos \in Nat /\ fed \in Nat /\ pos <= fed /\ fed <= job.n /\ AvailIn \in Nat /\ pos + AvailIn = fed
  BY <1>2, <1>3 DEF AvailIn
<1>5. Offered = OfferedAfter(pos, AvailIn) /\ Offered \in Seq(Int) /\ Len(Offered) = AvailIn
  BY <1>4, OfferedType DEF Offered, OfferedAfter
<1>6. Len(out) \in Nat /\ AvailOut \in Nat /\ Len(out) + AvailOut = call.out + call.room
  <2>1. Len(out) \in Nat /\ call.out \in Nat /\ call.room \in Nat
    BY <1>2
  <2>. QED  BY <1>2, <2>1 DEF AvailOut
<1>7. EncOk(pos, out, enc, finished) /\ (IsFrame => FrameWire(pos, out, enc))
  <2>1. Running # ZU_ERR_MEMORY
    BY DEF Running, ZU_ERR_MEMORY
  <2>. QED  BY <1>1, <1>2, <2>1, LiveInv DEF Good
<1>8. finished = FALSE
  BY <1>1, <1>2
<1>. QED  BY <1>1, <1>2, <1>3, <1>4, <1>5, <1>6, <1>7, <1>8

\* The input compressed, so far and offered.
LEMMA CompressedInput ==
    ASSUME NEW p, NEW lv, p \in Nat, lv \in Int
    PROVE  /\ Compressed(Input(p), lv) \in Seq(Token) /\ Len(Compressed(Input(p), lv)) = p
           /\ Plain(Compressed(Input(p), lv))
<1>1. Input(p) \in Seq(Int) /\ Len(Input(p)) = p
  BY InputType
<1>. QED  BY <1>1, CompressedType, PlainCompressed

\* The same of what is offered.
LEMMA CompressedOffered ==
    ASSUME NEW p, NEW n, NEW lv, p \in Nat, n \in Nat, lv \in Int
    PROVE  /\ Compressed(OfferedAfter(p, n), lv) \in Seq(Token)
           /\ Len(Compressed(OfferedAfter(p, n), lv)) = n
           /\ Plain(Compressed(OfferedAfter(p, n), lv))
<1>1. OfferedAfter(p, n) \in Seq(Int) /\ Len(OfferedAfter(p, n)) = n
  BY OfferedType
<1>. QED  BY <1>1, CompressedType, PlainCompressed

\* The input compressed so far, and the bytes taken next.
LEMMA CompressedGrows ==
    ASSUME NEW p, NEW n, NEW lv, p \in Nat, n \in Nat, lv \in Int
    PROVE  Compressed(Input(p), lv) \o Compressed(OfferedAfter(p, n), lv) = Compressed(Input(p + n), lv)
<1>. DEFINE a == Input(p)
            b == OfferedAfter(p, n)
<1>1. a \in Seq(Int) /\ b \in Seq(Int) /\ a \o b = Input(p + n)
  BY InputType, OfferedType, InputGrows
<1>. HIDE DEF a, b
<1>2. Compressed(a \o b, lv) = Compressed(a, lv) \o Compressed(b, lv)
  <2>1. a \in Seq(Int) /\ b \in Seq(Int) /\ lv \in Int
    BY <1>1
  <2>. QED  BY ONLY <2>1, CompressedConcat
<1>. QED  BY <1>1, <1>2 DEF a, b

\* identity_process.
LEMMA IdentityKeeps ==
    ASSUME Good, IdentityTurn
    PROVE  Good'
<1>0. Asked /\ IsIdentity
  BY DEF IdentityTurn
<1>. DEFINE n == Least(AvailIn, AvailOut)
            p == pos + n
            t == Compressed(Take(Offered, n), 0)
            o == out \o t
            st == IdentityStatus(AvailIn - n)
<1>. USE AskedIs
<1>1. Return(st, p, o, enc)
  BY DEF IdentityTurn
<1>2. n \in 0 .. AvailIn /\ n \in Nat /\ n <= AvailOut /\ (n < AvailIn => n = AvailOut) /\ p \in Nat
      /\ p \in pos .. fed /\ (n = AvailIn <=> p = fed) /\ AvailIn - n \in Nat
  BY <1>0, SMTT(40) DEF Least
<1>3. Take(Offered, n) = OfferedAfter(pos, n)
  <2>. HIDE DEF n
  <2>. QED  BY <1>0, <1>2, TakeOffered
<1>4. out = Compressed(Input(pos), 0)
  BY <1>0 DEF EncOk, IdentityOk
<1>. DEFINE z == 0
<1>. HIDE DEF n
<1>5. t \in Seq(Token) /\ Len(t) = n /\ o = Compressed(Input(p), z) /\ o \in Seq(Token) /\ Len(o) = p
      /\ Len(o) = Len(out) + n
  <2>. DEFINE c == Compressed(Input(pos), z)
              w == Compressed(OfferedAfter(pos, n), z)
  <2>0. z \in Int /\ pos \in Nat /\ n \in Nat /\ p \in Nat /\ p = pos + n
    BY <1>0, <1>2
  <2>1. t = w /\ out = c
    BY <1>3, <1>4 DEF z
  <2>2. c \in Seq(Token) /\ w \in Seq(Token) /\ Len(w) = n /\ Len(c) = pos /\ c \o w = Compressed(Input(p), z)
    <3>. HIDE DEF z
    <3>1. c \in Seq(Token) /\ Len(c) = pos
      BY <2>0, CompressedInput
    <3>2. w \in Seq(Token) /\ Len(w) = n
      BY <2>0, CompressedOffered
    <3>3. c \o w = Compressed(Input(p), z)
      BY <2>0, CompressedGrows, ZenonT(40)
    <3>. QED  BY <3>1, <3>2, <3>3
  <2>3. Compressed(Input(p), z) \in Seq(Token) /\ Len(Compressed(Input(p), z)) = p
    <3>. HIDE DEF z, p
    <3>. QED  BY <2>0, CompressedInput
  <2>. QED  BY <2>0, <2>1, <2>2, <2>3
<1>6. /\ st \in {ZU_NEED_OUTPUT, ZU_STREAM_END, ZU_NEED_INPUT}
      /\ st = ZU_NEED_OUTPUT => n < AvailIn
      /\ st = ZU_STREAM_END => n = AvailIn /\ flush = ZU_FINISH
      /\ st = ZU_NEED_INPUT => n = AvailIn /\ flush # ZU_FINISH
  <2>. DEFINE x == AvailIn - n
  <2>1. x \in Nat /\ (x > 0 => n < AvailIn) /\ (~(x > 0) => n = AvailIn)
    BY <1>0, <1>2, SMTT(40)
  <2>2. st = IF x > 0 THEN ZU_NEED_OUTPUT ELSE IF flush = ZU_FINISH THEN ZU_STREAM_END ELSE ZU_NEED_INPUT
    BY DEF IdentityStatus
  <2>. HIDE DEF x, st
  <2>. QED  BY <2>1, <2>2 DEF ZU_NEED_OUTPUT, ZU_STREAM_END, ZU_NEED_INPUT
<1>. HIDE DEF st, o, t
<1>7. ~IsDeflate /\ ~IsFrame /\ ~IsZstd /\ ~IsBlock
  BY <1>0, Kinds
<1>8. EncOk(p, o, enc, st = ZU_STREAM_END)
  <2>1. st = ZU_STREAM_END => Ending(p)
    BY <1>0, <1>2, <1>6 DEF Ending
  <2>. QED  BY <1>5, <1>7, <2>1 DEF EncOk, IdentityOk, z
<1>9. st = ZU_NEED_OUTPUT =>
        /\ Len(o) = call.out + call.room
        /\ job.driver = "one_shot" => \A s \in CompleteStreams(job.n, asked) : Len(o) < Len(s)
  <2>. SUFFICES ASSUME st = ZU_NEED_OUTPUT
                PROVE  /\ Len(o) = call.out + call.room
                       /\ job.driver = "one_shot" => \A s \in CompleteStreams(job.n, asked) : Len(o) < Len(s)
    OBVIOUS
  <2>1. n < AvailIn /\ n = AvailOut
    BY <1>2, <1>6
  <2>2. Len(o) = call.out + call.room
    BY <1>0, <1>5, <2>1
  <2>3. ASSUME job.driver = "one_shot", NEW s \in CompleteStreams(job.n, asked) PROVE Len(o) < Len(s)
    <3>1. s = Compressed(Input(job.n), z)
      BY <1>0, <2>3, StreamsAre DEF z
    <3>2. z \in Int
      BY DEF z
    <3>. HIDE DEF z
    <3>3. Len(s) = job.n
      BY <1>0, <3>1, <3>2, CompressedInput
    <3>. QED  BY <1>0, <1>2, <1>5, <2>1, <2>3, <3>3, SMTT(40)
  <2>. QED  BY <2>2, <2>3
<1>10. ReturnOk(st, p, o, enc)
  <2>1. TurnOk(p, o, enc, st = ZU_STREAM_END)
    <3>1. Len(out) <= Len(o) /\ Len(o) <= call.out + call.room
      BY <1>0, <1>2, <1>5, SMTT(40)
    <3>. QED  BY <1>2, <1>5, <1>8, <3>1 DEF TurnOk
  <2>2. st = ZU_NEED_INPUT => flush # ZU_FINISH /\ FlushedOut(p, enc)
    BY <1>2, <1>6, <1>7 DEF FlushedOut
  <2>3. st \in CodecAnswers /\ st # ZU_ERR_MEMORY /\ st # ZU_ERR_INVALID_ARGUMENT /\ st # ZU_ERR_INVALID_DATA
    BY <1>6 DEF CodecAnswers, ZU_NEED_OUTPUT, ZU_STREAM_END, ZU_NEED_INPUT, ZU_ERR_MEMORY,
                ZU_ERR_INVALID_ARGUMENT, ZU_ERR_INVALID_DATA
  <2>. QED  BY <1>7, <1>9, <2>1, <2>2, <2>3 DEF ReturnOk
<1>. HIDE DEF p
<1>. QED  BY <1>0, <1>1, <1>10, ReturnKeeps DEF Good

\* What drains of a stage, and what is left on it.
Drained(e, d) ==
    \E s \in Seq(Token), k \in Nat, b \in Seq(Token) :
      /\ k <= Len(s) /\ Len(b) <= AvailOut
      /\ d.out = out \o b
      /\ d.e = [e EXCEPT !.stage = s, !.stage_pos = k]
      /\ b \o Drop(s, k) = Drop(e.stage, e.stage_pos)
      /\ d.done \in BOOLEAN
      /\ d.done => s = <<>> /\ k = 0
      /\ ~d.done => Len(b) = AvailOut /\ k < Len(s)

\* zu_int_lz4_drain.
LEMMA DrainOk ==
    ASSUME NEW e, e.stage \in Seq(Token), e.stage_pos \in Nat, e.stage_pos <= Len(e.stage),
           AvailOut \in Nat, out \in Seq(Token)
    PROVE  Drained(e, Drain(e, out))
<1>. DEFINE g == e.stage
            j == e.stage_pos
            n == Least(Len(g) - j, AvailOut)
            done == j + n = Len(g)
            b == Piece(g, j, n)
            m == j + n
            s == IF done THEN <<>> ELSE g
            k == IF done THEN 0 ELSE j + n
            d == Drain(e, out)
<1>0. Len(g) \in Nat /\ j \in Nat /\ j <= Len(g)
  OBVIOUS
<1>1. n \in Nat /\ j + n <= Len(g) /\ n <= AvailOut /\ (j + n # Len(g) => n = AvailOut)
  BY <1>0 DEF Least
<1>2. d.out = out \o b /\ d.e = [e EXCEPT !.stage = s, !.stage_pos = k] /\ d.done = done
  BY DEF Drain, Piece
<1>3. /\ b \in Seq(Token) /\ Len(b) = n /\ b \o Drop(g, m) = Drop(g, j)
  <2>1. g \in Seq(Token) /\ j \in Nat /\ n \in Nat /\ m = j + n /\ m <= Len(g)
    BY <1>1
  <2>. HIDE DEF n, g, j, m
  <2>. QED  BY ONLY <2>1, CutAgain DEF b
<1>4. s \in Seq(Token) /\ k \in Nat /\ k <= Len(s)
  <2>1. <<>> \in Seq(Token) /\ Len(<<>>) = 0
    OBVIOUS
  <2>. HIDE DEF n
  <2>. QED  BY <1>0, <1>1, <2>1
<1>5. b \o Drop(s, k) = Drop(g, j)
  <2>1. CASE done
    <3>1. Drop(g, m) = <<>>
      <4>1. Drop(g, Len(g)) = <<>>
        <5>1. g \in Seq(Token)
          OBVIOUS
        <5>. HIDE DEF g
        <5>. QED  BY ONLY <5>1, CutEnds, Zenon
      <4>. QED  BY <2>1, <4>1
    <3>2. Drop(<<>>, 0) = <<>>
      BY DEF Drop
    <3>. HIDE DEF n, b
    <3>. QED  BY <1>3, <2>1, <3>1, <3>2
  <2>2. CASE ~done
    <3>. HIDE DEF b, n
    <3>. QED  BY <1>3, <2>2
  <2>. QED  BY <2>1, <2>2
<1>6. (done => s = <<>> /\ k = 0) /\ (~done => Len(b) = AvailOut /\ k < Len(s))
  <2>1. done => s = <<>> /\ k = 0
    OBVIOUS
  <2>2. ~done => n = AvailOut /\ j + n < Len(g)
    <3>. HIDE DEF n
    <3>. QED  BY <1>0, <1>1
  <2>3. ~done => s = g /\ k = j + n
    OBVIOUS
  <2>. HIDE DEF b, n, s, k, done
  <2>. QED  BY <1>3, <2>1, <2>2, <2>3
<1>7. Len(b) <= AvailOut /\ done \in BOOLEAN
  <2>. HIDE DEF b, n
  <2>. QED  BY <1>1, <1>3
<1>. HIDE DEF d, s, k, b, n, done
<1>8. Drained(e, d)
  BY <1>2, <1>3, <1>4, <1>5, <1>6, <1>7, Zenon DEF Drained, g, j
<1>. QED  BY <1>8 DEF d

\* The block of the whole input.
LEMMA BlockStreamIs ==
    ASSUME NEW n, NEW lv, n \in Nat, lv \in Int
    PROVE  Lz4BlockStream(n, lv) \in Seq(Token) /\ Len(Lz4BlockStream(n, lv)) = n + 1
<1>. DEFINE c == Compressed(Input(n), lv)
            x == <<"last", 0, 0>>
<1>1. c \in Seq(Token) /\ Len(c) = n
  <2>1. Input(n) \in Seq(Int) /\ Len(Input(n)) = n
    BY InputType
  <2>. QED  BY <2>1, CompressedType
<1>2. x \in Token
  BY DEF Token, Wrapping
<1>3. Lz4BlockStream(n, lv) = Append(c, x)
  BY DEF Lz4BlockStream, Input
<1>. HIDE DEF c, x
<1>. QED  BY <1>1, <1>2, <1>3

\* A block's stage is drained: how the codec answers, p bytes taken.
LEMMA BlockDrains ==
    ASSUME Good, Asked, IsBlock, NEW e, NEW p, e \in BlockStates, Lz4Level(e.level) = asked,
           e.stage_pos <= Len(e.stage), e.done, e.in = <<>>, p \in pos .. fed, Ending(p),
           out \o Drop(e.stage, e.stage_pos) = Lz4BlockStream(p, asked),
           NEW d, d = Drain(e, out),
           Return(IF d.done THEN ZU_STREAM_END ELSE ZU_NEED_OUTPUT, p, d.out, d.e)
    PROVE  Good'
<1>. USE AskedIs
<1>0. e.stage \in Seq(Token) /\ e.stage_pos \in Nat
  BY DEF BlockStates
<1>1. Drained(e, d)
  BY <1>0, DrainOk
<1>2. PICK s \in Seq(Token), k \in Nat, b \in Seq(Token) :
        /\ k <= Len(s) /\ Len(b) <= AvailOut
        /\ d.out = out \o b
        /\ d.e = [e EXCEPT !.stage = s, !.stage_pos = k]
        /\ b \o Drop(s, k) = Drop(e.stage, e.stage_pos)
        /\ d.done \in BOOLEAN
        /\ d.done => s = <<>> /\ k = 0
        /\ ~d.done => Len(b) = AvailOut /\ k < Len(s)
  BY <1>1, Zenon DEF Drained
<1>. DEFINE o == d.out
            f == d.e
            st == IF d.done THEN ZU_STREAM_END ELSE ZU_NEED_OUTPUT
            r == Drop(s, k)
<1>3. /\ f \in BlockStates /\ f.level = e.level /\ f.in = <<>> /\ f.done = e.done
      /\ f.stage = s /\ f.stage_pos = k
  <2>1. [e EXCEPT !.stage = s, !.stage_pos = k] \in BlockStates
    BY <1>2 DEF BlockStates
  <2>. QED  BY <1>2, <2>1 DEF BlockStates
<1>4. r \in Seq(Token) /\ Len(r) = Len(s) - k /\ Len(s) \in Nat /\ Len(b) \in Nat
  <2>1. k \in 0 .. Len(s) /\ s \in Seq(Token)
    BY <1>2
  <2>2. r \in Seq(Token) /\ Len(r) = Len(s) - k
    BY ONLY <2>1, Cut, SMTT(40) DEF r
  <2>. QED  BY <1>2, <2>2, SMTT(40)
<1>. HIDE DEF r
<1>5. o \in Seq(Token) /\ Len(o) = Len(out) + Len(b) /\ o \o r = Lz4BlockStream(p, asked)
  <2>1. out \in Seq(Token) /\ b \in Seq(Token) /\ r \in Seq(Token)
    BY <1>4
  <2>2. out \o b \in Seq(Token) /\ Len(out \o b) = Len(out) + Len(b)
    BY ONLY <2>1, Cat, Zenon
  <2>3. (out \o b) \o r = out \o (b \o r)
    BY ONLY <2>1, Assoc, SMTT(40)
  <2>. QED  BY <1>2, <2>2, <2>3 DEF r
<1>6. p \in Nat /\ p = fed /\ flush = ZU_FINISH
  BY DEF Ending
<1>7. Len(Lz4BlockStream(p, asked)) = Len(o) + Len(r)
  <2>1. o \in Seq(Token) /\ r \in Seq(Token)
    BY <1>4, <1>5
  <2>2. Len(o \o r) = Len(o) + Len(r)
    <3>. HIDE DEF o
    <3>. QED  BY ONLY <2>1, Cat, Zenon
  <2>. QED  BY <1>5, <2>2
<1>8. st = ZU_STREAM_END <=> d.done
  BY DEF ZU_STREAM_END, ZU_NEED_OUTPUT
<1>9. BlockCodecOk(p, o, f, d.done)
  <2>1. d.done <=> s = <<>>
    <3>1. /\ d.done \in BOOLEAN
          /\ d.done => s = <<>>
          /\ ~d.done => k < Len(s)
          /\ k \in Nat
      BY <1>2
    <3>2. Len(<<>>) = 0
      OBVIOUS
    <3>3. s = <<>> => ~(k < Len(s))
      BY ONLY <3>1, <3>2
    <3>. QED  BY ONLY <3>1, <3>3
  <2>2. o \o Drop(f.stage, f.stage_pos) = Lz4BlockStream(p, asked)
    BY <1>3, <1>5 DEF r
  <2>. HIDE DEF o, f
  <2>. QED  BY <1>2, <1>3, <2>1, <2>2 DEF BlockCodecOk
<1>10. EncOk(p, o, f, st = ZU_STREAM_END)
  <2>1. (st = ZU_STREAM_END) = d.done
    BY <1>2, <1>8
  <2>. HIDE DEF st, o, f
  <2>. QED  BY <1>9, <2>1, Kinds DEF EncOk
<1>11. TurnOk(p, o, f, st = ZU_STREAM_END)
  <2>1. Len(out) <= Len(o) /\ Len(o) <= call.out + call.room
    <3>1. Len(o) \in Nat
      BY <1>5
    <3>2. Len(out) \in Nat /\ AvailOut \in Nat /\ Len(out) + AvailOut = call.out + call.room
      OBVIOUS
    <3>3. Len(b) \in Nat /\ Len(b) <= AvailOut /\ Len(o) = Len(out) + Len(b)
      BY <1>2, <1>4, <1>5
    <3>. HIDE DEF o
    <3>. QED  BY ONLY <3>1, <3>2, <3>3
  <2>. HIDE DEF st, o, f
  <2>. QED  BY <1>5, <1>10, <2>1 DEF TurnOk
<1>12. st = ZU_NEED_OUTPUT =>
         /\ Len(o) = call.out + call.room
         /\ job.driver = "one_shot" => \A x \in CompleteStreams(job.n, asked) : Len(o) < Len(x)
  <2>. SUFFICES ASSUME st = ZU_NEED_OUTPUT
                PROVE  /\ Len(o) = call.out + call.room
                       /\ job.driver = "one_shot" => \A x \in CompleteStreams(job.n, asked) : Len(o) < Len(x)
    OBVIOUS
  <2>1. Len(b) = AvailOut /\ k < Len(s)
    BY <1>2 DEF ZU_STREAM_END, ZU_NEED_OUTPUT
  <2>2. Len(o) = call.out + call.room
    <3>. HIDE DEF o
    <3>. QED  BY <1>5, <2>1
  <2>3. ASSUME job.driver = "one_shot", NEW x \in CompleteStreams(job.n, asked) PROVE Len(o) < Len(x)
    <3>1. x = Lz4BlockStream(p, asked)
      BY <1>6, <2>3, StreamsAre
    <3>2. Len(x) = Len(o) + Len(r)
      BY ONLY <1>7, <3>1
    <3>3. Len(o) \in Nat
      BY <1>5
    <3>4. Len(r) = Len(s) - k /\ Len(s) \in Nat /\ k \in Nat /\ k < Len(s)
      BY <1>2, <1>4, <2>1
    <3>. HIDE DEF o
    <3>. QED  BY ONLY <3>2, <3>3, <3>4
  <2>. QED  BY <2>2, <2>3
<1>13. ReturnOk(st, p, o, f)
  <2>1. st \in CodecAnswers /\ st # ZU_ERR_MEMORY /\ st # ZU_ERR_INVALID_ARGUMENT /\ st # ZU_ERR_INVALID_DATA
        /\ st # ZU_NEED_INPUT
    BY DEF CodecAnswers, ZU_NEED_OUTPUT, ZU_STREAM_END, ZU_NEED_INPUT, ZU_ERR_MEMORY,
                ZU_ERR_INVALID_ARGUMENT, ZU_ERR_INVALID_DATA
  <2>2. ~IsFrame
    BY Kinds
  <2>. HIDE DEF st, o, f
  <2>. QED  BY <1>11, <1>12, <2>1, <2>2 DEF ReturnOk
<1>. QED  BY <1>13, ReturnKeeps DEF Good

\* Bytes are gathered, or not, and no block is made.
LEMMA BlockGathers ==
    ASSUME Good, Asked, IsBlock, ~enc.done, NEW st, NEW p, NEW in, p \in pos .. fed, in = Input(p),
           st = ZU_ERR_MEMORY
             \/ (st = ZU_ERR_INVALID_ARGUMENT /\ p = pos /\ Len(in) + AvailIn > MaxBlockInput)
             \/ (st = ZU_NEED_INPUT /\ flush # ZU_FINISH),
           Return(st, p, out, [enc EXCEPT !.in = in])
    PROVE  Good'
<1>. USE AskedIs
<1>. DEFINE e == [enc EXCEPT !.in = in]
<1>0. BlockCodecOk(pos, out, enc, FALSE) /\ enc \in BlockStates
  BY DEF EncOk, BlockCodecOk
<1>1. p \in Nat /\ in \in Seq(Int)
  <2>1. p \in Nat
    OBVIOUS
  <2>. QED  BY <2>1, InputType
<1>2. /\ e \in BlockStates /\ e.level = enc.level /\ e.stage = enc.stage /\ e.stage_pos = enc.stage_pos
      /\ e.done = enc.done /\ e.in = in
  BY <1>0, <1>1 DEF BlockStates
<1>. HIDE DEF e
<1>3. BlockCodecOk(p, out, e, FALSE)
  BY <1>0, <1>2 DEF BlockCodecOk
<1>4. /\ st # ZU_STREAM_END /\ st # ZU_NEED_OUTPUT /\ st # ZU_ERR_INVALID_DATA /\ st \in CodecAnswers
      /\ ZU_ERR_MEMORY # ZU_ERR_INVALID_ARGUMENT /\ ZU_NEED_INPUT # ZU_ERR_INVALID_ARGUMENT
      /\ ZU_ERR_MEMORY # ZU_NEED_INPUT
  BY DEF CodecAnswers, ZU_NEED_OUTPUT, ZU_STREAM_END, ZU_NEED_INPUT, ZU_ERR_MEMORY,
                ZU_ERR_INVALID_ARGUMENT, ZU_ERR_INVALID_DATA
<1>5. EncOk(p, out, e, st = ZU_STREAM_END)
  <2>1. (st = ZU_STREAM_END) = FALSE
    BY <1>4
  <2>. QED  BY <1>3, <2>1, Kinds DEF EncOk
<1>6. TurnOk(p, out, e, st = ZU_STREAM_END)
  <2>1. Len(out) <= Len(out) /\ Len(out) <= call.out + call.room
    OBVIOUS
  <2>. QED  BY <1>5, <2>1 DEF TurnOk
<1>7. flush # ZU_FLUSH
  BY CodecTableAssumption DEF IsBlock
<1>8. ReturnOk(st, p, out, e)
  <2>1. ~IsFrame
    BY Kinds
  <2>2. st = ZU_ERR_INVALID_ARGUMENT => Len(e.in) + (fed - p) > MaxBlockInput
    BY <1>2, <1>4 DEF AvailIn
  <2>3. st = ZU_NEED_INPUT => flush # ZU_FINISH
    BY <1>4
  <2>. QED  BY <1>4, <1>6, <1>7, <2>1, <2>2, <2>3 DEF ReturnOk
<1>. QED  BY <1>8, ReturnKeeps DEF Good, e

\* lz4b_encoder_process.
LEMMA BlockKeeps ==
    ASSUME Good, BlockTurn
    PROVE  Good'
<1>. USE AskedIs
<1>0. Asked /\ IsBlock
  BY DEF BlockTurn
<1>1. BlockCodecOk(pos, out, enc, FALSE) /\ enc \in BlockStates /\ enc.level \in Int /\ enc.done \in BOOLEAN
      /\ Lz4Level(enc.level) = asked
  <2>1. BlockCodecOk(pos, out, enc, FALSE)
    BY <1>0 DEF EncOk
  <2>2. enc \in BlockStates /\ Lz4Level(enc.level) = asked
    BY <2>1 DEF BlockCodecOk
  <2>. QED  BY <2>1, <2>2 DEF BlockStates
<1>2. CASE enc.done
  <2>1. /\ Ending(pos) /\ out \o Drop(enc.stage, enc.stage_pos) = Lz4BlockStream(pos, asked)
        /\ enc.stage_pos <= Len(enc.stage) /\ enc.in = <<>>
    BY <1>1, <1>2 DEF BlockCodecOk
  <2>. DEFINE d == Drain(enc, out)
  <2>2. Return(IF d.done THEN ZU_STREAM_END ELSE ZU_NEED_OUTPUT, pos, d.out, d.e)
    BY <1>2 DEF BlockTurn
  <2>3. pos \in pos .. fed
    BY <1>0
  <2>. HIDE DEF d
  <2>. QED  BY <1>0, <1>1, <1>2, <2>1, <2>2, <2>3, BlockDrains DEF d
<1>3. CASE ~enc.done
  <2>0. /\ enc.in = Input(pos) /\ out = <<>> /\ enc.stage = <<>> /\ enc.stage_pos <= Len(enc.stage)
        /\ enc.stage_pos \in Nat /\ Len(enc.in) = pos /\ enc.in \in Seq(Int)
    <3>1. /\ enc.in = Input(pos) /\ out = <<>> /\ enc.stage = <<>> /\ enc.stage_pos <= Len(enc.stage)
      BY <1>1, <1>3 DEF BlockCodecOk
    <3>2. enc.stage_pos \in Nat
      BY <1>1 DEF BlockStates
    <3>3. Input(pos) \in Seq(Int) /\ Len(Input(pos)) = pos
      BY <1>0, InputType
    <3>. QED  BY <3>1, <3>2, <3>3
  <2>00. pos \in pos .. fed /\ fed \in pos .. fed
    BY <1>0
  <2>01. enc.in \o Offered = Input(fed)
    <3>1. pos \in Nat /\ AvailIn \in Nat
      BY <1>0
    <3>2. Input(pos) \o OfferedAfter(pos, AvailIn) = Input(pos + AvailIn)
      BY ONLY <3>1, InputGrows
    <3>. QED  BY <1>0, <2>0, <3>2
  <2>02. BlockOf(Input(fed), enc.level) = Lz4BlockStream(fed, asked)
    BY <1>1 DEF BlockOf, Lz4BlockStream, Input
  <2>1. CASE flush = ZU_FINISH /\ OneShotBlock
    <3>. DEFINE e == [enc EXCEPT !.done = TRUE]
                w == Lz4BlockStream(fed, asked)
    <3>0. pos = 0 /\ AvailIn = fed /\ Len(out) = 0 /\ Offered = Input(fed)
      <4>1. Len(<<>>) = 0
        OBVIOUS
      <4>2. pos = 0
        BY <2>0, <2>1, <4>1 DEF OneShotBlock
      <4>3. Offered = Input(fed)
        BY <1>0, <4>2 DEF OfferedAfter, Input
      <4>. QED  BY <1>0, <2>0, <4>1, <4>2, <4>3
    <3>1. Return(ZU_STREAM_END, fed, out \o w, e)
      BY <1>3, <2>1, <2>02, <3>0 DEF BlockTurn
    <3>2. w \in Seq(Token) /\ Len(w) = fed + 1
      BY <1>0, BlockStreamIs
    <3>. HIDE DEF w
    <3>3. out \o w = w
      <4>1. <<>> \o w = w
        BY ONLY <3>2, Unit, Zenon
      <4>. QED  BY <2>0, <4>1
    <3>4. /\ e \in BlockStates /\ e.level = enc.level /\ e.stage = enc.stage /\ e.stage_pos = enc.stage_pos
          /\ e.done /\ e.in = enc.in
      BY <1>1 DEF BlockStates
    <3>. HIDE DEF e
    <3>5. BlockCodecOk(fed, w, e, TRUE)
      <4>1. Drop(e.stage, e.stage_pos) = <<>>
        <5>1. Len(<<>>) = 0
          OBVIOUS
        <5>2. e.stage = <<>> /\ e.stage_pos = 0
          BY <2>0, <3>4, <5>1
        <5>3. Drop(<<>>, 0) = <<>>
          BY DEF Drop
        <5>. QED  BY <5>2, <5>3
      <4>2. w \o <<>> = w
        BY ONLY <3>2, Unit, Zenon
      <4>3. e.in = <<>> /\ Ending(fed)
        BY <2>1, <3>4 DEF OneShotBlock, Ending
      <4>4. w \o Drop(e.stage, e.stage_pos) = Lz4BlockStream(fed, asked)
        BY <4>1, <4>2 DEF w
      <4>. QED  BY <1>1, <2>0, <3>4, <4>3, <4>4 DEF BlockCodecOk
    <3>6. EncOk(fed, w, e, TRUE)
      BY <1>0, <3>5, Kinds DEF EncOk
    <3>7. ReturnOk(ZU_STREAM_END, fed, w, e)
      <4>1. Len(out) <= Len(w) /\ Len(w) <= call.out + call.room
        <5>1. AvailOut >= AvailIn + 2
          BY <2>1 DEF OneShotBlock, CompressBound
        <5>2. Len(out) + AvailOut = call.out + call.room /\ AvailOut \in Nat /\ fed \in Nat
          BY <1>0
        <5>. QED  BY ONLY <3>0, <3>2, <5>1, <5>2
      <4>2. ~IsFrame
        BY <1>0, Kinds
      <4>3. TurnOk(fed, w, e, TRUE)
        BY <2>00, <3>2, <3>6, <4>1 DEF TurnOk
      <4>4. (ZU_STREAM_END = ZU_STREAM_END) = TRUE
        OBVIOUS
      <4>5. /\ ZU_STREAM_END \in CodecAnswers /\ ZU_STREAM_END # ZU_ERR_MEMORY
            /\ ZU_STREAM_END # ZU_ERR_INVALID_ARGUMENT /\ ZU_STREAM_END # ZU_ERR_INVALID_DATA
            /\ ZU_STREAM_END # ZU_NEED_INPUT /\ ZU_STREAM_END # ZU_NEED_OUTPUT
        BY DEF CodecAnswers, ZU_NEED_OUTPUT, ZU_STREAM_END, ZU_NEED_INPUT, ZU_ERR_MEMORY,
                ZU_ERR_INVALID_ARGUMENT, ZU_ERR_INVALID_DATA
      <4>. QED  BY <4>2, <4>3, <4>4, <4>5 DEF ReturnOk
    <3>. QED  BY <1>0, <3>1, <3>3, <3>7, ReturnKeeps DEF Good
  <2>2. CASE ~(flush = ZU_FINISH /\ OneShotBlock)
    <3>1. PICK g \in Gather :
              IF g[1] # ZU_OK \/ flush # ZU_FINISH
                THEN Return(IF g[1] # ZU_OK THEN g[1] ELSE ZU_NEED_INPUT,
                            Gathered(g), out, [enc EXCEPT !.in = g[2]])
                ELSE BlockStaged(g[2]) \/ BlockStagingFails(g[2])
      BY <1>3, <2>2 DEF BlockTurn
    <3>. DEFINE in == g[2]
                p == pos + Len(in) - Len(enc.in)
    <3>2. \/ g[1] = ZU_OK /\ in = Input(fed) /\ p = fed
          \/ g[1] = ZU_ERR_INVALID_ARGUMENT /\ in = Input(pos) /\ p = pos /\ Len(in) + AvailIn > MaxBlockInput
          \/ g[1] = ZU_ERR_MEMORY /\ in = Input(pos) /\ p = pos
      <4>1. \/ g = <<ZU_OK, enc.in>> /\ AvailIn = 0
            \/ g = <<ZU_ERR_INVALID_ARGUMENT, enc.in>> /\ Len(enc.in) + AvailIn > MaxBlockInput
            \/ g = <<ZU_OK, enc.in \o Offered>>
            \/ g = <<ZU_ERR_MEMORY, enc.in>>
        BY <3>1 DEF Gather
      <4>2. Len(Input(fed)) = fed
        BY <1>0, InputType
      <4>3. AvailIn = 0 => fed = pos
        BY <1>0
      <4>4. pos + Len(enc.in) - Len(enc.in) = pos /\ pos + fed - Len(enc.in) = fed
        BY <1>0, <2>0
      <4>5. g = <<ZU_OK, enc.in>> /\ AvailIn = 0 => g[1] = ZU_OK /\ in = Input(fed) /\ p = fed
        BY <2>0, <4>3, <4>4
      <4>6. g = <<ZU_OK, enc.in \o Offered>> => g[1] = ZU_OK /\ in = Input(fed) /\ p = fed
        BY <2>01, <4>2, <4>4
      <4>7. g = <<ZU_ERR_INVALID_ARGUMENT, enc.in>> => g[1] = ZU_ERR_INVALID_ARGUMENT /\ in = enc.in /\ p = pos
        BY <4>4
      <4>8. g = <<ZU_ERR_MEMORY, enc.in>> => g[1] = ZU_ERR_MEMORY /\ in = enc.in /\ p = pos
        BY <4>4
      <4>. HIDE DEF in, p
      <4>. QED  BY <2>0, <4>1, <4>5, <4>6, <4>7, <4>8
    <3>3. ZU_ERR_INVALID_ARGUMENT # ZU_OK /\ ZU_ERR_MEMORY # ZU_OK
      BY DEF ZU_ERR_INVALID_ARGUMENT, ZU_ERR_MEMORY, ZU_OK
    <3>4. Gathered(g) = p
      BY DEF Gathered
    <3>5. p \in pos .. fed /\ in = Input(p)
      <4>. HIDE DEF in, p
      <4>. QED  BY <2>00, <3>2
    <3>6. CASE g[1] # ZU_OK \/ flush # ZU_FINISH
      <4>. DEFINE st == IF g[1] # ZU_OK THEN g[1] ELSE ZU_NEED_INPUT
      <4>1. Return(st, p, out, [enc EXCEPT !.in = in])
        BY <3>1, <3>4, <3>6
      <4>2. st = ZU_ERR_MEMORY
             \/ (st = ZU_ERR_INVALID_ARGUMENT /\ p = pos /\ Len(in) + AvailIn > MaxBlockInput)
             \/ (st = ZU_NEED_INPUT /\ flush # ZU_FINISH)
        <5>. HIDE DEF in, p
        <5>. QED  BY <3>2, <3>3, <3>6
      <4>. HIDE DEF st, in, p
      <4>. QED  BY <1>0, <1>3, <3>5, <4>1, <4>2, BlockGathers
    <3>7. CASE ~(g[1] # ZU_OK \/ flush # ZU_FINISH)
      <4>1. in = Input(fed) /\ p = fed /\ flush = ZU_FINISH
        <5>. HIDE DEF in, p
        <5>. QED  BY <3>2, <3>3, <3>7
      <4>2. CASE BlockStagingFails(in)
        <5>1. Return(ZU_ERR_MEMORY, p, out, [enc EXCEPT !.in = in])
          BY <4>2 DEF BlockStagingFails
        <5>. HIDE DEF in, p
        <5>. QED  BY <1>0, <1>3, <3>5, <5>1, BlockGathers
      <4>3. CASE BlockStaged(in)
        <5>. DEFINE w == Lz4BlockStream(fed, asked)
                    e == [enc EXCEPT !.in = <<>>, !.stage = w, !.stage_pos = 0, !.done = TRUE]
                    d == Drain(e, out)
        <5>1. Return(IF d.done THEN ZU_STREAM_END ELSE ZU_NEED_OUTPUT, fed, d.out, d.e)
          BY <2>02, <4>1, <4>3 DEF BlockStaged
        <5>2. w \in Seq(Token) /\ Len(w) = fed + 1
          BY <1>0, BlockStreamIs
        <5>. HIDE DEF w
        <5>3. <<>> \in Seq(Int) /\ 0 \in Nat
          OBVIOUS
        <5>4. e \in BlockStates
          BY <1>1, <5>2, <5>3 DEF BlockStates
        <5>5. e.level = enc.level /\ e.stage = w /\ e.stage_pos = 0 /\ e.done /\ e.in = <<>>
          BY <1>1 DEF BlockStates
        <5>. HIDE DEF e
        <5>6. out \o Drop(e.stage, e.stage_pos) = w
          <6>1. Drop(w, 0) = w
            BY ONLY <5>2, CutEnds, Zenon
          <6>2. <<>> \o w = w
            BY ONLY <5>2, Unit, Zenon
          <6>. QED  BY <2>0, <5>5, <6>1, <6>2
        <5>7. e.stage_pos <= Len(e.stage)
          BY <1>0, <5>2, <5>5
        <5>8. Ending(fed)
          BY <4>1 DEF Ending
        <5>. HIDE DEF d
        <5>. QED  BY <1>0, <1>1, <2>00, <5>1, <5>4, <5>5, <5>6, <5>7, <5>8, BlockDrains DEF d, w
      <4>. QED  BY <3>1, <3>7, <4>2, <4>3
    <3>. QED  BY <3>6, <3>7
  <2>. QED  BY <2>1, <2>2
<1>. QED  BY <1>2, <1>3
----------------------------------------------------------------------------
(***************************************************************************)
(* The DEFLATE family.                                                     *)
(***************************************************************************)
\* One more of a sequence.
LEMMA TakeNext ==
    ASSUME NEW s, NEW k, s \in Seq(Token), k \in Nat, k < Len(s)
    PROVE  Take(s, k + 1) = Append(Take(s, k), s[k + 1]) /\ s[k + 1] \in Token
<1>0. Len(s) \in Nat /\ k + 1 \in 1 .. Len(s) /\ \A i \in 1 .. Len(s) : s[i] \in Token
  OBVIOUS
<1>. DEFINE L == Take(s, k + 1)
            t == Take(s, k)
            R == Append(t, s[k + 1])
<1>1. L \in Seq(Token) /\ Len(L) = k + 1 /\ t \in Seq(Token) /\ Len(t) = k
  <2>1. k + 1 \in 0 .. Len(s) /\ k \in 0 .. Len(s)
    BY <1>0
  <2>. QED  BY <2>1, Cut
<1>2. s[k + 1] \in Token
  BY <1>0
<1>3. ASSUME NEW j \in 0 .. Len(s) PROVE \A i \in 1 .. j : Take(s, j)[i] = s[i]
  <2>1. \A i \in 1 .. j : s[i] \in Token
    BY <1>0
  <2>2. \A i \in 1 .. j - 1 + 1 : SubSeq(s, 1, j)[i] = s[1 + i - 1]
    BY <2>1, SubSeqProperties
  <2>3. \A i \in 1 .. j : i \in 1 .. j - 1 + 1 /\ 1 + i - 1 = i
    BY <1>0
  <2>. QED  BY <2>2, <2>3 DEF Take
<1>4. (\A i \in 1 .. k + 1 : L[i] = s[i]) /\ (\A i \in 1 .. k : t[i] = s[i])
  <2>1. k + 1 \in 0 .. Len(s) /\ k \in 0 .. Len(s)
    BY <1>0
  <2>. QED  BY <1>3, <2>1
<1>. HIDE DEF L, t
<1>5. R \in Seq(Token) /\ Len(R) = k + 1 /\ R[k + 1] = s[k + 1] /\ \A i \in 1 .. k : R[i] = t[i]
  BY <1>1, <1>2
<1>. HIDE DEF R
<1>6. ASSUME NEW i \in 1 .. k + 1 PROVE L[i] = R[i]
  <2>1. i = k + 1 \/ i \in 1 .. k
    OBVIOUS
  <2>. QED  BY <1>4, <1>5, <2>1
<1>7. L = R
  BY ONLY <1>1, <1>5, <1>6, SeqEqual
<1>. QED  BY <1>2, <1>7 DEF L, R, t

\* The parts of a stream.
LEMMA DeflateParts ==
    ASSUME NEW p, p \in Nat, asked \in Int, IsDeflate
    PROVE  /\ DeflateBody(p) \in Seq(Token) /\ Plain(DeflateBody(p))
           /\ Len(DeflateBody(p)) = Len(HeaderBytes(asked)) + p
           /\ DeflateBody(p) \o <<LastBlock>> \in Seq(Token) /\ Plain(DeflateBody(p) \o <<LastBlock>>)
           /\ Len(DeflateBody(p) \o <<LastBlock>>) = Len(HeaderBytes(asked)) + p + 1
           /\ <<LastBlock>> \in Seq(Token) /\ Plain(<<LastBlock>>)
           /\ TrailerBytes(SumOf(p), p) \in Seq(Token) /\ Plain(TrailerBytes(SumOf(p), p))
           /\ job.codec = "raw" => TrailerBytes(SumOf(p), p) = <<>>
           /\ DeflateStream(p, asked) = (DeflateBody(p) \o <<LastBlock>>) \o TrailerBytes(SumOf(p), p)
           /\ Len(DeflateStream(p, asked)) = Len(HeaderBytes(asked)) + p + 1 + Len(TrailerBytes(SumOf(p), p))
<1>. DEFINE H == HeaderBytes(asked)
            C == Compressed(Input(p), asked)
            L == <<LastBlock>>
            T == TrailerBytes(SumOf(p), p)
            B == DeflateBody(p)
<1>1. H \in Seq(Token) /\ Plain(H)
  BY HeaderIs
<1>2. C \in Seq(Token) /\ Plain(C) /\ Len(C) = p
  BY CompressedInput
<1>3. LastBlock \in Token /\ LastBlock # Sync
  BY DEF LastBlock, Sync, Token, Wrapping
<1>4. L \in Seq(Token) /\ Plain(L) /\ Len(L) = 1
  <2>. DEFINE x == LastBlock
  <2>1. x \in Token /\ x # Sync
    BY <1>3
  <2>. HIDE DEF x
  <2>2. <<x>> \in Seq(Token) /\ Plain(<<x>>) /\ Len(<<x>>) = 1
    BY <2>1, PlainToken
  <2>. QED  BY <2>2 DEF x
<1>5. T \in Seq(Token) /\ Plain(T) /\ (job.codec = "raw" => T = <<>>)
  <2>1. SumOf(p) \in Int
    BY SumGrows
  <2>. QED  BY <2>1, TrailerIs
<1>6. B = H \o C
  BY DEF DeflateBody
<1>7. DeflateStream(p, asked) = (B \o L) \o T
  BY DEF DeflateStream, DeflateBody, Input, SumOf
<1>. HIDE DEF H, C, L, T, B
<1>8. B \in Seq(Token) /\ Len(B) = Len(H) + p /\ Plain(B) /\ Len(H) \in Nat
  <2>1. H \o C \in Seq(Token) /\ Len(H \o C) = Len(H) + Len(C) /\ Len(H) \in Nat
    BY ONLY <1>1, <1>2, Cat, Zenon
  <2>2. Plain(H \o C)
    BY ONLY <1>1, <1>2, PlainConcat
  <2>. QED  BY <1>2, <1>6, <2>1, <2>2
<1>9. B \o L \in Seq(Token) /\ Len(B \o L) = Len(B) + 1 /\ Plain(B \o L)
  <2>1. B \o L \in Seq(Token) /\ Len(B \o L) = Len(B) + Len(L)
    BY ONLY <1>4, <1>8, Cat, Zenon
  <2>2. Plain(B \o L)
    BY ONLY <1>4, <1>8, PlainConcat
  <2>. QED  BY <1>4, <2>1, <2>2
<1>10. Len((B \o L) \o T) = Len(B \o L) + Len(T) /\ Len(T) \in Nat
  BY ONLY <1>5, <1>9, Cat
<1>. QED  BY <1>4, <1>5, <1>7, <1>8, <1>9, <1>10 DEF H, L, T, B

\* The body grows by what is compressed.
LEMMA DeflateGrows ==
    ASSUME NEW p, NEW n, p \in Nat, n \in Nat, asked \in Int, IsDeflate
    PROVE  DeflateBody(p) \o Compressed(OfferedAfter(p, n), asked) = DeflateBody(p + n)
<1>. DEFINE H == HeaderBytes(asked)
            C == Compressed(Input(p), asked)
            D == Compressed(OfferedAfter(p, n), asked)
            E == Compressed(Input(p + n), asked)
<1>1. H \in Seq(Token) /\ C \in Seq(Token) /\ D \in Seq(Token)
  BY HeaderIs, CompressedInput, CompressedOffered
<1>2. C \o D = E
  BY CompressedGrows
<1>. HIDE DEF H, C, D, E
<1>3. (H \o C) \o D = H \o (C \o D)
  BY ONLY <1>1, Assoc, SMTT(40)
<1>. QED  BY <1>2, <1>3 DEF H, C, D, E, DeflateBody

\* An answer for want of room keeps the contract.
LEMMA DeflateWaits ==
    ASSUME Good, Asked, IsDeflate, AvailOut = 0,
           job.driver = "one_shot" => Len(out) < Len(DeflateStream(job.n, asked))
    PROVE  ReturnOk(ZU_NEED_OUTPUT, pos, out, enc)
<1>. USE AskedIs
<1>1. /\ ZU_NEED_OUTPUT \in CodecAnswers /\ ZU_NEED_OUTPUT # ZU_ERR_MEMORY
      /\ ZU_NEED_OUTPUT # ZU_ERR_INVALID_ARGUMENT /\ ZU_NEED_OUTPUT # ZU_ERR_INVALID_DATA
      /\ ZU_NEED_OUTPUT # ZU_NEED_INPUT /\ ZU_NEED_OUTPUT # ZU_STREAM_END
  BY DEF CodecAnswers, ZU_NEED_OUTPUT, ZU_STREAM_END, ZU_NEED_INPUT, ZU_ERR_MEMORY,
                ZU_ERR_INVALID_ARGUMENT, ZU_ERR_INVALID_DATA
<1>2. ~IsFrame
  BY Kinds
<1>3. CompleteStreams(job.n, asked) = {DeflateStream(job.n, asked)}
  BY StreamsAre
<1>4. Len(out) = call.out + call.room /\ Len(out) <= Len(out) /\ pos \in pos .. fed
  OBVIOUS
<1>5. (ZU_NEED_OUTPUT = ZU_STREAM_END) = FALSE
  BY <1>1
<1>6. TurnOk(pos, out, enc, ZU_NEED_OUTPUT = ZU_STREAM_END)
  BY <1>4, <1>5 DEF TurnOk
<1>7. job.driver = "one_shot" => \A s \in CompleteStreams(job.n, asked) : Len(out) < Len(s)
  BY <1>3
<1>. QED  BY <1>1, <1>2, <1>4, <1>6, <1>7 DEF ReturnOk

\* A DEFLATE encoder's state with one field changed.
LEMMA DeflateFields ==
    ASSUME NEW e, e \in DeflateStates
    PROVE  /\ e.state \in {"HEADER", "BODY", "TRAILER", "DONE"} /\ e.level \in Int
           /\ e.hdr \in Seq(Wrapper) /\ e.hdr \in Seq(Token) /\ e.hdr_pos \in Nat
           /\ e.tail \in Seq(Wrapper) /\ e.tail \in Seq(Token) /\ e.tail_pos \in Nat
           /\ e.checksum \in Int /\ e.uncompressed \in Int /\ e.mz \in MzContexts
<1>1. e.hdr \in Seq(Wrapper) /\ e.tail \in Seq(Wrapper)
  BY DEF DeflateStates
<1>2. e.hdr \in Seq(Token) /\ e.tail \in Seq(Token)
  BY <1>1, WrappersAreTokens
<1>. QED  BY <1>1, <1>2 DEF DeflateStates

\* A context with nothing in it has an empty image.
LEMMA EmptyImage ==
    ASSUME NEW c, c.pend = <<>>, c.lead = <<>>, c.held = <<>>, c.level \in Int
    PROVE  Image(c) = <<>>
<1>1. Compressed(<<>>, c.level) = <<>>
  BY CompressedEmpty
<1>2. <<>> \o <<>> = <<>>
  OBVIOUS
<1>. QED  BY <1>1, <1>2 DEF Image

\* The encoder half of ST_HEADER.
LEMMA HeaderKeeps ==
    ASSUME Good, EncodeHeader
    PROVE  Good'
<1>. USE AskedIs
<1>0. Asked /\ IsDeflate /\ enc.state = "HEADER"
  BY DEF EncodeHeader, DeflateIn
<1>1. DeflateOk(pos, out, enc, FALSE)
  BY <1>0 DEF EncOk
<1>. DEFINE h == enc.hdr
            k == enc.hdr_pos
<1>2. /\ enc \in DeflateStates /\ job.codec # "raw" /\ pos = 0 /\ out = Take(h, k) /\ k <= Len(h)
      /\ h = HeaderBytes(asked)
      /\ enc.mz.live => enc.mz.held = <<>> /\ enc.mz.pend = <<>> /\ ~enc.mz.finishing
  BY <1>0, <1>1 DEF DeflateOk
<1>3. h \in Seq(Token) /\ k \in Nat /\ Len(h) \in Nat /\ enc.mz \in MzContexts
  <2>1. h \in Seq(Token) /\ k \in Nat /\ enc.mz \in MzContexts
    BY <1>2, DeflateFields
  <2>. QED  BY <2>1
<1>. HIDE DEF h, k
<1>4. Len(out) = k
  <2>1. k \in 0 .. Len(h) /\ h \in Seq(Token)
    BY <1>2, <1>3
  <2>2. Len(Take(h, k)) = k
    BY ONLY <2>1, Cut
  <2>. QED  BY <1>2, <2>2
<1>5. CASE k = Len(h)
  <2>. DEFINE e == [enc EXCEPT !.state = "BODY"]
  <2>1. Continue(pos, out, e)
    BY <1>5 DEF EncodeHeader, h, k
  <2>2. /\ e \in DeflateStates /\ e.state = "BODY" /\ e.mz = enc.mz
        /\ e.level = enc.level /\ e.hdr = enc.hdr /\ e.hdr_pos = enc.hdr_pos
        /\ e.tail = enc.tail /\ e.tail_pos = enc.tail_pos /\ e.checksum = enc.checksum
        /\ e.uncompressed = enc.uncompressed
    BY <1>2 DEF DeflateStates
  <2>. HIDE DEF e
  <2>3. out = h
    <3>1. Take(h, Len(h)) = h
      BY ONLY <1>3, CutEnds, Zenon
    <3>. QED  BY <1>2, <1>5, <3>1
  <2>4. DeflateBody(0) = h
    <3>1. Compressed(Input(0), asked) = <<>>
      <4>1. 0 \in Nat /\ Input(0) = <<>>
        BY InputType
      <4>. QED  BY <1>0, <4>1, CompressedEmpty
    <3>2. h \o <<>> = h
      BY ONLY <1>3, Unit, Zenon
    <3>. QED  BY <1>2, <3>1, <3>2 DEF DeflateBody
  <2>5. enc.mz.live => Matches(out \o Image(enc.mz), DeflateBody(0))
    <3>. SUFFICES ASSUME enc.mz.live PROVE Matches(out \o Image(enc.mz), DeflateBody(0))
      OBVIOUS
    <3>1. Image(enc.mz) = <<>>
      <4>1. enc.mz.lead = <<>> /\ enc.mz.level \in Int
        BY <1>3 DEF MzContexts
      <4>. QED  BY <1>2, <4>1, EmptyImage
    <3>2. h \o <<>> = h
      BY ONLY <1>3, Unit, Zenon
    <3>3. Plain(h)
      BY <1>0, <1>2, HeaderIs
    <3>4. Matches(h, h)
      BY ONLY <1>3, <3>3, MatchesPlain
    <3>. QED  BY <2>3, <2>4, <3>1, <3>2, <3>4
  <2>6. DeflateOk(pos, out, e, FALSE)
    BY <1>0, <1>1, <1>2, <2>2, <2>5 DEF DeflateOk
  <2>7. ContinueOk(pos, out, e)
    <3>1. EncOk(pos, out, e, FALSE) /\ ~IsFrame
      BY <1>0, <2>6, Kinds DEF EncOk
    <3>2. pos \in pos .. fed /\ Len(out) <= Len(out) /\ Len(out) <= call.out + call.room
      BY <1>0
    <3>. QED  BY <1>0, <3>1, <3>2 DEF ContinueOk, TurnOk
  <2>. QED  BY <1>0, <2>1, <2>7, ContinueKeeps DEF Good
<1>6. CASE k # Len(h) /\ AvailOut = 0
  <2>1. Return(ZU_NEED_OUTPUT, pos, out, enc)
    BY <1>6 DEF EncodeHeader, h, k
  <2>2. Len(out) < Len(DeflateStream(job.n, asked))
    <3>1. Len(DeflateStream(job.n, asked)) = Len(h) + job.n + 1 + Len(TrailerBytes(SumOf(job.n), job.n))
          /\ TrailerBytes(SumOf(job.n), job.n) \in Seq(Token)
      BY <1>0, <1>2, DeflateParts
    <3>2. Len(TrailerBytes(SumOf(job.n), job.n)) \in Nat /\ job.n \in Nat
      BY <1>0, <3>1
    <3>. QED  BY ONLY <1>2, <1>3, <1>4, <1>6, <3>1, <3>2
  <2>3. ReturnOk(ZU_NEED_OUTPUT, pos, out, enc)
    BY <1>0, <1>6, <2>2, DeflateWaits
  <2>. QED  BY <1>0, <2>1, <2>3, ReturnKeeps DEF Good
<1>7. CASE k # Len(h) /\ AvailOut # 0
  <2>. DEFINE e == [enc EXCEPT !.hdr_pos = @ + 1]
              o == Append(out, h[k + 1])
  <2>1. Continue(pos, o, e)
    BY <1>7 DEF EncodeHeader, h, k
  <2>2. /\ e \in DeflateStates /\ e.state = enc.state /\ e.mz = enc.mz
        /\ e.level = enc.level /\ e.hdr = h /\ e.hdr_pos = k + 1
        /\ e.tail = enc.tail /\ e.tail_pos = enc.tail_pos /\ e.checksum = enc.checksum
        /\ e.uncompressed = enc.uncompressed
    BY <1>2, <1>3, SMTT(40) DEF DeflateStates, h, k
  <2>. HIDE DEF e
  <2>3. k < Len(h)
    BY <1>2, <1>3, <1>7
  <2>4. o = Take(h, k + 1) /\ h[k + 1] \in Token
    BY <1>2, <1>3, <2>3, TakeNext
  <2>5. o \in Seq(Token) /\ Len(o) = Len(out) + 1
    <3>. DEFINE x == h[k + 1]
    <3>1. x \in Token /\ out \in Seq(Token)
      BY <1>0, <2>4
    <3>. HIDE DEF x
    <3>2. Append(out, x) \in Seq(Token) /\ Len(Append(out, x)) = Len(out) + 1
      BY ONLY <3>1
    <3>. QED  BY <3>2 DEF x
  <2>. HIDE DEF o
  <2>6. DeflateOk(pos, o, e, FALSE)
    <3>1. e.hdr_pos <= Len(e.hdr)
      BY <1>3, <2>2, <2>3
    <3>2. o = Take(e.hdr, e.hdr_pos)
      BY <2>2, <2>4
    <3>. QED  BY <1>0, <1>1, <1>2, <2>2, <3>1, <3>2 DEF DeflateOk, h
  <2>7. ContinueOk(pos, o, e)
    <3>1. EncOk(pos, o, e, FALSE) /\ ~IsFrame
      BY <1>0, <2>6, Kinds DEF EncOk
    <3>2. pos \in pos .. fed /\ Len(out) <= Len(o) /\ Len(o) <= call.out + call.room
      BY <1>0, <1>7, <2>5
    <3>. QED  BY <2>5, <3>1, <3>2 DEF ContinueOk, TurnOk
  <2>. QED  BY <1>0, <2>1, <2>7, ContinueKeeps DEF Good
<1>. QED  BY <1>5, <1>6, <1>7

\* The encoder half of ST_TRAILER.
LEMMA TrailerKeeps ==
    ASSUME Good, EncodeTrailer
    PROVE  Good'
<1>. USE AskedIs
<1>0. Asked /\ IsDeflate /\ enc.state = "TRAILER"
  BY DEF EncodeTrailer, DeflateIn
<1>1. DeflateOk(pos, out, enc, FALSE)
  BY <1>0 DEF EncOk
<1>. DEFINE t == enc.tail
            k == enc.tail_pos
            B == DeflateBody(pos) \o <<LastBlock>>
<1>2. /\ enc \in DeflateStates /\ job.codec # "raw" /\ k <= Len(t)
      /\ t = TrailerBytes(SumOf(pos), pos) /\ Ending(pos) /\ Matches(out, B \o Take(t, k))
  BY <1>0, <1>1 DEF DeflateOk
<1>3. t \in Seq(Token) /\ k \in Nat /\ Len(t) \in Nat
  <2>1. t \in Seq(Token) /\ k \in Nat
    BY <1>2, DeflateFields
  <2>. QED  BY <2>1
<1>4. /\ B \in Seq(Token) /\ Len(B) = Len(HeaderBytes(asked)) + pos + 1 /\ Plain(t)
      /\ DeflateStream(pos, asked) = B \o t
  BY <1>0, <1>2, DeflateParts
<1>. HIDE DEF t, k, B
<1>5. CASE k = Len(t)
  <2>. DEFINE e == [enc EXCEPT !.state = "DONE"]
  <2>1. Return(ZU_STREAM_END, pos, out, e)
    BY <1>5 DEF EncodeTrailer, t, k
  <2>2. /\ e \in DeflateStates /\ e.state = "DONE" /\ e.mz = enc.mz
        /\ e.level = enc.level /\ e.hdr = enc.hdr /\ e.hdr_pos = enc.hdr_pos
        /\ e.tail = enc.tail /\ e.tail_pos = enc.tail_pos /\ e.checksum = enc.checksum
        /\ e.uncompressed = enc.uncompressed
    BY <1>2 DEF DeflateStates
  <2>. HIDE DEF e
  <2>3. Matches(out, DeflateStream(pos, asked))
    <3>1. Take(t, Len(t)) = t
      BY ONLY <1>3, CutEnds, Zenon
    <3>. QED  BY <1>2, <1>4, <1>5, <3>1
  <2>4. DeflateOk(pos, out, e, TRUE)
    BY <1>0, <1>1, <1>2, <2>2, <2>3 DEF DeflateOk
  <2>5. ReturnOk(ZU_STREAM_END, pos, out, e)
    <3>1. EncOk(pos, out, e, TRUE) /\ ~IsFrame
      BY <1>0, <2>4, Kinds DEF EncOk
    <3>2. pos \in pos .. fed /\ Len(out) <= Len(out) /\ Len(out) <= call.out + call.room
      BY <1>0
    <3>3. TurnOk(pos, out, e, TRUE)
      BY <1>0, <3>1, <3>2 DEF TurnOk
    <3>4. (ZU_STREAM_END = ZU_STREAM_END) = TRUE
      OBVIOUS
    <3>5. /\ ZU_STREAM_END \in CodecAnswers /\ ZU_STREAM_END # ZU_ERR_MEMORY
          /\ ZU_STREAM_END # ZU_ERR_INVALID_ARGUMENT /\ ZU_STREAM_END # ZU_ERR_INVALID_DATA
          /\ ZU_STREAM_END # ZU_NEED_INPUT /\ ZU_STREAM_END # ZU_NEED_OUTPUT
      BY DEF CodecAnswers, ZU_NEED_OUTPUT, ZU_STREAM_END, ZU_NEED_INPUT, ZU_ERR_MEMORY,
                ZU_ERR_INVALID_ARGUMENT, ZU_ERR_INVALID_DATA
    <3>. QED  BY <3>1, <3>3, <3>4, <3>5 DEF ReturnOk
  <2>. QED  BY <1>0, <2>1, <2>5, ReturnKeeps DEF Good
<1>6. CASE k # Len(t) /\ AvailOut = 0
  <2>1. Return(ZU_NEED_OUTPUT, pos, out, enc)
    BY <1>6 DEF EncodeTrailer, t, k
  <2>2. job.driver = "one_shot" => Len(out) < Len(DeflateStream(job.n, asked))
    <3>. SUFFICES ASSUME job.driver = "one_shot" PROVE Len(out) < Len(DeflateStream(job.n, asked))
      OBVIOUS
    <3>. DEFINE x == Take(t, k)
    <3>1. x \in Seq(Token) /\ Len(x) = k
      <4>1. k \in 0 .. Len(t) /\ t \in Seq(Token)
        BY <1>2, <1>3 DEF t, k
      <4>. QED  BY ONLY <4>1, Cut DEF x
    <3>2. out = B \o x
      BY <1>2 DEF Matches, B, t, k
    <3>. HIDE DEF x
    <3>3. Len(B \o x) = Len(B) + Len(x) /\ Len(B) \in Nat
      BY ONLY <1>4, <3>1, Cat, Zenon
    <3>4. Len(B \o t) = Len(B) + Len(t)
      BY ONLY <1>3, <1>4, Cat, Zenon
    <3>5. job.n = pos
      BY <1>0, <1>2 DEF Ending
    <3>6. k <= Len(t)
      BY <1>2 DEF k, t
    <3>. QED  BY <1>3, <1>4, <1>6, <3>1, <3>2, <3>3, <3>4, <3>5, <3>6
  <2>3. ReturnOk(ZU_NEED_OUTPUT, pos, out, enc)
    BY <1>0, <1>6, <2>2, DeflateWaits
  <2>. QED  BY <1>0, <2>1, <2>3, ReturnKeeps DEF Good
<1>7. CASE k # Len(t) /\ AvailOut # 0
  <2>. DEFINE e == [enc EXCEPT !.tail_pos = @ + 1]
              y == t[k + 1]
              o == Append(out, y)
              x == Take(t, k)
  <2>1. Continue(pos, o, e)
    BY <1>7 DEF EncodeTrailer, t, k
  <2>2. /\ e \in DeflateStates /\ e.state = enc.state /\ e.mz = enc.mz
        /\ e.level = enc.level /\ e.hdr = enc.hdr /\ e.hdr_pos = enc.hdr_pos
        /\ e.tail = t /\ e.tail_pos = k + 1 /\ e.checksum = enc.checksum
        /\ e.uncompressed = enc.uncompressed
    BY <1>2, <1>3 DEF DeflateStates, t, k
  <2>. HIDE DEF e
  <2>3. k < Len(t) /\ k \in 0 .. Len(t) /\ k + 1 \in 1 .. Len(t)
    BY <1>2, <1>3, <1>7 DEF k, t
  <2>4. Append(x, y) = Take(t, k + 1) /\ y \in Token
    BY <1>3, <2>3, TakeNext
  <2>5. x \in Seq(Token)
    BY ONLY <1>3, <2>3, Cut, Zenon DEF x
  <2>6. Matches(out, B \o x) /\ y # Sync
    BY <1>2, <1>4, <2>3 DEF Plain, B, t, k
  <2>. HIDE DEF x, y
  <2>7. o = out \o <<y>> /\ o \in Seq(Token) /\ Len(o) = Len(out) + 1 /\ Append(x, y) = x \o <<y>>
        /\ <<y>> \in Seq(Token)
    <3>1. y \in Token /\ out \in Seq(Token) /\ x \in Seq(Token)
      BY <1>0, <2>4, <2>5
    <3>2. Append(out, y) \in Seq(Token) /\ Len(Append(out, y)) = Len(out) + 1 /\ Append(out, y) = out \o <<y>>
          /\ Append(x, y) = x \o <<y>> /\ <<y>> \in Seq(Token)
      BY ONLY <3>1
    <3>. QED  BY <3>2
  <2>. HIDE DEF o
  <2>8. Matches(o, B \o Take(t, k + 1))
    <3>. DEFINE z == <<y>>
                w == B \o x
    <3>1. z \in Seq(Token) /\ Plain(z) /\ out \in Seq(Token)
      BY <1>0, <2>6, <2>7, PlainToken
    <3>2. Matches(out, w)
      BY <2>6
    <3>. HIDE DEF z, w
    <3>3. Matches(out \o z, w \o z)
      BY ONLY <3>1, <3>2, MatchesMore, Zenon
    <3>4. (B \o x) \o z = B \o (x \o z)
      BY ONLY <1>4, <2>5, <3>1, Assoc, SMTT(40)
    <3>. QED  BY <2>4, <2>7, <3>3, <3>4 DEF z, w
  <2>9. DeflateOk(pos, o, e, FALSE)
    <3>1. e.tail_pos <= Len(e.tail)
      BY <1>3, <2>2, <2>3
    <3>2. Matches(o, DeflateBody(pos) \o <<LastBlock>> \o Take(e.tail, e.tail_pos))
      BY <2>2, <2>8 DEF B
    <3>. QED  BY <1>0, <1>1, <1>2, <2>2, <3>1, <3>2 DEF DeflateOk, t
  <2>10. ContinueOk(pos, o, e)
    <3>1. EncOk(pos, o, e, FALSE) /\ ~IsFrame
      BY <1>0, <2>9, Kinds DEF EncOk
    <3>2. pos \in pos .. fed /\ Len(out) <= Len(o) /\ Len(o) <= call.out + call.room
      BY <1>0, <1>7, <2>7
    <3>. QED  BY <2>7, <3>1, <3>2 DEF ContinueOk, TurnOk
  <2>. QED  BY <1>0, <2>1, <2>10, ContinueKeeps DEF Good, o, y
<1>. QED  BY <1>5, <1>6, <1>7

\* Joining tokens is associative.
LEMMA TokensAssoc ==
    ASSUME NEW a, NEW b, NEW c, a \in Seq(Token), b \in Seq(Token), c \in Seq(Token)
    PROVE  (a \o b) \o c = a \o (b \o c)
BY ONLY a \in Seq(Token), b \in Seq(Token), c \in Seq(Token), Assoc

\* A call continues a stream: what it delivered and holds, b and i, is what
\* was held, what it took and a marker.
Continues(a, b, i, j, c, m) ==
    /\ a \in Seq(Token) /\ b \in Seq(Token) /\ i \in Seq(Token) /\ j \in Seq(Token)
    /\ c \in Seq(Token) /\ m \in Seq(Token)
    /\ b \o i = (j \o c) \o m

\* And so it is behind what went out before.
LEMMA Rejoin ==
    ASSUME NEW a, NEW b, NEW i, NEW j, NEW c, NEW m, Continues(a, b, i, j, c, m)
    PROVE  (a \o b) \o i = ((a \o j) \o c) \o m
<1>0. /\ a \in Seq(Token) /\ b \in Seq(Token) /\ i \in Seq(Token) /\ j \in Seq(Token)
      /\ c \in Seq(Token) /\ m \in Seq(Token)
  BY DEF Continues
<1>1. (a \o b) \o i = a \o (b \o i)
  <2>1. a \in Seq(Token) /\ b \in Seq(Token) /\ i \in Seq(Token)
    BY <1>0
  <2>. QED  BY ONLY <2>1, TokensAssoc, SMTT(40)
<1>. DEFINE x == j \o c
<1>2. x \in Seq(Token)
  <2>1. j \in Seq(Token) /\ c \in Seq(Token)
    BY <1>0
  <2>. QED  BY ONLY <2>1, Cat, Zenon DEF x
<1>3. (a \o j) \o c = a \o x
  <2>1. a \in Seq(Token) /\ j \in Seq(Token) /\ c \in Seq(Token)
    BY <1>0
  <2>. QED  BY ONLY <2>1, TokensAssoc, SMTT(40) DEF x
<1>4. b \o i = x \o m
  BY DEF Continues
<1>. HIDE DEF x
<1>5. (a \o x) \o m = a \o (x \o m)
  <2>1. a \in Seq(Token) /\ m \in Seq(Token)
    BY <1>0
  <2>. QED  BY ONLY <2>1, <1>2, TokensAssoc, SMTT(40)
<1>. QED  BY ONLY <1>1, <1>3, <1>4, <1>5

\* What one call of miniz leaves behind, for a stream in its body.
BodyMoved(d, p, o) ==
    /\ d.c \in MzContexts /\ d.c.live /\ d.c.level = asked
    /\ d.used \in Nat /\ d.used <= AvailIn
    /\ d.bytes \in Seq(Token) /\ Len(d.bytes) <= AvailOut
    /\ Matches(o \o Image(d.c),
               IF d.c.finishing THEN DeflateBody(p) \o <<LastBlock>> ELSE DeflateBody(p))
    /\ d.c.finishing => d.c.held = <<>> /\ Ending(p)
    /\ d.used = 0 /\ d.bytes = <<>> /\ AvailOut > 0 => AvailIn = 0 /\ flush = ZU_RUN

\* Every call of miniz goes on with the stream where the last one left it.
LEMMA BodyMoves ==
    ASSUME Good, Asked, IsDeflate, enc.state = "BODY", enc.mz.live, NEW d,
           MzTurns(enc.mz, Offered, AvailOut, flush, d)
    PROVE  BodyMoved(d, pos + d.used, out \o d.bytes)
<1>. USE AskedIs
<1>1. DeflateOk(pos, out, enc, FALSE)
  BY DEF EncOk
<1>. DEFINE mz == enc.mz
            p == pos + d.used
            W == out \o Image(mz)
            C == Compressed(OfferedAfter(pos, d.used), asked)
            S(q, fin) == IF fin THEN DeflateBody(q) \o <<LastBlock>> ELSE DeflateBody(q)
<1>2. /\ mz.level = asked /\ Matches(W, S(pos, mz.finishing))
      /\ mz.finishing => mz.held = <<>> /\ mz.pend # <<>> /\ Ending(pos)
      /\ enc \in DeflateStates
  BY <1>1 DEF DeflateOk
<1>3. mz \in MzContexts
  BY <1>2, DeflateFields
<1>4. d \in Calls(MzContexts)
  BY DEF MzTurns
<1>5. PICK mark \in {<<>>, <<Sync>>, <<LastBlock>>} : MzTurned(mz, Offered, AvailOut, flush, d, mark)
  BY DEF MzTurns
<1>. HIDE DEF mz
<1>6. d.c \in MzContexts /\ d.used \in Nat /\ d.bytes \in Seq(Token)
  BY <1>4, CallParts
<1>7. /\ d.c.live /\ d.c.level = asked /\ d.used <= AvailIn /\ Len(d.bytes) <= AvailOut
      /\ d.bytes \o Image(d.c) = (Image(mz) \o Compressed(Take(Offered, d.used), asked)) \o mark
      /\ mark = <<LastBlock>> =>
           flush = ZU_FINISH /\ ~mz.finishing /\ d.c.finishing /\ d.used = AvailIn /\ d.c.held = <<>>
      /\ mark = <<Sync>> => flush = ZU_FLUSH
      /\ mark # <<LastBlock>> => d.c.finishing = mz.finishing
      /\ mark = <<>> /\ d.used = 0 => d.c.held = mz.held
      /\ d.used = 0 /\ d.bytes = <<>> /\ AvailOut > 0 =>
           /\ Offered = <<>> /\ flush # ZU_FLUSH
           /\ flush = ZU_FINISH => mz.finishing /\ mz.pend = <<>>
  BY <1>2, <1>5 DEF MzTurned, mz
<1>8. Take(Offered, d.used) = OfferedAfter(pos, d.used)
  <2>1. d.used \in 0 .. AvailIn
    BY <1>6, <1>7
  <2>2. Take(OfferedAfter(pos, AvailIn), d.used) = OfferedAfter(pos, d.used)
    BY <2>1, TakeOffered
  <2>. QED  BY <2>2
<1>9. C \in Seq(Token) /\ Plain(C) /\ p \in Nat
  BY <1>6, CompressedOffered, SMTT(40)
<1>10. DeflateBody(pos) \o C = DeflateBody(p)
  BY <1>6, DeflateGrows
<1>11. Image(mz) \in Seq(Token) /\ Image(d.c) \in Seq(Token) /\ mark \in Seq(Token)
  <2>1. Buffers(MzLike(mz)) /\ mz \in MzLike(mz) /\ Buffers(MzLike(d.c)) /\ d.c \in MzLike(d.c)
    BY <1>3, <1>6, MzBuffers DEF MzLike
  <2>2. Image(mz) \in Seq(Token) /\ Image(d.c) \in Seq(Token)
    BY <2>1, ContextParts
  <2>3. Sync \in Token /\ LastBlock \in Token
    BY WrapperTokens, WrapperParts
  <2>4. <<Sync>> \in Seq(Token) /\ <<LastBlock>> \in Seq(Token) /\ <<>> \in Seq(Token)
    BY ONLY <2>3
  <2>. QED  BY <2>2, <2>4
<1>12. (out \o d.bytes) \o Image(d.c) = (W \o C) \o mark
  <2>. DEFINE b == d.bytes
              i == Image(d.c)
              j == Image(mz)
  <2>1. b \o i = (j \o C) \o mark
    BY <1>7, <1>8
  <2>2. out \in Seq(Token) /\ b \in Seq(Token) /\ i \in Seq(Token) /\ j \in Seq(Token)
        /\ C \in Seq(Token) /\ mark \in Seq(Token)
    BY <1>6, <1>9, <1>11
  <2>3. W = out \o j
    OBVIOUS
  <2>. HIDE DEF b, i, j, C, W
  <2>4. Continues(out, b, i, j, C, mark)
    BY ONLY <2>1, <2>2 DEF Continues
  <2>5. (out \o b) \o i = ((out \o j) \o C) \o mark
    BY ONLY <2>4, Rejoin, SMTT(40)
  <2>. QED  BY <2>3, <2>5 DEF b, i
<1>13. W \in Seq(Token) /\ W \o C \in Seq(Token)
  <2>1. out \in Seq(Token)
    OBVIOUS
  <2>. DEFINE j == Image(mz)
  <2>2. j \in Seq(Token)
    BY <1>11
  <2>. HIDE DEF j
  <2>3. out \o j \in Seq(Token)
    BY ONLY <2>1, <2>2, Cat, Zenon
  <2>4. W \in Seq(Token)
    BY <2>3 DEF j
  <2>. HIDE DEF W, C
  <2>5. W \o C \in Seq(Token)
    BY ONLY <1>9, <2>4, Cat, Zenon
  <2>. QED  BY <2>4, <2>5
<1>. DEFINE V == W \o C
<1>. HIDE DEF W, C
<1>14. ~mz.finishing => Matches(V, DeflateBody(p))
  <2>. SUFFICES ASSUME ~mz.finishing PROVE Matches(V, DeflateBody(p))
    OBVIOUS
  <2>1. Matches(W, DeflateBody(pos))
    BY <1>2
  <2>2. Matches(W \o C, DeflateBody(pos) \o C)
    BY <1>9, <1>13, <2>1, MatchesMore
  <2>. QED  BY <1>10, <2>2
<1>15. mz.finishing => d.used = 0 /\ C = <<>> /\ p = pos /\ AvailIn = 0
  <2>. SUFFICES ASSUME mz.finishing PROVE d.used = 0 /\ C = <<>> /\ p = pos /\ AvailIn = 0
    OBVIOUS
  <2>1. pos = fed
    BY <1>2 DEF Ending
  <2>2. AvailIn = 0 /\ d.used = 0 /\ p = pos
    BY <1>6, <1>7, <2>1
  <2>3. Len(C) = 0
    BY <1>6, <2>2, CompressedOffered DEF C
  <2>. QED  BY <1>9, <2>2, <2>3
<1>16. V \in Seq(Token)
  BY <1>13
<1>. HIDE DEF V
<1>17. Matches(V \o mark, S(p, d.c.finishing))
  <2>1. CASE mark = <<>>
    <3>1. V \o <<>> = V /\ mark # <<LastBlock>>
      BY <1>16, <2>1, Unit
    <3>2. CASE ~mz.finishing
      BY <1>7, <1>14, <2>1, <3>1, <3>2
    <3>3. CASE mz.finishing
      <4>1. W \o <<>> = W
        BY <1>13, Unit
      <4>2. V = W
        BY <1>15, <3>3, <4>1 DEF V
      <4>. QED  BY <1>2, <1>7, <1>15, <2>1, <3>1, <3>3, <4>2
    <3>. QED  BY <3>2, <3>3
  <2>2. CASE mark = <<Sync>>
    <3>1. Sync # LastBlock
      BY DEF Sync, LastBlock
    <3>2. mark # <<LastBlock>>
      BY <2>2, <3>1
    <3>3. flush = ZU_FLUSH /\ flush # ZU_FINISH
      BY <1>7, <2>2 DEF ZU_FLUSH, ZU_FINISH
    <3>4. job.driver # "one_shot" /\ ~mz.finishing
      BY <1>2, <3>3 DEF Ending
    <3>5. Matches(V \o <<Sync>>, DeflateBody(p))
      BY <1>14, <1>16, <3>4, MatchesMarked
    <3>. QED  BY <1>7, <2>2, <3>2, <3>4, <3>5
  <2>3. CASE mark = <<LastBlock>>
    <3>1. <<LastBlock>> \in Seq(Token) /\ Plain(<<LastBlock>>)
      BY <1>9, DeflateParts
    <3>2. Matches(V \o <<LastBlock>>, DeflateBody(p) \o <<LastBlock>>)
      BY <1>7, <1>14, <1>16, <2>3, <3>1, MatchesMore
    <3>. QED  BY <1>7, <2>3, <3>2
  <2>. QED  BY <2>1, <2>2, <2>3
<1>18. Matches((out \o d.bytes) \o Image(d.c), S(p, d.c.finishing))
  BY <1>12, <1>17 DEF V
<1>19. d.c.finishing => d.c.held = <<>> /\ Ending(p)
  <2>. SUFFICES ASSUME d.c.finishing PROVE d.c.held = <<>> /\ Ending(p)
    OBVIOUS
  <2>1. CASE mark = <<LastBlock>>
    <3>1. p = fed
      BY <1>7, <2>1
    <3>. QED  BY <1>7, <2>1, <3>1 DEF Ending
  <2>2. CASE mark # <<LastBlock>>
    <3>1. mz.finishing /\ Ending(pos) /\ p = pos
      BY <1>2, <1>7, <1>15, <2>2
    <3>2. mark # <<Sync>>
      BY <1>7, <3>1 DEF Ending, ZU_FLUSH, ZU_FINISH
    <3>. QED  BY <1>2, <1>5, <1>7, <1>15, <2>2, <3>1, <3>2
  <2>. QED  BY <2>1, <2>2
<1>20. d.used = 0 /\ d.bytes = <<>> /\ AvailOut > 0 => AvailIn = 0 /\ flush = ZU_RUN
  <2>1. Offered = <<>> => AvailIn = 0
    <3>1. Len(<<>>) = 0
      OBVIOUS
    <3>. QED  BY <3>1
  <2>2. flush \in {ZU_RUN, ZU_FLUSH, ZU_FINISH}
    BY DEF Flush
  <2>. QED  BY <1>2, <1>7, <2>1, <2>2
<1>. HIDE DEF p
<1>21. BodyMoved(d, p, out \o d.bytes)
  BY <1>6, <1>7, <1>18, <1>19, <1>20 DEF BodyMoved
<1>. QED  BY <1>21 DEF p
\* The codec's state once miniz has been called: the checksum and the length
\* have followed the input.
MinizTaken(d, e) ==
    /\ e \in DeflateStates /\ e.mz = d.c /\ e.state = "BODY" /\ e.level = enc.level
    /\ e.hdr = enc.hdr /\ e.hdr_pos = enc.hdr_pos /\ e.tail = enc.tail /\ e.tail_pos = enc.tail_pos
    /\ job.codec # "raw" => e.checksum = SumOf(pos + d.used) /\ e.uncompressed = pos + d.used

\* AfterMiniz does that.
LEMMA AfterMinizIs ==
    ASSUME Good, Asked, IsDeflate, enc.state = "BODY", NEW d, d.c \in MzContexts,
           d.used \in Nat, d.used <= AvailIn
    PROVE  MinizTaken(d, AfterMiniz(d))
<1>. USE AskedIs
<1>1. DeflateOk(pos, out, enc, FALSE)
  BY DEF EncOk
<1>2. enc \in DeflateStates /\ (job.codec # "raw" => enc.checksum = SumOf(pos) /\ enc.uncompressed = pos)
  BY <1>1 DEF DeflateOk
<1>. DEFINE s == IF job.codec = "raw" THEN <<>> ELSE Take(Offered, d.used)
            sum == ChecksumUpdate(enc.checksum, s)
            size == enc.uncompressed + Len(s)
            e == [enc EXCEPT !.mz = d.c, !.checksum = sum, !.uncompressed = size]
<1>3. AfterMiniz(d) = e
  BY DEF AfterMiniz
<1>4. enc.checksum \in Int /\ enc.uncompressed \in Int
  BY <1>2, DeflateFields
<1>5. s \in Seq(Int) /\ (job.codec # "raw" => s = OfferedAfter(pos, d.used) /\ Len(s) = d.used)
  <2>1. d.used \in 0 .. AvailIn
    OBVIOUS
  <2>2. Take(OfferedAfter(pos, AvailIn), d.used) = OfferedAfter(pos, d.used)
    BY <2>1, TakeOffered
  <2>3. OfferedAfter(pos, d.used) \in Seq(Int) /\ Len(OfferedAfter(pos, d.used)) = d.used
    BY OfferedType
  <2>4. <<>> \in Seq(Int)
    OBVIOUS
  <2>5. Take(Offered, d.used) = OfferedAfter(pos, d.used)
    BY <2>2
  <2>. QED  BY <2>3, <2>4, <2>5
<1>6. sum \in Int
  <2>. DEFINE c == enc.checksum
  <2>1. c \in Int /\ s \in Seq(Int)
    BY <1>4, <1>5
  <2>. HIDE DEF c, s
  <2>2. ChecksumUpdate(c, s) \in Int
    BY ONLY <2>1, ChecksumConcat
  <2>. QED  BY <2>2 DEF c
<1>7. size \in Int
  <2>1. Len(s) \in Nat
    BY <1>5
  <2>. HIDE DEF s
  <2>. QED  BY <1>4, <2>1
<1>8. job.codec # "raw" => sum = SumOf(pos + d.used) /\ size = pos + d.used
  <2>. SUFFICES ASSUME job.codec # "raw" PROVE sum = SumOf(pos + d.used) /\ size = pos + d.used
    OBVIOUS
  <2>1. SumOf(pos + d.used) = ChecksumUpdate(SumOf(pos), OfferedAfter(pos, d.used))
    BY SumGrows
  <2>. HIDE DEF s
  <2>. QED  BY <1>2, <1>5, <2>1
<1>. HIDE DEF sum, size
<1>9. /\ e \in DeflateStates /\ e.mz = d.c /\ e.state = "BODY" /\ e.level = enc.level
      /\ e.hdr = enc.hdr /\ e.hdr_pos = enc.hdr_pos /\ e.tail = enc.tail /\ e.tail_pos = enc.tail_pos
      /\ e.checksum = sum /\ e.uncompressed = size
  BY <1>2, <1>6, <1>7 DEF DeflateStates
<1>. HIDE DEF e
<1>. QED  BY <1>3, <1>8, <1>9 DEF MinizTaken

\* What a DEFLATE turn may answer, other than that it needs room.
LEMMA DeflateReturns ==
    ASSUME Good, Asked, IsDeflate, NEW st, NEW p, NEW o, NEW e,
           p \in pos .. fed, o \in Seq(Token), Len(out) <= Len(o), Len(o) <= call.out + call.room,
           DeflateOk(p, o, e, st = ZU_STREAM_END), Return(st, p, o, e),
           \/ st = ZU_STREAM_END
           \/ st = ZU_NEED_INPUT /\ flush = ZU_RUN
           \/ st = ZU_ERR_INVALID_DATA /\ ~e.mz.live
    PROVE  Good'
<1>. USE AskedIs
<1>1. ~IsFrame
  BY Kinds
<1>2. TurnOk(p, o, e, st = ZU_STREAM_END)
  <2>1. EncOk(p, o, e, st = ZU_STREAM_END)
    BY <1>1, Kinds DEF EncOk
  <2>. QED  BY <2>1 DEF TurnOk
<1>3. /\ ZU_STREAM_END # ZU_NEED_INPUT /\ ZU_STREAM_END # ZU_ERR_INVALID_DATA
      /\ ZU_NEED_INPUT # ZU_ERR_INVALID_DATA /\ ZU_RUN # ZU_FINISH /\ ZU_RUN # ZU_FLUSH
      /\ st # ZU_NEED_OUTPUT /\ st # ZU_ERR_INVALID_ARGUMENT /\ st \in CodecAnswers
  BY DEF CodecAnswers, ZU_NEED_OUTPUT, ZU_STREAM_END, ZU_NEED_INPUT, ZU_ERR_MEMORY,
         ZU_ERR_INVALID_ARGUMENT, ZU_ERR_INVALID_DATA, ZU_RUN, ZU_FINISH, ZU_FLUSH
<1>4. ReturnOk(st, p, o, e)
  BY <1>1, <1>2, <1>3 DEF ReturnOk
<1>. QED  BY <1>4, ReturnKeeps DEF Good
\* The encoder half of ST_BODY when the window is full.
LEMMA BodyWaits ==
    ASSUME Good, Asked, IsDeflate, enc.state = "BODY", AvailOut = 0
    PROVE  ReturnOk(ZU_NEED_OUTPUT, pos, out, enc)
<1>. USE AskedIs
<1>1. DeflateOk(pos, out, enc, FALSE)
  BY DEF EncOk
<1>2. job.driver = "one_shot" => Len(out) < Len(DeflateStream(job.n, asked))
  <2>. SUFFICES ASSUME job.driver = "one_shot" PROVE Len(out) < Len(DeflateStream(job.n, asked))
    OBVIOUS
  <2>. DEFINE I == Image(enc.mz)
              H == Len(HeaderBytes(asked))
              D == DeflateBody(pos)
              L == DeflateBody(pos) \o <<LastBlock>>
  <2>1. job.driver # "caller"
    OBVIOUS
  <2>2. enc.mz.live /\ enc \in DeflateStates
    BY <1>1, <2>1 DEF DeflateOk
  <2>3. /\ out \o I = IF enc.mz.finishing THEN L ELSE D
        /\ enc.mz.finishing => enc.mz.held = <<>> /\ enc.mz.pend # <<>> /\ Ending(pos)
    BY <1>1, <2>2 DEF DeflateOk, Matches
  <2>4. enc.mz \in MzContexts
    BY <2>2, DeflateFields
  <2>5. I \in Seq(Token)
    <3>1. Buffers(MzLike(enc.mz)) /\ enc.mz \in MzLike(enc.mz)
      BY <2>4, MzBuffers DEF MzLike
    <3>. QED  BY <3>1, ContextParts
  <2>6. /\ Len(D) = H + pos /\ Len(L) = H + pos + 1 /\ H \in Nat
        /\ Len(DeflateStream(job.n, asked)) = H + job.n + 1 + Len(TrailerBytes(SumOf(job.n), job.n))
        /\ TrailerBytes(SumOf(job.n), job.n) \in Seq(Token)
    <3>1. H \in Nat
      <4>1. HeaderBytes(asked) \in Seq(Token)
        BY HeaderIs
      <4>. QED  BY <4>1
    <3>. QED  BY <3>1, DeflateParts
  <2>7. Len(TrailerBytes(SumOf(job.n), job.n)) \in Nat
    BY <2>6
  <2>8. enc.mz.finishing => Len(I) > 0
    <3>. SUFFICES ASSUME enc.mz.finishing, Len(I) = 0 PROVE FALSE
      BY <2>5
    <3>. DEFINE pend == enc.mz.pend
                rest == Compressed(enc.mz.held, enc.mz.level)
    <3>1. pend \in Seq(Token) /\ enc.mz.lead = <<>> /\ enc.mz.level \in Int
      BY <2>4 DEF MzContexts
    <3>2. enc.mz.held = <<>> /\ pend # <<>>
      BY <2>3
    <3>3. rest = <<>>
      BY <3>1, <3>2, CompressedEmpty
    <3>4. I = (pend \o <<>>) \o rest
      BY <3>1 DEF Image
    <3>. HIDE DEF pend, rest, I
    <3>5. pend \o <<>> = pend
      BY ONLY <3>1, Unit, Zenon
    <3>6. I = pend
      BY ONLY <3>3, <3>4, <3>5
    <3>. QED  BY ONLY <3>1, <3>2, <3>6, Len(I) = 0
  <2>. HIDE DEF I, H, D, L
  <2>9. Len(out \o I) = Len(out) + Len(I) /\ Len(I) \in Nat
    <3>1. out \in Seq(Token)
      OBVIOUS
    <3>. QED  BY ONLY <2>5, <3>1, Cat, Zenon
  <2>10. Len(out) \in Nat /\ pos <= job.n /\ pos \in Nat /\ job.n \in Nat
    OBVIOUS
  <2>. QED  BY ONLY <2>3, <2>6, <2>7, <2>8, <2>9, <2>10, SMTT(40)
<1>. QED  BY <1>2, DeflateWaits

\* A checksum is a number.
LEMMA SumIs ==
    ASSUME NEW p, p \in Nat
    PROVE  SumOf(p) \in Int /\ p \in Int
<1>. DEFINE n == p
<1>1. n \in Nat
  OBVIOUS
<1>. HIDE DEF n
<1>. QED  BY <1>1, SumGrows

\* The codec's state at the end of the body.
LEMMA BodyEnds ==
    ASSUME Good, Asked, IsDeflate, enc.state = "BODY", NEW d, NEW p, NEW o, NEW e,
           p = pos + d.used, p \in Nat, o \in Seq(Token),
           BodyMoved(d, p, o), MinizTaken(d, e), MzEnded(d)
    PROVE  DeflateOk(p, o, AfterEnd(e), job.codec = "raw")
<1>. USE AskedIs
<1>1. DeflateOk(pos, out, enc, FALSE)
  BY DEF EncOk
<1>2. /\ d.c.finishing /\ d.c.pend = <<>> /\ d.c.held = <<>> /\ Ending(p)
      /\ d.c \in MzContexts /\ d.c.live /\ d.c.level = asked
      /\ Matches(o \o Image(d.c), DeflateBody(p) \o <<LastBlock>>)
  BY DEF MzEnded, BodyMoved
<1>3. /\ e \in DeflateStates /\ e.mz = d.c /\ e.state = "BODY" /\ e.level = enc.level
      /\ e.hdr = enc.hdr /\ e.hdr_pos = enc.hdr_pos /\ e.tail = enc.tail /\ e.tail_pos = enc.tail_pos
      /\ job.codec # "raw" => e.checksum = SumOf(p) /\ e.uncompressed = p
  BY DEF MinizTaken
<1>4. Matches(o, DeflateBody(p) \o <<LastBlock>>)
  <2>1. Image(d.c) = <<>>
    <3>1. d.c.lead = <<>> /\ d.c.level \in Int
      BY <1>2 DEF MzContexts
    <3>. QED  BY <1>2, <3>1, EmptyImage
  <2>2. o \o <<>> = o
    BY ONLY o \in Seq(Token), Unit
  <2>. QED  BY <1>2, <2>1, <2>2
<1>. DEFINE L == DeflateBody(p) \o <<LastBlock>>
            t == TrailerBytes(SumOf(p), p)
<1>5. L \in Seq(Token) /\ DeflateStream(p, asked) = L \o t /\ (job.codec = "raw" => t = <<>>)
  BY DeflateParts
<1>6. CASE job.codec = "raw"
  <2>. DEFINE f == [e EXCEPT !.state = "DONE"]
  <2>1. AfterEnd(e) = f
    BY <1>6 DEF AfterEnd
  <2>2. /\ f \in DeflateStates /\ f.state = "DONE" /\ f.mz = e.mz
        /\ f.level = e.level /\ f.hdr = e.hdr /\ f.hdr_pos = e.hdr_pos
        /\ f.tail = e.tail /\ f.tail_pos = e.tail_pos
    BY <1>3 DEF DeflateStates
  <2>. HIDE DEF f
  <2>3. Matches(o, DeflateStream(p, asked))
    <3>1. t = <<>>
      BY <1>5, <1>6
    <3>. HIDE DEF L, t
    <3>2. L \o <<>> = L
      BY ONLY <1>5, Unit, Zenon
    <3>. QED  BY <1>4, <1>5, <3>1, <3>2 DEF L
  <2>4. (job.codec = "raw") = TRUE
    BY <1>6
  <2>5. DeflateOk(p, o, f, TRUE)
    BY <1>1, <1>2, <1>3, <1>6, <2>2, <2>3 DEF DeflateOk
  <2>. QED  BY <2>1, <2>4, <2>5
<1>7. CASE job.codec # "raw"
  <2>. DEFINE f == [e EXCEPT !.state = "TRAILER", !.tail_pos = 0, !.tail = t]
  <2>1. AfterEnd(e) = f
    BY <1>3, <1>7 DEF AfterEnd
  <2>2. t \in Seq(Wrapper)
    <3>1. SumOf(p) \in Int /\ p \in Int
      BY SumIs
    <3>. QED  BY <3>1, TrailerIs
  <2>. HIDE DEF t
  <2>3. /\ f \in DeflateStates /\ f.state = "TRAILER" /\ f.mz = e.mz
        /\ f.level = e.level /\ f.hdr = e.hdr /\ f.hdr_pos = e.hdr_pos
        /\ f.tail = t /\ f.tail_pos = 0
    BY <1>3, <2>2 DEF DeflateStates
  <2>. HIDE DEF f
  <2>4. Matches(o, L \o Take(f.tail, f.tail_pos))
    <3>. HIDE DEF L
    <3>1. Take(t, 0) = <<>>
      BY ONLY <2>2, CutEnds, Zenon
    <3>2. L \o <<>> = L
      BY ONLY <1>5, Unit, Zenon
    <3>3. Matches(o, L)
      BY <1>4 DEF L
    <3>. QED  BY <2>3, <3>1, <3>2, <3>3
  <2>5. f.tail_pos <= Len(f.tail)
    BY <2>2, <2>3
  <2>6. (job.codec = "raw") = FALSE
    BY <1>7
  <2>7. DeflateOk(p, o, f, FALSE)
    BY <1>1, <1>2, <1>3, <1>7, <2>3, <2>4, <2>5 DEF DeflateOk, t
  <2>. QED  BY <2>1, <2>6, <2>7
<1>. QED  BY <1>6, <1>7

\* The encoder half of ST_BODY.
LEMMA BodyKeeps ==
    ASSUME Good, EncodeBody
    PROVE  Good'
<1>. USE AskedIs
<1>0. Asked /\ IsDeflate /\ enc.state = "BODY"
  BY DEF EncodeBody, DeflateIn
<1>1. DeflateOk(pos, out, enc, FALSE)
  BY <1>0 DEF EncOk
<1>2. CASE AvailOut = 0
  <2>1. Return(ZU_NEED_OUTPUT, pos, out, enc)
    BY <1>2 DEF EncodeBody
  <2>. QED  BY <1>0, <1>2, <2>1, BodyWaits, ReturnKeeps DEF Good
<1>3. CASE AvailOut # 0 /\ ~enc.mz.live
  <2>1. Return(ZU_ERR_INVALID_DATA, pos, out, enc)
    BY <1>3 DEF EncodeBody
  <2>2. (ZU_ERR_INVALID_DATA = ZU_STREAM_END) = FALSE
    BY DEF ZU_ERR_INVALID_DATA, ZU_STREAM_END
  <2>3. DeflateOk(pos, out, enc, ZU_ERR_INVALID_DATA = ZU_STREAM_END)
    BY <1>1, <2>2
  <2>4. pos \in pos .. fed /\ out \in Seq(Token) /\ Len(out) <= Len(out) /\ Len(out) <= call.out + call.room
    BY <1>0
  <2>. QED  BY <1>0, <1>3, <2>1, <2>3, <2>4, DeflateReturns
<1>4. CASE AvailOut # 0 /\ enc.mz.live
  <2>. DEFINE d == MzDeflate(enc.mz, Offered, AvailOut, flush)
              p == pos + d.used
              o == out \o d.bytes
              e == AfterMiniz(d)
  <2>1. IF MzEnded(d) /\ job.codec = "raw"
          THEN Return(ZU_STREAM_END, p, o, AfterEnd(e))
        ELSE IF MzEnded(d)
          THEN Continue(p, o, AfterEnd(e))
        ELSE IF d.used = 0 /\ d.bytes = <<>>
          THEN Return(BodyStuck(fed - p), p, o, e)
        ELSE Continue(p, o, e)
    BY <1>4 DEF EncodeBody
  <2>2. MzTurns(enc.mz, Offered, AvailOut, flush, d)
    <3>1. enc.mz \in MzContexts
      BY <1>1, DeflateFields DEF DeflateOk
    <3>. HIDE DEF d
    <3>2. MzTurns(enc.mz, Offered, AvailOut, flush, MzDeflate(enc.mz, Offered, AvailOut, flush))
      BY <1>0, <3>1, MzDeflateOk
    <3>. QED  BY <3>2 DEF d
  <2>. HIDE DEF d
  <2>3. BodyMoved(d, p, o)
    BY <1>0, <1>4, <2>2, BodyMoves
  <2>4. /\ d.c \in MzContexts /\ d.c.live /\ d.c.level = asked
        /\ d.used \in Nat /\ d.used <= AvailIn /\ d.bytes \in Seq(Token) /\ Len(d.bytes) <= AvailOut
        /\ Matches(o \o Image(d.c),
                   IF d.c.finishing THEN DeflateBody(p) \o <<LastBlock>> ELSE DeflateBody(p))
        /\ d.c.finishing => d.c.held = <<>> /\ Ending(p)
        /\ d.used = 0 /\ d.bytes = <<>> /\ AvailOut > 0 => AvailIn = 0 /\ flush = ZU_RUN
    BY <2>3 DEF BodyMoved
  <2>5. MinizTaken(d, e)
    BY <1>0, <2>4, AfterMinizIs
  <2>6. p \in pos .. fed /\ p \in Nat
    BY <1>0, <2>4
  <2>7. o \in Seq(Token) /\ Len(out) <= Len(o) /\ Len(o) <= call.out + call.room
    <3>. DEFINE b == d.bytes
    <3>1. out \in Seq(Token) /\ b \in Seq(Token) /\ Len(b) <= AvailOut
      BY <1>0, <2>4
    <3>. HIDE DEF b
    <3>2. out \o b \in Seq(Token) /\ Len(out \o b) = Len(out) + Len(b) /\ Len(out) \in Nat /\ Len(b) \in Nat
      BY ONLY <3>1, Cat, Zenon
    <3>3. Len(out) + AvailOut = call.out + call.room /\ AvailOut \in Nat
      BY <1>0
    <3>4. Len(out) <= Len(out \o b) /\ Len(out \o b) <= Len(out) + AvailOut
      BY ONLY <3>1, <3>2, <3>3
    <3>. QED  BY <3>2, <3>3, <3>4 DEF b
  <2>. HIDE DEF e, o, p
  <2>8. CASE MzEnded(d)
    <3>1. DeflateOk(p, o, AfterEnd(e), job.codec = "raw")
      BY <1>0, <2>3, <2>5, <2>6, <2>7, <2>8, BodyEnds DEF p
    <3>2. CASE job.codec = "raw"
      <4>1. Return(ZU_STREAM_END, p, o, AfterEnd(e))
        BY <2>1, <2>8, <3>2
      <4>2. (job.codec = "raw") = TRUE /\ (ZU_STREAM_END = ZU_STREAM_END) = TRUE
        BY <3>2
      <4>3. DeflateOk(p, o, AfterEnd(e), ZU_STREAM_END = ZU_STREAM_END)
        BY <3>1, <4>2
      <4>. QED  BY <1>0, <2>6, <2>7, <4>1, <4>3, DeflateReturns
    <3>3. CASE job.codec # "raw"
      <4>1. Continue(p, o, AfterEnd(e))
        BY <2>1, <2>8, <3>3
      <4>2. (job.codec = "raw") = FALSE
        BY <3>3
      <4>3. EncOk(p, o, AfterEnd(e), FALSE) /\ ~IsFrame
        BY <1>0, <3>1, <4>2, Kinds DEF EncOk
      <4>4. ContinueOk(p, o, AfterEnd(e))
        BY <2>6, <2>7, <4>3 DEF ContinueOk, TurnOk
      <4>. QED  BY <1>0, <4>1, <4>4, ContinueKeeps DEF Good
    <3>. QED  BY <3>2, <3>3
  <2>9. CASE ~MzEnded(d)
    <3>1. DeflateOk(p, o, e, FALSE)
      <4>1. d.c.finishing => d.c.pend # <<>>
        BY <2>9 DEF MzEnded
      <4>2. /\ e \in DeflateStates /\ e.mz = d.c /\ e.state = "BODY" /\ e.level = enc.level
            /\ e.hdr = enc.hdr /\ e.hdr_pos = enc.hdr_pos /\ e.tail = enc.tail /\ e.tail_pos = enc.tail_pos
            /\ job.codec # "raw" => e.checksum = SumOf(p) /\ e.uncompressed = p
        BY <2>5 DEF MinizTaken, p
      <4>. QED  BY <1>1, <2>4, <4>1, <4>2 DEF DeflateOk
    <3>2. CASE d.used = 0 /\ d.bytes = <<>>
      <4>1. Return(BodyStuck(fed - p), p, o, e)
        BY <2>1, <2>9, <3>2
      <4>2. AvailIn = 0 /\ flush = ZU_RUN
        BY <1>0, <1>4, <2>4, <3>2
      <4>3. ~(fed - p > 0)
        BY <1>0, <3>2, <4>2 DEF p
      <4>4. BodyStuck(fed - p) = ZU_NEED_INPUT
        BY <4>2, <4>3 DEF BodyStuck, ZU_RUN, ZU_FINISH
      <4>5. Return(ZU_NEED_INPUT, p, o, e)
        BY <4>1, <4>4
      <4>6. (ZU_NEED_INPUT = ZU_STREAM_END) = FALSE
        BY DEF ZU_NEED_INPUT, ZU_STREAM_END
      <4>7. DeflateOk(p, o, e, ZU_NEED_INPUT = ZU_STREAM_END)
        BY <3>1, <4>6
      <4>. QED  BY <1>0, <2>6, <2>7, <4>2, <4>5, <4>7, DeflateReturns
    <3>3. CASE ~(d.used = 0 /\ d.bytes = <<>>)
      <4>1. Continue(p, o, e)
        BY <2>1, <2>9, <3>3
      <4>2. EncOk(p, o, e, FALSE) /\ ~IsFrame
        BY <1>0, <3>1, Kinds DEF EncOk
      <4>3. ContinueOk(p, o, e)
        BY <2>6, <2>7, <4>2 DEF ContinueOk, TurnOk
      <4>. QED  BY <1>0, <4>1, <4>3, ContinueKeeps DEF Good
    <3>. QED  BY <3>2, <3>3
  <2>. QED  BY <2>8, <2>9
<1>. QED  BY <1>2, <1>3, <1>4
----------------------------------------------------------------------------
(***************************************************************************)
(* lz4-frame.                                                              *)
(***************************************************************************)
\* Contexts that differ in their buffers alone.
FrameLike(z) == {c \in FrameContexts : c.size = z.size /\ c.total = z.total /\ c.sum = z.sum}

\* LZ4F_cctx is a block compressor.
LEMMA FrameBuffers ==
    ASSUME NEW z
    PROVE  Buffers(FrameLike(z))
<1>. SUFFICES ASSUME NEW c \in FrameLike(z)
              PROVE  /\ c.held \in Seq(Int) /\ c.pend \in Seq(Token) /\ c.lead \in Seq(Wrapper)
                     /\ c.level \in Int
                     /\ \A h \in Seq(Int) :
                          /\ [c EXCEPT !.held = h] \in FrameLike(z)
                          /\ Holds([c EXCEPT !.held = h], h, c.pend, c.lead, c.level)
                     /\ \A p \in Seq(Token) :
                          /\ [c EXCEPT !.pend = p] \in FrameLike(z)
                          /\ Holds([c EXCEPT !.pend = p], c.held, p, c.lead, c.level)
                     /\ \A p \in Seq(Token) :
                          /\ [c EXCEPT !.held = <<>>, !.lead = <<>>, !.pend = p] \in FrameLike(z)
                          /\ Holds([c EXCEPT !.held = <<>>, !.lead = <<>>, !.pend = p], <<>>, p, <<>>, c.level)
  BY Zenon DEF Buffers
<1>1. c \in FrameContexts /\ c.size = z.size /\ c.total = z.total /\ c.sum = z.sum
  BY DEF FrameLike
<1>2. <<>> \in Seq(Wrapper) /\ <<>> \in Seq(Int)
  OBVIOUS
<1>3. /\ c.held \in Seq(Int) /\ c.pend \in Seq(Token) /\ c.lead \in Seq(Wrapper)
      /\ c.level \in Int
  BY <1>1, <1>2 DEF FrameContexts
<1>4. ASSUME NEW h \in Seq(Int)
      PROVE  /\ [c EXCEPT !.held = h] \in FrameLike(z)
             /\ Holds([c EXCEPT !.held = h], h, c.pend, c.lead, c.level)
  BY <1>1 DEF FrameContexts, FrameLike, Holds
<1>5. ASSUME NEW p \in Seq(Token)
      PROVE  /\ [c EXCEPT !.pend = p] \in FrameLike(z)
             /\ Holds([c EXCEPT !.pend = p], c.held, p, c.lead, c.level)
  BY <1>1 DEF FrameContexts, FrameLike, Holds
<1>6. ASSUME NEW p \in Seq(Token)
      PROVE  /\ [c EXCEPT !.held = <<>>, !.lead = <<>>, !.pend = p] \in FrameLike(z)
             /\ Holds([c EXCEPT !.held = <<>>, !.lead = <<>>, !.pend = p], <<>>, p, <<>>, c.level)
  BY <1>1, <1>2 DEF FrameContexts, FrameLike, Holds
<1>. QED  BY <1>3, <1>4, <1>5, <1>6, Zenon

\* A frame, its pieces and their lengths.
LEMMA FrameParts ==
    ASSUME NEW size, NEW p, size \in Int, p \in Nat, asked \in Int
    PROVE  /\ FrameBody(size, p) \in Seq(Token) /\ Len(FrameBody(size, p)) = p + 1
           /\ FrameTail(p) \in Seq(Token) /\ Len(FrameTail(p)) = 2
           /\ \A ended \in BOOLEAN : /\ FrameSoFar(size, p, ended) \in Seq(Token)
                                     /\ Len(FrameSoFar(size, p, ended)) <= p + 3
           /\ Len(FrameSoFar(size, p, TRUE)) = p + 3
<1>. DEFINE f == <<"frame", size, 0>>
            m == <<"endmark", 0, 0>>
            x == <<"xxh", SumOf(p), 0>>
            C == Compressed(Input(p), asked)
            H == <<f>>
            T == <<m, x>>
            B == H \o C
            W == B \o T
<1>1. f \in Token /\ m \in Token /\ x \in Token
  <2>1. SumOf(p) \in Int
    BY SumIs
  <2>. QED  BY <2>1 DEF Token, Wrapping
<1>2. C \in Seq(Token) /\ Len(C) = p
  BY CompressedInput
<1>3. B = FrameBody(size, p) /\ T = FrameTail(p)
  BY DEF FrameBody, FrameTail
<1>. HIDE DEF f, m, x, C
<1>4. H \in Seq(Token) /\ Len(H) = 1 /\ T \in Seq(Token) /\ Len(T) = 2
  BY ONLY <1>1 DEF H, T
<1>. HIDE DEF H, T
<1>5. B \in Seq(Token) /\ Len(B) = Len(H) + Len(C)
  BY ONLY <1>2, <1>4, Cat, ZenonT(40) DEF B
<1>. HIDE DEF B
<1>6. W \in Seq(Token) /\ Len(W) = Len(B) + Len(T)
  BY ONLY <1>4, <1>5, Cat, ZenonT(40) DEF W
<1>. HIDE DEF W
<1>7. Len(B) = p + 1 /\ Len(W) = p + 3
  BY <1>2, <1>4, <1>5, <1>6
<1>8. FrameSoFar(size, p, TRUE) = W /\ FrameSoFar(size, p, FALSE) = B
  BY <1>3 DEF FrameSoFar, W
<1>9. ASSUME NEW ended \in BOOLEAN
      PROVE  FrameSoFar(size, p, ended) \in Seq(Token) /\ Len(FrameSoFar(size, p, ended)) <= p + 3
  <2>1. ended = TRUE \/ ended = FALSE
    OBVIOUS
  <2>2. Len(B) <= p + 3 /\ Len(W) <= p + 3
    BY <1>7
  <2>. QED  BY <1>5, <1>6, <1>8, <2>1, <2>2
<1>. QED  BY <1>3, <1>4, <1>5, <1>7, <1>8, <1>9

\* More input makes the frame longer.
LEMMA FrameGrows ==
    ASSUME NEW size, NEW p, NEW n, size \in Int, p \in Nat, n \in Nat, asked \in Int
    PROVE  FrameBody(size, p) \o Compressed(OfferedAfter(p, n), asked) = FrameBody(size, p + n)
<1>. DEFINE f == <<"frame", size, 0>>
            H == <<f>>
            C == Compressed(Input(p), asked)
            D == Compressed(OfferedAfter(p, n), asked)
            E == Compressed(Input(p + n), asked)
<1>1. f \in Token
  BY DEF Token, Wrapping
<1>2. C \in Seq(Token) /\ D \in Seq(Token)
  BY CompressedInput, CompressedOffered
<1>3. C \o D = E
  BY CompressedGrows
<1>4. FrameBody(size, p) = H \o C /\ FrameBody(size, p + n) = H \o E
  BY DEF FrameBody
<1>. HIDE DEF f, C, D, E
<1>5. H \in Seq(Token)
  BY ONLY <1>1 DEF H
<1>. HIDE DEF H
<1>6. (H \o C) \o D = H \o (C \o D)
  BY ONLY <1>2, <1>5, TokensAssoc, SMTT(40)
<1>. QED  BY <1>3, <1>4, <1>6 DEF D

\* Every complete frame of n bytes has the same length.
LEMMA FrameStreamsAre ==
    ASSUME NEW n, n \in Nat, asked \in Int
    PROVE  /\ Lz4FrameStreams(n, asked) = {FrameSoFar(size, n, TRUE) : size \in {0, n}}
           /\ \A s \in Lz4FrameStreams(n, asked) : Len(s) = n + 3
<1>1. \A size : FrameSoFar(size, n, TRUE) =
        << <<"frame", size, 0>> >> \o Compressed([i \in 1 .. n |-> i], asked)
           \o << <<"endmark", 0, 0>>, <<"xxh", ChecksumUpdate(0, [i \in 1 .. n |-> i]), 0>> >>
  BY DEF FrameSoFar, FrameBody, FrameTail, SumOf, Input
<1>2. Lz4FrameStreams(n, asked) = {FrameSoFar(size, n, TRUE) : size \in {0, n}}
  BY <1>1 DEF Lz4FrameStreams
<1>3. ASSUME NEW size \in {0, n} PROVE Len(FrameSoFar(size, n, TRUE)) = n + 3
  <2>1. size \in Int
    OBVIOUS
  <2>. QED  BY <2>1, FrameParts
<1>. QED  BY <1>2, <1>3

\* An lz4-frame encoder's state.
LEMMA FrameFields ==
    ASSUME NEW e, e \in FrameStates
    PROVE  /\ e.level \in Int /\ e.size \in Nat /\ e.started \in BOOLEAN /\ e.ended \in BOOLEAN
           /\ e.done \in BOOLEAN /\ e.flushed \in BOOLEAN /\ e.stage \in Seq(Token)
           /\ e.stage_pos \in Nat /\ e.cctx \in FrameContexts
BY DEF FrameStates
\* What the drained stage of a frame encoder is.
FrameDrain(d) ==
    /\ FrameOk(pos, d.out, d.e, FALSE) /\ FrameWire(pos, d.out, d.e)
    /\ d.out \in Seq(Token) /\ Len(out) <= Len(d.out) /\ Len(d.out) <= call.out + call.room
    /\ d.done \in BOOLEAN
    /\ d.done => d.e.stage = <<>> /\ d.e.stage_pos = 0
    /\ ~d.done => /\ Len(d.out) = call.out + call.room
                  /\ d.e.started /\ d.e.stage_pos < Len(d.e.stage)

\* zu_int_lz4_drain moves tokens from the stage to the window.
LEMMA FrameDrains ==
    ASSUME Good, Asked, IsFrame, NEW d, d = Drain(enc, out)
    PROVE  FrameDrain(d)
<1>. USE AskedIs
<1>1. FrameOk(pos, out, enc, FALSE) /\ FrameWire(pos, out, enc)
  BY DEF EncOk
<1>2. enc \in FrameStates /\ enc.stage_pos <= Len(enc.stage)
  BY <1>1 DEF FrameOk
<1>3. enc.stage \in Seq(Token) /\ enc.stage_pos \in Nat
  BY <1>2, FrameFields
<1>4. Drained(enc, d)
  BY <1>2, <1>3, DrainOk
<1>5. PICK s \in Seq(Token), k \in Nat, b \in Seq(Token) :
        /\ k <= Len(s) /\ Len(b) <= AvailOut
        /\ d.out = out \o b
        /\ d.e = [enc EXCEPT !.stage = s, !.stage_pos = k]
        /\ b \o Drop(s, k) = Drop(enc.stage, enc.stage_pos)
        /\ d.done \in BOOLEAN
        /\ d.done => s = <<>> /\ k = 0
        /\ ~d.done => Len(b) = AvailOut /\ k < Len(s)
  BY <1>4, Zenon DEF Drained
<1>. DEFINE e == [enc EXCEPT !.stage = s, !.stage_pos = k]
            o == out \o b
            r == Drop(s, k)
            g == Drop(enc.stage, enc.stage_pos)
<1>6. /\ e \in FrameStates /\ e.level = enc.level /\ e.size = enc.size /\ e.started = enc.started
      /\ e.ended = enc.ended /\ e.done = enc.done /\ e.flushed = enc.flushed /\ e.cctx = enc.cctx
      /\ e.stage = s /\ e.stage_pos = k
  BY <1>2 DEF FrameStates
<1>7. d.e = e /\ d.out = o
  BY <1>5
<1>. HIDE DEF e
<1>8. r \in Seq(Token) /\ Len(r) = Len(s) - k
  <2>1. s \in Seq(Token) /\ k \in 0 .. Len(s)
    BY <1>5
  <2>. QED  BY ONLY <2>1, Cut, SMTT(40) DEF r
<1>9. b \o r = g
  BY <1>5
<1>10. o \in Seq(Token) /\ Len(o) = Len(out) + Len(b) /\ Len(b) \in Nat
  <2>1. out \in Seq(Token) /\ b \in Seq(Token)
    OBVIOUS
  <2>. QED  BY ONLY <2>1, Cat, Zenon DEF o
<1>11. o \o r = out \o g
  <2>1. out \in Seq(Token) /\ b \in Seq(Token)
    OBVIOUS
  <2>. HIDE DEF r
  <2>2. (out \o b) \o r = out \o (b \o r)
    BY ONLY <1>8, <2>1, TokensAssoc, SMTT(40)
  <2>. QED  BY <1>9, <2>2
<1>12. ~enc.started => o = <<>> /\ s = <<>> /\ d.done
  <2>. SUFFICES ASSUME ~enc.started PROVE o = <<>> /\ s = <<>> /\ d.done
    OBVIOUS
  <2>1. enc.stage = <<>> /\ out = <<>>
    BY <1>1 DEF FrameOk
  <2>2. g = <<>>
    <3>1. Len(<<>>) = 0 /\ <<>> \in Seq(Token)
      OBVIOUS
    <3>2. enc.stage_pos = Len(enc.stage)
      BY <1>2, <1>3, <2>1, <3>1
    <3>. QED  BY <1>3, <3>2, CutEnds
  <2>. HIDE DEF r, g
  <2>3. Len(b \o r) = Len(b) + Len(r) /\ Len(r) \in Nat
    <3>1. b \in Seq(Token)
      OBVIOUS
    <3>. QED  BY ONLY <1>8, <3>1, Cat, Zenon
  <2>4. Len(b) = 0 /\ Len(r) = 0
    <3>1. Len(<<>>) = 0
      OBVIOUS
    <3>. QED  BY <1>9, <1>10, <2>2, <2>3, <3>1
  <2>5. b = <<>>
    BY <2>4
  <2>6. d.done
    <3>1. k \in Nat /\ Len(s) \in Nat
      OBVIOUS
    <3>2. ~(k < Len(s))
      BY ONLY <1>8, <2>4, <3>1
    <3>. QED  BY <1>5, <3>2
  <2>. QED  BY <1>5, <2>1, <2>5, <2>6 DEF o
<1>. HIDE DEF r, g, o
<1>13. FrameOk(pos, o, e, FALSE)
  BY <1>1, <1>5, <1>6, <1>12 DEF FrameOk
<1>14. FrameWire(pos, o, e)
  <2>1. Drop(e.stage, e.stage_pos) = r
    BY <1>6 DEF r
  <2>2. enc.started => out \o g \o Image(enc.cctx) = FrameSoFar(enc.size, pos, enc.ended)
    BY <1>1 DEF FrameWire, g
  <2>. QED  BY <1>1, <1>6, <1>11, <2>1, <2>2 DEF FrameWire
<1>15. Len(out) <= Len(o) /\ Len(o) <= call.out + call.room /\ (~d.done => Len(o) = call.out + call.room)
  <2>1. Len(out) + AvailOut = call.out + call.room /\ AvailOut \in Nat /\ Len(out) \in Nat
    OBVIOUS
  <2>2. Len(b) <= AvailOut /\ (~d.done => Len(b) = AvailOut)
    BY <1>5
  <2>3. Len(out) <= Len(o) /\ Len(o) <= Len(out) + AvailOut /\ (~d.done => Len(o) = Len(out) + AvailOut)
    BY ONLY <1>10, <2>1, <2>2
  <2>. QED  BY <2>1, <2>3
<1>. QED  BY <1>5, <1>6, <1>7, <1>10, <1>12, <1>13, <1>14, <1>15 DEF FrameDrain

\* What lz4f_encoder_process may return.
LEMMA FrameReturns ==
    ASSUME Good, Asked, IsFrame, NEW st, NEW p, NEW o, NEW e, FrameReturn(st, p, o, e),
           p \in pos .. fed, o \in Seq(Token), Len(out) <= Len(o), Len(o) <= call.out + call.room,
           FrameOk(p, o, e, st = ZU_STREAM_END), st # ZU_ERR_MEMORY => FrameWire(p, o, e),
           \/ st = ZU_STREAM_END \/ st = ZU_ERR_MEMORY
           \/ /\ st = ZU_NEED_INPUT /\ flush # ZU_FINISH /\ p = fed /\ e.stage = <<>> /\ e.stage_pos = 0
              /\ flush = ZU_FLUSH => e.flushed
           \/ /\ st = ZU_NEED_OUTPUT /\ Len(o) = call.out + call.room
              /\ job.driver = "one_shot" => \A s \in Lz4FrameStreams(job.n, asked) : Len(o) < Len(s)
    PROVE  Good'
<1>. USE AskedIs
<1>1. ~IsDeflate /\ ~IsZstd /\ ~IsBlock /\ ~IsIdentity
  BY Kinds
<1>. DEFINE f == [e EXCEPT !.flushed = FALSE]
<1>2. Return(st, p, o, f)
  BY DEF FrameReturn
<1>3. e \in FrameStates
  BY DEF FrameOk
<1>4. /\ f \in FrameStates /\ f.level = e.level /\ f.size = e.size /\ f.started = e.started
      /\ f.ended = e.ended /\ f.done = e.done /\ ~f.flushed /\ f.cctx = e.cctx
      /\ f.stage = e.stage /\ f.stage_pos = e.stage_pos
  BY <1>3 DEF FrameStates
<1>. HIDE DEF f
<1>5. FrameOk(p, o, f, st = ZU_STREAM_END)
  BY <1>4 DEF FrameOk
<1>6. st # ZU_ERR_MEMORY => FrameWire(p, o, f)
  BY <1>4 DEF FrameWire
<1>7. TurnOk(p, o, f, st = ZU_STREAM_END)
  <2>1. EncOk(p, o, f, st = ZU_STREAM_END)
    BY <1>1, <1>5 DEF EncOk
  <2>. QED  BY <2>1 DEF TurnOk
<1>8. /\ ZU_STREAM_END # ZU_NEED_INPUT /\ ZU_STREAM_END # ZU_NEED_OUTPUT
      /\ ZU_NEED_INPUT # ZU_NEED_OUTPUT /\ ZU_ERR_MEMORY # ZU_NEED_INPUT
      /\ ZU_ERR_MEMORY # ZU_NEED_OUTPUT
      /\ st # ZU_ERR_INVALID_DATA /\ st # ZU_ERR_INVALID_ARGUMENT /\ st \in CodecAnswers
  BY DEF CodecAnswers, ZU_NEED_OUTPUT, ZU_STREAM_END, ZU_NEED_INPUT, ZU_ERR_MEMORY,
         ZU_ERR_INVALID_ARGUMENT, ZU_ERR_INVALID_DATA
<1>9. st = ZU_NEED_INPUT => flush # ZU_FINISH /\ (flush = ZU_FLUSH => FlushedOut(p, f))
  <2>. SUFFICES ASSUME st = ZU_NEED_INPUT, flush = ZU_FLUSH PROVE FlushedOut(p, f)
    BY <1>8
  <2>1. p = fed /\ f.stage = <<>> /\ f.stage_pos = 0 /\ e.flushed
    BY <1>4, <1>8
  <2>2. f.cctx.held = <<>>
    BY <1>4, <2>1 DEF FrameOk
  <2>3. Drop(f.stage, f.stage_pos) = <<>>
    <3>1. Len(<<>>) = 0 /\ <<>> \in Seq(Token)
      OBVIOUS
    <3>2. Drop(<<>>, Len(<<>>)) = <<>>
      BY <3>1, CutEnds
    <3>. QED  BY <2>1, <3>1, <3>2
  <2>. QED  BY <1>1, <2>1, <2>2, <2>3 DEF FlushedOut
<1>10. CompleteStreams(job.n, asked) = Lz4FrameStreams(job.n, asked)
  BY StreamsAre
<1>11. st = ZU_NEED_OUTPUT =>
         /\ Len(o) = call.out + call.room
         /\ job.driver = "one_shot" => \A s \in CompleteStreams(job.n, asked) : Len(o) < Len(s)
  BY <1>8, <1>10
<1>12. ReturnOk(st, p, o, f)
  BY <1>4, <1>6, <1>7, <1>8, <1>9, <1>11 DEF ReturnOk
<1>. QED  BY <1>2, <1>12, ReturnKeeps DEF Good

\* A library call whose answer goes to the stage.
LEMMA StagedKeeps ==
    ASSUME Good, Asked, IsFrame, NEW p, NEW o, NEW e, NEW c, Staged(p, o, e, c),
           p \in pos .. fed, o \in Seq(Token), Len(out) <= Len(o), Len(o) <= call.out + call.room,
           e \in FrameStates, Lz4Level(e.level) = asked, e.started, ~e.done,
           e.size # 0 => e.size = fed /\ flush = ZU_FINISH,
           e.flushed => c.held = <<>> /\ p = fed,
           c \in FrameContexts, c.level = asked, c.size = e.size, c.total = p, c.sum = SumOf(p),
           o \o Image(c) = FrameSoFar(e.size, p, e.ended),
           e.ended => c.held = <<>> /\ Ending(p)
    PROVE  Good'
<1>. USE AskedIs
<1>1. ~IsDeflate /\ ~IsZstd /\ ~IsBlock /\ ~IsIdentity
  BY Kinds
<1>. DEFINE x == [c EXCEPT !.pend = <<>>]
            f == [e EXCEPT !.stage = c.pend, !.stage_pos = 0, !.cctx = x]
<1>2. Continue(p, o, f)
  BY DEF Staged
<1>3. c.pend \in Seq(Token) /\ c.lead = <<>> /\ c.held \in Seq(Int) /\ c.level \in Int
  BY DEF FrameContexts
<1>4. /\ x \in FrameContexts /\ x.level = c.level /\ x.size = c.size /\ x.total = c.total
      /\ x.sum = c.sum /\ x.lead = <<>> /\ x.held = c.held /\ x.pend = <<>>
  <2>1. <<>> \in Seq(Token)
    OBVIOUS
  <2>. QED  BY <2>1 DEF FrameContexts
<1>. HIDE DEF x
<1>5. /\ f \in FrameStates /\ f.level = e.level /\ f.size = e.size /\ f.started = e.started
      /\ f.ended = e.ended /\ f.done = e.done /\ f.flushed = e.flushed /\ f.cctx = x
      /\ f.stage = c.pend /\ f.stage_pos = 0
  BY <1>3, <1>4 DEF FrameStates
<1>. HIDE DEF f
<1>6. FrameOk(p, o, f, FALSE)
  <2>1. f.stage_pos <= Len(f.stage)
    BY <1>3, <1>5
  <2>. QED  BY <1>4, <1>5, <2>1 DEF FrameOk
<1>7. FrameWire(p, o, f)
  <2>. DEFINE y == c.pend
              z == Compressed(c.held, c.level)
  <2>1. y \in Seq(Token) /\ z \in Seq(Token)
    <3>1. z \in Seq(Token)
      BY <1>3, CompressedType
    <3>. QED  BY <1>3, <3>1
  <2>2. Image(c) = (y \o <<>>) \o z
    BY <1>3 DEF Image
  <2>3. Image(x) = (<<>> \o <<>>) \o z
    BY <1>4 DEF Image
  <2>4. Drop(f.stage, f.stage_pos) = y
    BY <1>3, <1>5, CutEnds
  <2>. HIDE DEF y, z
  <2>5. Image(c) = y \o z
    <3>1. y \o <<>> = y
      BY ONLY <2>1, Unit, Zenon
    <3>. QED  BY ONLY <2>2, <3>1
  <2>6. Image(x) = z
    <3>1. <<>> \o <<>> = <<>>
      OBVIOUS
    <3>2. <<>> \o z = z
      BY ONLY <2>1, Unit, Zenon
    <3>. QED  BY ONLY <2>3, <3>1, <3>2
  <2>7. (o \o y) \o z = o \o (y \o z)
    BY ONLY o \in Seq(Token), <2>1, TokensAssoc, SMTT(40)
  <2>8. o \o Drop(f.stage, f.stage_pos) \o Image(f.cctx) = FrameSoFar(f.size, p, f.ended)
    BY <1>5, <2>4, <2>5, <2>6, <2>7
  <2>. QED  BY <1>4, <1>5, <2>8 DEF FrameWire
<1>8. EncOk(p, o, f, FALSE)
  BY <1>1, <1>6 DEF EncOk
<1>9. ContinueOk(p, o, f)
  BY <1>7, <1>8 DEF ContinueOk, TurnOk
<1>. QED  BY <1>2, <1>9, ContinueKeeps DEF Good
\* LZ4F_compressBegin.
LEMMA FrameBegins ==
    ASSUME Good, Asked, IsFrame, NEW d, FrameDrain(d), d.done, ~d.e.started, FrameBegin(d.out, d.e)
    PROVE  Good'
<1>. USE AskedIs
<1>. DEFINE o == d.out
            e == d.e
            size == IF flush = ZU_FINISH THEN AvailIn ELSE e.size
            b == [e EXCEPT !.started = TRUE, !.size = size]
            c == CompressBegin(Lz4Level(e.level), size)
<1>1. /\ FrameOk(pos, o, e, FALSE) /\ o \in Seq(Token) /\ Len(out) <= Len(o)
      /\ Len(o) <= call.out + call.room /\ e.stage = <<>> /\ e.stage_pos = 0
  BY DEF FrameDrain
<1>2. \/ Staged(pos, o, b, c)
      \/ FrameReturn(ZU_ERR_MEMORY, pos, o, b)
  BY DEF FrameBegin
<1>. HIDE DEF o, e
<1>3. /\ e \in FrameStates /\ Lz4Level(e.level) = asked /\ ~e.done /\ ~e.ended
      /\ e.size = 0 /\ pos = 0 /\ o = <<>> /\ (e.flushed => pos = fed) /\ ~e.started
      /\ (e.flushed => e.cctx.held = <<>>) /\ e.cctx.pend = <<>>
  BY <1>1 DEF FrameOk, e
<1>4. size \in Nat /\ (size # 0 => size = fed /\ flush = ZU_FINISH)
  BY <1>3
<1>. HIDE DEF size
<1>5. /\ b \in FrameStates /\ b.level = e.level /\ b.size = size /\ b.started
      /\ b.ended = e.ended /\ b.done = e.done /\ b.flushed = e.flushed /\ b.cctx = e.cctx
      /\ b.stage = e.stage /\ b.stage_pos = e.stage_pos
  BY <1>3, <1>4 DEF FrameStates
<1>. HIDE DEF b
<1>6. pos \in pos .. fed
  OBVIOUS
<1>7. CASE FrameReturn(ZU_ERR_MEMORY, pos, o, b)
  <2>1. (ZU_ERR_MEMORY = ZU_STREAM_END) = FALSE
    BY DEF ZU_ERR_MEMORY, ZU_STREAM_END
  <2>2. FrameOk(pos, o, b, FALSE)
    <3>1. b.stage_pos <= Len(b.stage)
      <4>1. Len(<<>>) = 0
        OBVIOUS
      <4>. QED  BY <1>1, <1>5, <4>1
    <3>. QED  BY <1>1, <1>3, <1>4, <1>5, <3>1 DEF FrameOk
  <2>3. FrameOk(pos, o, b, ZU_ERR_MEMORY = ZU_STREAM_END)
    BY <2>1, <2>2
  <2>. QED  BY <1>1, <1>6, <1>7, <2>3, FrameReturns
<1>8. CASE Staged(pos, o, b, c)
  <2>. DEFINE f == <<"frame", size, 0>>
  <2>1. f \in Token
    BY <1>4 DEF Token, Wrapping
  <2>2. /\ c = [NoCctx EXCEPT !.level = asked, !.size = size, !.pend = <<f>>]
        /\ NoCctx = [level |-> 0, size |-> 0, total |-> 0, sum |-> 0,
                     lead |-> <<>>, held |-> <<>>, pend |-> <<>>]
    BY <1>3 DEF CompressBegin, NoCctx
  <2>3. FrameBody(size, 0) = <<f>> \o Compressed(Input(0), asked)
    BY DEF FrameBody
  <2>. HIDE DEF f, c
  <2>4. <<f>> \in Seq(Token)
    BY ONLY <2>1
  <2>. DEFINE F == <<f>>
  <2>. HIDE DEF F
  <2>5. /\ c.level = asked /\ c.size = size /\ c.total = 0 /\ c.sum = 0
        /\ c.lead = <<>> /\ c.held = <<>> /\ c.pend = F
        /\ c = [level |-> c.level, size |-> c.size, total |-> c.total, sum |-> c.sum,
                lead |-> c.lead, held |-> c.held, pend |-> c.pend]
    BY <2>2 DEF F
  <2>6. c \in FrameContexts
    <3>1. <<>> \in Seq(Int) /\ F \in Seq(Token)
      BY <2>4 DEF F
    <3>2. /\ c.level \in Int /\ c.size \in Nat /\ c.total \in Nat /\ c.sum \in Int
          /\ c.lead \in {<<>>} /\ c.held \in Seq(Int) /\ c.pend \in Seq(Token)
      BY <1>4, <2>5, <3>1
    <3>. QED  BY ONLY <2>5, <3>2 DEF FrameContexts
  <2>7. Compressed(Input(0), asked) = <<>> /\ Compressed(<<>>, asked) = <<>>
    <3>1. 0 \in Nat /\ Input(0) = <<>>
      BY InputType
    <3>. QED  BY <3>1, CompressedEmpty
  <2>8. F \o <<>> = F /\ <<>> \o F = F
    <3>1. F \in Seq(Token)
      BY <2>4 DEF F
    <3>. QED  BY ONLY <3>1, Unit, Zenon
  <2>9. Image(c) = F
    BY <2>5, <2>7, <2>8 DEF Image
  <2>10. o \o Image(c) = FrameSoFar(size, 0, e.ended)
    BY <1>3, <2>3, <2>7, <2>8, <2>9 DEF FrameSoFar, F
  <2>11. SumOf(0) = 0
    <3>. DEFINE n == pos
    <3>1. n \in Nat
      OBVIOUS
    <3>. HIDE DEF n
    <3>. QED  BY <3>1, SumGrows
  <2>. QED  BY <1>1, <1>3, <1>4, <1>5, <1>6, <1>8, <2>5, <2>6, <2>10, <2>11, StagedKeeps DEF c
<1>. QED  BY <1>2, <1>7, <1>8

\* LZ4F_compressUpdate, LZ4F_compressEnd and LZ4F_flush leave behind what
\* they say, for a frame in progress whose stage is empty.
FrameInBody(o, e) ==
    /\ e \in FrameStates /\ Lz4Level(e.level) = asked /\ e.started /\ ~e.done /\ ~e.ended
    /\ e.size # 0 => e.size = fed /\ flush = ZU_FINISH
    /\ e.flushed => e.cctx.held = <<>> /\ pos = fed
    /\ e.cctx \in FrameContexts /\ e.cctx.level = asked /\ e.cctx.size = e.size
    /\ e.cctx.total = pos /\ e.cctx.sum = SumOf(pos)
    /\ o \o Image(e.cctx) = FrameBody(e.size, pos)
    /\ Image(e.cctx) \in Seq(Token) /\ e.size \in Nat
    /\ Buffers(FrameLike(e.cctx)) /\ e.cctx \in FrameLike(e.cctx)

\* A frame in progress.
LEMMA FrameGoesOn ==
    ASSUME Good, Asked, IsFrame, NEW d, FrameDrain(d), d.done, d.e.started, ~d.e.ended
    PROVE  FrameInBody(d.out, d.e)
<1>. USE AskedIs
<1>. DEFINE o == d.out
            e == d.e
<1>1. /\ FrameOk(pos, o, e, FALSE) /\ FrameWire(pos, o, e) /\ o \in Seq(Token)
      /\ e.stage = <<>> /\ e.stage_pos = 0
  BY DEF FrameDrain
<1>. HIDE DEF o, e
<1>2. e.started /\ ~e.ended
  BY DEF e
<1>3. /\ e \in FrameStates /\ Lz4Level(e.level) = asked /\ ~e.done
      /\ (e.size # 0 => e.size = fed /\ flush = ZU_FINISH)
      /\ (e.flushed => e.cctx.held = <<>> /\ pos = fed)
  BY <1>1 DEF FrameOk
<1>4. e.cctx \in FrameContexts /\ e.size \in Nat
  BY <1>3, FrameFields
<1>5. Buffers(FrameLike(e.cctx)) /\ e.cctx \in FrameLike(e.cctx)
  BY <1>4, FrameBuffers DEF FrameLike
<1>6. Image(e.cctx) \in Seq(Token)
  BY <1>5, ContextParts
<1>7. Drop(e.stage, e.stage_pos) = <<>>
  <2>1. Len(<<>>) = 0 /\ <<>> \in Seq(Token)
    OBVIOUS
  <2>2. Drop(<<>>, Len(<<>>)) = <<>>
    BY <2>1, CutEnds
  <2>. QED  BY <1>1, <2>1, <2>2
<1>8. o \o <<>> = o
  BY <1>1, Unit
<1>9. /\ e.cctx.level = asked /\ e.cctx.size = e.size /\ e.cctx.total = pos /\ e.cctx.sum = SumOf(pos)
      /\ o \o Image(e.cctx) = FrameBody(e.size, pos)
  BY <1>1, <1>2, <1>7, <1>8 DEF FrameWire, FrameSoFar
<1>10. FrameInBody(o, e)
  BY <1>2, <1>3, <1>4, <1>5, <1>6, <1>9 DEF FrameInBody
<1>. QED  BY <1>10 DEF o, e
\* LZ4F_compressUpdate.
LEMMA FrameUpdates ==
    ASSUME Good, Asked, IsFrame, NEW d, FrameDrain(d), d.done, d.e.started, ~d.e.ended,
           AvailIn > 0, FrameUpdate(d.out, d.e)
    PROVE  Good'
<1>. USE AskedIs
<1>. DEFINE o == d.out
            e == d.e
            n == Least(AvailIn, FrameChunk)
            b == Take(Offered, n)
            a == Absorb(e.cctx, b)
            c == CompressUpdate(e.cctx, b)
            p == pos + n
<1>1. FrameInBody(o, e)
  BY FrameGoesOn
<1>2. o \in Seq(Token) /\ Len(out) <= Len(o) /\ Len(o) <= call.out + call.room
  BY DEF FrameDrain
<1>3. Staged(p, o, e, c)
  BY DEF FrameUpdate
<1>4. n \in Nat /\ n <= AvailIn /\ p \in pos .. fed
  BY Lz4Assumption, SMTT(40) DEF Least
<1>. HIDE DEF o, e, n
<1>5. b = OfferedAfter(pos, n) /\ b \in Seq(Int) /\ Len(b) = n
  <2>1. n \in 0 .. AvailIn
    BY <1>4
  <2>2. Take(OfferedAfter(pos, AvailIn), n) = OfferedAfter(pos, n)
    BY <2>1, TakeOffered
  <2>3. OfferedAfter(pos, n) \in Seq(Int) /\ Len(OfferedAfter(pos, n)) = n
    BY <1>4, OfferedType
  <2>. QED  BY <2>2, <2>3
<1>. HIDE DEF b
<1>6. /\ a \in FrameLike(e.cctx) /\ a.level = asked
      /\ Image(a) = Image(e.cctx) \o Compressed(b, asked)
  <2>. DEFINE B == FrameLike(e.cctx)
              z == e.cctx
  <2>1. Buffers(B) /\ z \in B /\ b \in Seq(Int) /\ z.level = asked
    BY <1>1, <1>5 DEF FrameInBody
  <2>. HIDE DEF B, z
  <2>2. /\ Absorb(z, b) \in B /\ Absorb(z, b).level = z.level
        /\ Image(Absorb(z, b)) = Image(z) \o Compressed(b, z.level)
    BY ONLY <2>1, AbsorbOk
  <2>. QED  BY <2>1, <2>2 DEF B, z
<1>. HIDE DEF a
<1>7. a \in FrameContexts /\ a.size = e.size /\ a.total = pos /\ a.sum = SumOf(pos)
  BY <1>1, <1>6 DEF FrameInBody, FrameLike
<1>. DEFINE sum == ChecksumUpdate(SumOf(pos), b)
<1>8. sum = SumOf(p) /\ SumOf(p) \in Int
  <2>1. SumOf(pos + n) = ChecksumUpdate(SumOf(pos), OfferedAfter(pos, n))
    BY <1>4, SumGrows
  <2>2. p \in Nat
    BY <1>4
  <2>. HIDE DEF p
  <2>3. SumOf(p) \in Int
    BY <2>2, SumIs
  <2>. QED  BY <1>5, <2>1, <2>3 DEF p
<1>9. c = [a EXCEPT !.total = pos + n, !.sum = sum]
  BY <1>5, <1>7 DEF CompressUpdate, a
<1>. HIDE DEF sum, c
<1>10. /\ c \in FrameContexts /\ c.level = a.level /\ c.size = a.size /\ c.total = p /\ c.sum = sum
       /\ c.lead = a.lead /\ c.held = a.held /\ c.pend = a.pend
  <2>. DEFINE n2 == pos + n
  <2>1. n2 \in Nat /\ sum \in Int /\ n2 = p
    BY <1>4, <1>8
  <2>. HIDE DEF n2, p
  <2>2. c = [a EXCEPT !.total = n2, !.sum = sum] /\ a \in FrameContexts
    BY <1>7, <1>9 DEF n2
  <2>. QED  BY ONLY <2>1, <2>2 DEF FrameContexts
<1>11. o \o Image(c) = FrameBody(e.size, p)
  <2>. DEFINE i == Image(e.cctx)
              D == Compressed(b, asked)
  <2>1. Image(c) = i \o D
    BY <1>6, <1>10 DEF Image
  <2>2. o \o i = FrameBody(e.size, pos) /\ i \in Seq(Token) /\ e.size \in Nat
    BY <1>1 DEF FrameInBody
  <2>3. D \in Seq(Token)
    BY <1>5, CompressedType
  <2>4. FrameBody(e.size, pos) \o D = FrameBody(e.size, p)
    <3>1. e.size \in Int
      BY <2>2
    <3>. QED  BY <1>4, <1>5, <3>1, FrameGrows
  <2>. HIDE DEF i, D
  <2>5. (o \o i) \o D = o \o (i \o D)
    <3>1. o \in Seq(Token) /\ i \in Seq(Token)
      BY <1>2, <2>2
    <3>. QED  BY ONLY <2>3, <3>1, TokensAssoc, SMTT(40)
  <2>. QED  BY ONLY <2>1, <2>2, <2>4, <2>5
<1>12. FrameBody(e.size, p) = FrameSoFar(e.size, p, e.ended)
  BY <1>1 DEF FrameSoFar, FrameInBody
<1>13. ~e.flushed
  BY <1>1, SMTT(40) DEF FrameInBody
<1>14. /\ e \in FrameStates /\ Lz4Level(e.level) = asked /\ e.started /\ ~e.done /\ ~e.ended
       /\ e.size # 0 => e.size = fed /\ flush = ZU_FINISH
  BY <1>1 DEF FrameInBody
<1>15. /\ c.level = asked /\ c.size = e.size /\ c.sum = SumOf(p)
       /\ o \o Image(c) = FrameSoFar(e.size, p, e.ended)
  BY <1>6, <1>7, <1>8, <1>10, <1>11, <1>12
<1>. HIDE DEF p
<1>. QED  BY <1>2, <1>3, <1>4, <1>10, <1>13, <1>14, <1>15, StagedKeeps

\* LZ4F_compressEnd: a declared size is the size.
LEMMA FrameEnds ==
    ASSUME Good, Asked, IsFrame, NEW d, FrameDrain(d), d.done, d.e.started, ~d.e.ended,
           ~(AvailIn > 0), flush = ZU_FINISH, FrameEnd(d.out, d.e)
    PROVE  Good'
<1>. USE AskedIs
<1>. DEFINE o == d.out
            e == d.e
            f == [e EXCEPT !.ended = TRUE]
            t == FrameTail(pos)
            c == CloseBlock(e.cctx, t)
<1>1. FrameInBody(o, e)
  BY FrameGoesOn
<1>2. o \in Seq(Token) /\ Len(out) <= Len(o) /\ Len(o) <= call.out + call.room
  BY DEF FrameDrain
<1>3. pos = fed /\ pos \in pos .. fed /\ Ending(pos)
  BY DEF Ending
<1>4. ~SizeIsWrong(e.cctx)
  BY <1>1, <1>3 DEF SizeIsWrong, FrameInBody
<1>5. CompressEnd(e.cctx) = c
  BY <1>1 DEF CompressEnd, FrameTail, FrameInBody
<1>6. Staged(pos, o, f, c)
  BY <1>4, <1>5 DEF FrameEnd
<1>. HIDE DEF o, e
<1>7. /\ e \in FrameStates /\ Lz4Level(e.level) = asked /\ e.started /\ ~e.done /\ ~e.ended
      /\ e.size # 0 => e.size = fed /\ flush = ZU_FINISH
  BY <1>1 DEF FrameInBody
<1>8. /\ f \in FrameStates /\ f.level = e.level /\ f.size = e.size /\ f.started = e.started
      /\ f.ended /\ f.done = e.done /\ f.flushed = e.flushed
  BY <1>7 DEF FrameStates
<1>. HIDE DEF f
<1>9. t \in Seq(Token)
  <2>. DEFINE n == pos
              s == e.size
  <2>1. n \in Nat /\ s \in Nat
    BY <1>1 DEF FrameInBody
  <2>. HIDE DEF n, s
  <2>2. FrameTail(n) \in Seq(Token)
    BY <2>1, FrameParts
  <2>. QED  BY <2>2 DEF n
<1>. HIDE DEF t
<1>10. /\ c \in FrameLike(e.cctx) /\ Holds(c, <<>>, Image(e.cctx) \o t, <<>>, e.cctx.level)
       /\ Image(c) = Image(e.cctx) \o t
  BY <1>1, <1>9, CloseBlockOk DEF FrameInBody
<1>. HIDE DEF c
<1>11. /\ c \in FrameContexts /\ c.size = e.size /\ c.total = pos /\ c.sum = SumOf(pos)
       /\ c.held = <<>> /\ c.level = asked
  BY <1>1, <1>10 DEF FrameInBody, FrameLike, Holds
<1>12. o \o Image(c) = FrameSoFar(f.size, pos, f.ended)
  <2>. DEFINE i == Image(e.cctx)
  <2>1. Image(c) = i \o t
    BY <1>10
  <2>2. o \o i = FrameBody(e.size, pos) /\ i \in Seq(Token)
    BY <1>1 DEF FrameInBody
  <2>. HIDE DEF i
  <2>3. (o \o i) \o t = o \o (i \o t)
    <3>1. o \in Seq(Token) /\ i \in Seq(Token)
      BY <1>2, <2>2
    <3>. QED  BY ONLY <1>9, <3>1, TokensAssoc, SMTT(40)
  <2>4. FrameSoFar(f.size, pos, f.ended) = FrameBody(e.size, pos) \o t
    BY <1>8 DEF FrameSoFar, t
  <2>. QED  BY ONLY <2>1, <2>2, <2>3, <2>4
<1>. QED  BY <1>2, <1>3, <1>6, <1>7, <1>8, <1>11, <1>12, StagedKeeps

\* LZ4F_flush.
LEMMA FrameFlushes ==
    ASSUME Good, Asked, IsFrame, NEW d, FrameDrain(d), d.done, d.e.started, ~d.e.ended,
           ~(AvailIn > 0), FrameFlush(d.out, d.e)
    PROVE  Good'
<1>. USE AskedIs
<1>. DEFINE o == d.out
            e == d.e
            f == [e EXCEPT !.flushed = TRUE]
            c == CloseBlock(e.cctx, <<>>)
<1>1. FrameInBody(o, e)
  BY FrameGoesOn
<1>2. o \in Seq(Token) /\ Len(out) <= Len(o) /\ Len(o) <= call.out + call.room
  BY DEF FrameDrain
<1>3. pos = fed /\ pos \in pos .. fed
  OBVIOUS
<1>4. Staged(pos, o, f, c)
  BY DEF FrameFlush
<1>. HIDE DEF o, e
<1>5. /\ e \in FrameStates /\ Lz4Level(e.level) = asked /\ e.started /\ ~e.done /\ ~e.ended
      /\ e.size # 0 => e.size = fed /\ flush = ZU_FINISH
  BY <1>1 DEF FrameInBody
<1>6. /\ f \in FrameStates /\ f.level = e.level /\ f.size = e.size /\ f.started = e.started
      /\ f.ended = e.ended /\ f.done = e.done
  BY <1>5 DEF FrameStates
<1>. HIDE DEF f
<1>7. <<>> \in Seq(Token)
  OBVIOUS
<1>8. /\ c \in FrameLike(e.cctx) /\ Holds(c, <<>>, Image(e.cctx) \o <<>>, <<>>, e.cctx.level)
      /\ Image(c) = Image(e.cctx) \o <<>>
  BY <1>1, <1>7, CloseBlockOk DEF FrameInBody
<1>. HIDE DEF c
<1>9. /\ c \in FrameContexts /\ c.size = e.size /\ c.total = pos /\ c.sum = SumOf(pos)
      /\ c.held = <<>> /\ c.level = asked
  BY <1>1, <1>8 DEF FrameInBody, FrameLike, Holds
<1>10. o \o Image(c) = FrameSoFar(f.size, pos, f.ended)
  <2>. DEFINE i == Image(e.cctx)
  <2>1. Image(c) = i \o <<>>
    BY <1>8
  <2>2. o \o i = FrameBody(e.size, pos) /\ i \in Seq(Token)
    BY <1>1 DEF FrameInBody
  <2>. HIDE DEF i
  <2>3. i \o <<>> = i
    BY ONLY <2>2, Unit, Zenon
  <2>4. FrameSoFar(f.size, pos, f.ended) = FrameBody(e.size, pos)
    BY <1>5, <1>6 DEF FrameSoFar
  <2>. QED  BY ONLY <2>1, <2>2, <2>3, <2>4
<1>. QED  BY <1>2, <1>3, <1>4, <1>5, <1>6, <1>9, <1>10, StagedKeeps

\* A full window under a stage that is not empty.
LEMMA FrameWaits ==
    ASSUME Good, Asked, IsFrame, NEW d, FrameDrain(d), ~d.done, job.driver = "one_shot"
    PROVE  \A s \in Lz4FrameStreams(job.n, asked) : Len(d.out) < Len(s)
<1>. USE AskedIs
<1>. DEFINE o == d.out
            e == d.e
            r == Drop(e.stage, e.stage_pos)
            i == Image(e.cctx)
            F == FrameSoFar(e.size, pos, e.ended)
<1>1. /\ FrameOk(pos, o, e, FALSE) /\ FrameWire(pos, o, e) /\ o \in Seq(Token)
      /\ e.started /\ e.stage_pos < Len(e.stage)
  BY DEF FrameDrain
<1>2. e \in FrameStates
  BY <1>1 DEF FrameOk
<1>3. /\ e.stage \in Seq(Token) /\ e.stage_pos \in Nat /\ e.cctx \in FrameContexts
      /\ e.size \in Nat /\ e.ended \in BOOLEAN
  BY <1>2, FrameFields
<1>4. i \in Seq(Token)
  <2>1. Buffers(FrameLike(e.cctx)) /\ e.cctx \in FrameLike(e.cctx)
    BY <1>3, FrameBuffers DEF FrameLike
  <2>. QED  BY <2>1, ContextParts
<1>5. r \in Seq(Token) /\ Len(r) > 0
  <2>. DEFINE s == e.stage
              k == e.stage_pos
  <2>1. s \in Seq(Token) /\ k \in 0 .. Len(s) /\ k < Len(s)
    BY <1>1, <1>3, SMTT(40)
  <2>. HIDE DEF s, k
  <2>2. Drop(s, k) \in Seq(Token) /\ Len(Drop(s, k)) = Len(s) - k
    BY ONLY <2>1, Cut, SMTT(40)
  <2>3. Len(Drop(s, k)) > 0
    BY <2>1, <2>2
  <2>. QED  BY <2>2, <2>3 DEF s, k
<1>6. (o \o r) \o i = F
  BY <1>1 DEF FrameWire
<1>7. Len(F) <= pos + 3
  <2>1. e.size \in Int
    BY <1>3
  <2>. QED  BY <1>3, <2>1, FrameParts
<1>. HIDE DEF o, r, i, F
<1>8. o \o r \in Seq(Token) /\ Len(o \o r) = Len(o) + Len(r) /\ Len(o) \in Nat /\ Len(r) \in Nat
  BY ONLY <1>1, <1>5, Cat, Zenon
<1>. DEFINE y == o \o r
<1>. HIDE DEF y
<1>9. Len(y \o i) = Len(y) + Len(i) /\ Len(i) \in Nat
  <2>1. y \in Seq(Token)
    BY <1>8 DEF y
  <2>. QED  BY ONLY <1>4, <2>1, Cat, Zenon
<1>10. Len(F) = Len(o) + Len(r) + Len(i)
  BY <1>6, <1>8, <1>9 DEF y
<1>11. pos \in Nat /\ job.n \in Nat /\ pos <= job.n
  OBVIOUS
<1>12. Len(o) < job.n + 3
  BY ONLY <1>5, <1>7, <1>8, <1>9, <1>10, <1>11
<1>13. \A s \in Lz4FrameStreams(job.n, asked) : Len(s) = job.n + 3
  BY FrameStreamsAre
<1>. QED  BY <1>12, <1>13 DEF o

\* One turn of lz4f_encoder_process.
LEMMA FrameKeeps ==
    ASSUME Good, FrameTurn
    PROVE  Good'
<1>. USE AskedIs
<1>0. Asked /\ IsFrame
  BY DEF FrameTurn
<1>. DEFINE d == Drain(enc, out)
            o == d.out
            e == d.e
<1>1. IF ~d.done THEN FrameReturn(ZU_NEED_OUTPUT, pos, o, e)
      ELSE IF e.done \/ e.ended
        THEN FrameReturn(ZU_STREAM_END, pos, o, [e EXCEPT !.done = TRUE])
      ELSE IF ~e.started THEN FrameBegin(o, e)
      ELSE IF AvailIn > 0 THEN FrameUpdate(o, e)
      ELSE IF flush = ZU_FINISH THEN FrameEnd(o, e)
      ELSE IF flush = ZU_FLUSH /\ ~e.flushed THEN FrameFlush(o, e)
      ELSE FrameReturn(ZU_NEED_INPUT, pos, o, e)
  BY DEF FrameTurn
<1>2. FrameDrain(d)
  BY <1>0, FrameDrains
<1>. HIDE DEF d
<1>3. /\ FrameOk(pos, o, e, FALSE) /\ FrameWire(pos, o, e)
      /\ o \in Seq(Token) /\ Len(out) <= Len(o) /\ Len(o) <= call.out + call.room
      /\ d.done => e.stage = <<>> /\ e.stage_pos = 0
      /\ ~d.done => Len(o) = call.out + call.room
  BY <1>2 DEF FrameDrain
<1>3a. ~e.done
  BY <1>3 DEF FrameOk
<1>3b. IF ~d.done THEN FrameReturn(ZU_NEED_OUTPUT, pos, o, e)
       ELSE IF e.ended THEN FrameReturn(ZU_STREAM_END, pos, o, [e EXCEPT !.done = TRUE])
       ELSE IF ~e.started THEN FrameBegin(o, e)
       ELSE IF AvailIn > 0 THEN FrameUpdate(o, e)
       ELSE IF flush = ZU_FINISH THEN FrameEnd(o, e)
       ELSE IF flush = ZU_FLUSH /\ ~e.flushed THEN FrameFlush(o, e)
       ELSE FrameReturn(ZU_NEED_INPUT, pos, o, e)
  BY <1>1, <1>3a
<1>4. pos \in pos .. fed
  BY <1>0
<1>5. CASE ~d.done
  <2>1. FrameReturn(ZU_NEED_OUTPUT, pos, o, e)
    BY <1>3b, <1>5
  <2>2. (ZU_NEED_OUTPUT = ZU_STREAM_END) = FALSE
    BY DEF ZU_NEED_OUTPUT, ZU_STREAM_END
  <2>3. FrameOk(pos, o, e, ZU_NEED_OUTPUT = ZU_STREAM_END)
    BY <1>3, <2>2
  <2>4. job.driver = "one_shot" => \A s \in Lz4FrameStreams(job.n, asked) : Len(o) < Len(s)
    BY <1>0, <1>2, <1>5, FrameWaits
  <2>. HIDE DEF o, e
  <2>. QED  BY <1>0, <1>3, <1>4, <1>5, <2>1, <2>3, <2>4, FrameReturns
<1>6. CASE d.done /\ e.ended
  <2>. DEFINE f == [e EXCEPT !.done = TRUE]
  <2>1. FrameReturn(ZU_STREAM_END, pos, o, f)
    BY <1>3b, <1>6
  <2>. HIDE DEF o, e
  <2>2. e \in FrameStates
    BY <1>3 DEF FrameOk
  <2>3. /\ f \in FrameStates /\ f.level = e.level /\ f.size = e.size /\ f.started = e.started
        /\ f.ended = e.ended /\ f.done /\ f.flushed = e.flushed /\ f.cctx = e.cctx
        /\ f.stage = e.stage /\ f.stage_pos = e.stage_pos
    BY <2>2 DEF FrameStates
  <2>. HIDE DEF f
  <2>4. (ZU_STREAM_END = ZU_STREAM_END) = TRUE
    OBVIOUS
  <2>5. FrameOk(pos, o, f, TRUE)
    BY <1>3, <1>6, <2>3 DEF FrameOk
  <2>6. FrameOk(pos, o, f, ZU_STREAM_END = ZU_STREAM_END)
    BY <2>4, <2>5
  <2>7. FrameWire(pos, o, f)
    BY <1>3, <2>3 DEF FrameWire
  <2>. QED  BY <1>0, <1>3, <1>4, <2>1, <2>6, <2>7, FrameReturns
<1>7. CASE d.done /\ ~e.ended /\ ~e.started
  BY <1>0, <1>3b, <1>2, <1>7, FrameBegins
<1>8. CASE d.done /\ ~e.ended /\ e.started /\ AvailIn > 0
  BY <1>0, <1>3b, <1>2, <1>8, FrameUpdates
<1>9. CASE d.done /\ ~e.ended /\ e.started /\ ~(AvailIn > 0) /\ flush = ZU_FINISH
  BY <1>0, <1>3b, <1>2, <1>9, FrameEnds
<1>10. CASE d.done /\ ~e.ended /\ e.started /\ ~(AvailIn > 0) /\ flush # ZU_FINISH
            /\ flush = ZU_FLUSH /\ ~e.flushed
  BY <1>0, <1>3b, <1>2, <1>10, FrameFlushes
<1>11. CASE d.done /\ ~e.ended /\ e.started /\ ~(AvailIn > 0) /\ flush # ZU_FINISH
            /\ ~(flush = ZU_FLUSH /\ ~e.flushed)
  <2>1. FrameReturn(ZU_NEED_INPUT, pos, o, e)
    BY <1>3b, <1>11
  <2>2. (ZU_NEED_INPUT = ZU_STREAM_END) = FALSE
    BY DEF ZU_NEED_INPUT, ZU_STREAM_END
  <2>3. FrameOk(pos, o, e, ZU_NEED_INPUT = ZU_STREAM_END)
    BY <1>3, <2>2
  <2>4. pos = fed
    BY <1>0, <1>11
  <2>. HIDE DEF o, e
  <2>. QED  BY <1>0, <1>3, <1>4, <1>11, <2>1, <2>3, <2>4, FrameReturns
<1>. QED  BY <1>5, <1>6, <1>7, <1>8, <1>9, <1>10, <1>11
----------------------------------------------------------------------------
(***************************************************************************)
(* zstd.                                                                   *)
(***************************************************************************)
\* Contexts that differ in their buffers alone.
ZstdLike(z) ==
    {c \in ZstdContexts : /\ c.param = z.param /\ c.begun = z.begun /\ c.size = z.size
                          /\ c.total = z.total /\ c.sum = z.sum /\ c.ending = z.ending}

\* ZSTD_CCtx is a block compressor.
LEMMA ZstdBuffers ==
    ASSUME NEW z
    PROVE  Buffers(ZstdLike(z))
<1>. SUFFICES ASSUME NEW c \in ZstdLike(z)
              PROVE  /\ c.held \in Seq(Int) /\ c.pend \in Seq(Token) /\ c.lead \in Seq(Wrapper)
                     /\ c.level \in Int
                     /\ \A h \in Seq(Int) :
                          /\ [c EXCEPT !.held = h] \in ZstdLike(z)
                          /\ Holds([c EXCEPT !.held = h], h, c.pend, c.lead, c.level)
                     /\ \A p \in Seq(Token) :
                          /\ [c EXCEPT !.pend = p] \in ZstdLike(z)
                          /\ Holds([c EXCEPT !.pend = p], c.held, p, c.lead, c.level)
                     /\ \A p \in Seq(Token) :
                          /\ [c EXCEPT !.held = <<>>, !.lead = <<>>, !.pend = p] \in ZstdLike(z)
                          /\ Holds([c EXCEPT !.held = <<>>, !.lead = <<>>, !.pend = p], <<>>, p, <<>>, c.level)
  BY Zenon DEF Buffers
<1>1. /\ c \in ZstdContexts /\ c.param = z.param /\ c.begun = z.begun /\ c.size = z.size
      /\ c.total = z.total /\ c.sum = z.sum /\ c.ending = z.ending
  BY DEF ZstdLike
<1>2. <<>> \in Seq(Wrapper) /\ <<>> \in Seq(Int)
  OBVIOUS
<1>3. /\ c.held \in Seq(Int) /\ c.pend \in Seq(Token) /\ c.lead \in Seq(Wrapper)
      /\ c.level \in Int
  BY <1>1 DEF ZstdContexts
<1>4. ASSUME NEW h \in Seq(Int)
      PROVE  /\ [c EXCEPT !.held = h] \in ZstdLike(z)
             /\ Holds([c EXCEPT !.held = h], h, c.pend, c.lead, c.level)
  BY <1>1 DEF ZstdContexts, ZstdLike, Holds
<1>5. ASSUME NEW p \in Seq(Token)
      PROVE  /\ [c EXCEPT !.pend = p] \in ZstdLike(z)
             /\ Holds([c EXCEPT !.pend = p], c.held, p, c.lead, c.level)
  BY <1>1 DEF ZstdContexts, ZstdLike, Holds
<1>6. ASSUME NEW p \in Seq(Token)
      PROVE  /\ [c EXCEPT !.held = <<>>, !.lead = <<>>, !.pend = p] \in ZstdLike(z)
             /\ Holds([c EXCEPT !.held = <<>>, !.lead = <<>>, !.pend = p], <<>>, p, <<>>, c.level)
  BY <1>1, <1>2 DEF ZstdContexts, ZstdLike, Holds
<1>. QED  BY <1>3, <1>4, <1>5, <1>6, Zenon

\* The steps of ZSTD_compressStream2 behind its pump.
ZstdCounted(bytes, d) ==
    [d EXCEPT !.c.total = @ + d.used, !.c.sum = ChecksumUpdate(@, Take(bytes, d.used))]

ZstdSettled(bytes, room, how, d) ==
    IF d.used = Len(bytes) /\ d.c.pend = <<>>
      THEN Deliver([d EXCEPT !.c = Closed(d.c, how)], room) ELSE d

ZstdReused(param, d) ==
    IF d.c.ending /\ d.c.pend = <<>> /\ ~PledgeBroken(d.c)
      THEN [d EXCEPT !.c = Session(param)] ELSE d

ZstdFirst(c, bytes, how) == Begun(c, IF how = ZU_FINISH THEN Len(bytes) ELSE Unpledged)

ZstdPumped(c, bytes, room, how) ==
    ZstdSettled(bytes, room, how, ZstdCounted(bytes, Pump(ZstdFirst(c, bytes, how), bytes, room)))

\* ZSTD_compressStream2 is these steps.
LEMMA CompressStream2Is ==
    ASSUME NEW c, NEW bytes, NEW room, NEW how
    PROVE  CompressStream2(c, bytes, room, how) = ZstdReused(c.param, ZstdPumped(c, bytes, room, how))
<1>. DEFINE e == ZstdCounted(bytes, Pump(ZstdFirst(c, bytes, how), bytes, room))
            S == {ZstdReused(c.param, d) : d \in {ZstdSettled(bytes, room, how, x) : x \in {e}}}
<1>1. CompressStream2(c, bytes, room, how) = Only(S)
  BY DEF CompressStream2, ZstdCounted, ZstdSettled, ZstdReused, ZstdFirst
<1>. HIDE DEF e
<1>2. S = {ZstdReused(c.param, ZstdSettled(bytes, room, how, e))}
  OBVIOUS
<1>. HIDE DEF S
<1>. QED  BY <1>1, <1>2, OnlyOne DEF ZstdPumped, e

\* The parts of a context.
LEMMA ZstdFields ==
    ASSUME NEW c, c \in ZstdContexts
    PROVE  /\ c.param \in Int /\ c.begun \in BOOLEAN /\ c.level \in Int /\ c.size \in Int
           /\ c.total \in Nat /\ c.sum \in Int /\ c.lead \in Seq(Wrapper) /\ c.held \in Seq(Int)
           /\ c.pend \in Seq(Token) /\ c.ending \in BOOLEAN
           /\ Image(c) \in Seq(Token) /\ Buffers(ZstdLike(c)) /\ c \in ZstdLike(c)
<1>1. Buffers(ZstdLike(c)) /\ c \in ZstdLike(c)
  BY ZstdBuffers DEF ZstdLike
<1>2. Image(c) \in Seq(Token)
  BY <1>1, ContextParts
<1>. QED  BY <1>1, <1>2 DEF ZstdContexts

\* A frame in progress in the context c.
ZstdRuns(p, o, c) ==
    /\ c \in ZstdContexts /\ c.begun /\ c.param = asked
    /\ ZstdFrame(p, o, c)

\* The first call of a frame begins it.
LEMMA ZstdBegins ==
    ASSUME Good, Asked, IsZstd
    PROVE  ZstdRuns(pos, out, ZstdFirst(enc.cctx, Offered, flush))
<1>. USE AskedIs
<1>1. ZstdOk(pos, out, enc, FALSE)
  BY DEF EncOk
<1>. DEFINE c == enc.cctx
            size == IF flush = ZU_FINISH THEN AvailIn ELSE Unpledged
            f == ZstdFirst(c, Offered, flush)
<1>2. /\ enc \in ZstdStates /\ c.param = asked /\ ~enc.done
      /\ ~c.begun => c = Session(asked) /\ pos = 0 /\ out = <<>>
      /\ c.begun => ZstdFrame(pos, out, c)
  BY <1>1 DEF ZstdOk
<1>3. c \in ZstdContexts
  BY <1>2 DEF ZstdStates
<1>4. f = Begun(c, size)
  BY DEF ZstdFirst
<1>. HIDE DEF c, f
<1>5. CASE c.begun
  <2>1. f = c
    BY <1>4, <1>5 DEF Begun
  <2>2. ZstdRuns(pos, out, f)
    BY <1>2, <1>3, <1>5, <2>1 DEF ZstdRuns
  <2>. QED  BY <2>2 DEF f, c
<1>6. CASE ~c.begun
  <2>0. size \in Int /\ (size # Unpledged => size = fed /\ flush = ZU_FINISH)
    BY <1>2, <1>6 DEF Unpledged
  <2>. HIDE DEF size
  <2>. DEFINE t == <<"frame", size, 0>>
  <2>1. t \in Wrapper
    BY <2>0 DEF Wrapper, Wrapping
  <2>2. FrameBody(size, 0) = <<t>> \o Compressed(Input(0), asked)
    BY DEF FrameBody
  <2>3. f = [Session(asked) EXCEPT !.begun = TRUE, !.size = size, !.lead = <<t>>]
    BY <1>2, <1>4, <1>6 DEF Begun
  <2>. HIDE DEF t
  <2>. DEFINE F == <<t>>
  <2>4. F \in Seq(Wrapper)
    BY ONLY <2>1 DEF F
  <2>5. F \in Seq(Token)
    BY <2>4, WrappersAreTokens
  <2>6. f = [Session(asked) EXCEPT !.begun = TRUE, !.size = size, !.lead = F]
    BY <2>3
  <2>. HIDE DEF F
  <2>7. /\ f.param = asked /\ f.begun /\ f.level = asked /\ f.size = size /\ f.total = 0 /\ f.sum = 0
        /\ f.lead = F /\ f.held = <<>> /\ f.pend = <<>> /\ f.ending = FALSE
    BY <2>6 DEF Session
  <2>8. f \in ZstdContexts
    <3>1. <<>> \in Seq(Int) /\ <<>> \in Seq(Token) /\ asked \in Int /\ 0 \in Nat /\ 0 \in Int
      OBVIOUS
    <3>. DEFINE z == Session(asked)
    <3>2. z \in ZstdContexts
      <4>1. Unpledged \in Int /\ <<>> \in Seq(Wrapper)
        BY DEF Unpledged
      <4>. QED  BY <3>1, <4>1 DEF ZstdContexts, Session
    <3>. HIDE DEF z
    <3>3. f = [z EXCEPT !.begun = TRUE, !.size = size, !.lead = F]
      BY <2>6 DEF z
    <3>. QED  BY ONLY <2>0, <2>4, <3>2, <3>3 DEF ZstdContexts
  <2>9. Compressed(Input(0), asked) = <<>> /\ Compressed(<<>>, asked) = <<>>
    <3>1. 0 \in Nat /\ Input(0) = <<>>
      BY InputType
    <3>. QED  BY <3>1, CompressedEmpty
  <2>10. F \o <<>> = F /\ <<>> \o F = F
    BY ONLY <2>5, Unit, Zenon
  <2>11. Image(f) = F
    BY <2>7, <2>9, <2>10 DEF Image
  <2>12. out \o Image(f) = FrameSoFar(size, 0, FALSE)
    <3>1. FrameBody(size, 0) = F
      BY <2>2, <2>9, <2>10 DEF F
    <3>. QED  BY <1>2, <1>6, <2>10, <2>11, <3>1 DEF FrameSoFar
  <2>13. SumOf(0) = 0
    <3>. DEFINE n == pos
    <3>1. n \in Nat
      OBVIOUS
    <3>. HIDE DEF n
    <3>. QED  BY <3>1, SumGrows
  <2>14. ZstdFrame(pos, out, f)
    BY <1>2, <1>6, <2>0, <2>7, <2>12, <2>13 DEF ZstdFrame
  <2>15. ZstdRuns(pos, out, f)
    BY <2>7, <2>8, <2>14 DEF ZstdRuns
  <2>. QED  BY <2>15 DEF f, c
<1>. QED  BY <1>5, <1>6
\* What has been pumped and counted, and no block closed on request.
ZstdHalf(d) ==
    /\ d \in Calls(ZstdContexts) /\ d.used <= AvailIn /\ Len(d.bytes) <= AvailOut
    /\ ZstdRuns(pos + d.used, out \o d.bytes, d.c)
    /\ d.c.pend # <<>> => Len(d.bytes) = AvailOut
    /\ d.c.pend = <<>> => d.used = AvailIn

\* The pump takes the frame on, and the counters follow.
LEMMA ZstdPumps ==
    ASSUME Good, Asked, IsZstd, NEW f, ZstdRuns(pos, out, f)
    PROVE  ZstdHalf(ZstdCounted(Offered, Pump(f, Offered, AvailOut)))
<1>. USE AskedIs
<1>. DEFINE d == Pump(f, Offered, AvailOut)
            r == ZstdCounted(Offered, d)
<1>1. /\ f \in ZstdContexts /\ f.begun /\ f.param = asked /\ ZstdFrame(pos, out, f)
  BY DEF ZstdRuns
<1>2. Buffers(ZstdLike(f)) /\ f \in ZstdLike(f) /\ Image(f) \in Seq(Token) /\ f.size \in Int
  BY <1>1, ZstdFields
<1>3. d \in Calls(ZstdLike(f)) /\ PumpedTo(Len(Offered), f, Offered, AvailOut, d)
  <2>. DEFINE B == ZstdLike(f)
              w == Offered
              n == AvailOut
  <2>1. Buffers(B) /\ f \in B /\ w \in Seq(Int) /\ n \in Nat
    BY <1>2
  <2>. HIDE DEF B, w, n
  <2>2. Pump(f, w, n) \in Calls(B) /\ PumpedTo(Len(w), f, w, n, Pump(f, w, n))
    BY ONLY <2>1, PumpOk
  <2>. QED  BY <2>2 DEF B, w, n
<1>. HIDE DEF d
<1>4. d.c \in ZstdLike(f) /\ d.used \in Nat /\ d.bytes \in Seq(Token)
  BY <1>3, CallParts
<1>5. /\ Len(d.bytes) <= AvailOut /\ d.used <= AvailIn
      /\ d.bytes \o Image(d.c) = Image(f) \o Compressed(Take(Offered, d.used), f.level)
      /\ d.c.level = f.level
      /\ d.c.pend # <<>> => Len(d.bytes) = AvailOut
      /\ d.c.pend = <<>> => d.used = AvailIn
      /\ d.used = 0 => d.c.held = f.held /\ d.c.lead = f.lead
  BY <1>3 DEF PumpedTo
<1>6. /\ d.c \in ZstdContexts /\ d.c.param = asked /\ d.c.begun /\ d.c.size = f.size
      /\ d.c.total = f.total /\ d.c.sum = f.sum /\ d.c.ending = f.ending
  BY <1>1, <1>4 DEF ZstdLike
<1>7. /\ f.level = asked /\ f.total = pos /\ f.sum = SumOf(pos)
      /\ f.size # Unpledged => f.size = fed /\ flush = ZU_FINISH
      /\ out \o Image(f) = FrameSoFar(f.size, pos, f.ending)
      /\ f.ending => f.held = <<>> /\ f.lead = <<>> /\ Ending(pos)
  BY <1>1 DEF ZstdFrame
<1>8. Take(Offered, d.used) = OfferedAfter(pos, d.used)
  <2>1. d.used \in 0 .. AvailIn
    BY <1>4, <1>5
  <2>2. Take(OfferedAfter(pos, AvailIn), d.used) = OfferedAfter(pos, d.used)
    BY <2>1, TakeOffered
  <2>. QED  BY <2>2
<1>. DEFINE p == pos + d.used
            sum == ChecksumUpdate(SumOf(pos), OfferedAfter(pos, d.used))
            c == [d.c EXCEPT !.total = p, !.sum = sum]
<1>9. sum = SumOf(p) /\ SumOf(p) \in Int /\ p \in Nat
  <2>1. SumOf(pos + d.used) = ChecksumUpdate(SumOf(pos), OfferedAfter(pos, d.used))
    BY <1>4, SumGrows
  <2>2. p \in Nat
    BY <1>4, SMTT(40)
  <2>. HIDE DEF p
  <2>3. SumOf(p) \in Int
    BY <2>2, SumIs
  <2>. QED  BY <2>1, <2>2, <2>3 DEF p
<1>10. r = [c |-> c, used |-> d.used, bytes |-> d.bytes]
  <2>1. d = [c |-> d.c, used |-> d.used, bytes |-> d.bytes]
    BY <1>3, CallParts
  <2>2. r = [d EXCEPT !.c = [d.c EXCEPT !.total = @ + d.used, !.sum = ChecksumUpdate(@, Take(Offered, d.used))]]
    BY DEF ZstdCounted
  <2>3. [d.c EXCEPT !.total = @ + d.used, !.sum = ChecksumUpdate(@, Take(Offered, d.used))] = c
    BY <1>6, <1>7, <1>8
  <2>. HIDE DEF r, c
  <2>4. r = [d EXCEPT !.c = c]
    BY ONLY <2>2, <2>3
  <2>5. [d EXCEPT !.c = c] = [c |-> c, used |-> d.used, bytes |-> d.bytes]
    BY <1>3, CallWith
  <2>. QED  BY ONLY <2>4, <2>5
<1>. HIDE DEF r, sum, p
<1>11. /\ c \in ZstdContexts /\ c.param = d.c.param /\ c.begun = d.c.begun /\ c.level = d.c.level
       /\ c.size = d.c.size /\ c.total = p /\ c.sum = sum /\ c.lead = d.c.lead /\ c.held = d.c.held
       /\ c.pend = d.c.pend /\ c.ending = d.c.ending
  <2>1. p \in Nat /\ sum \in Int
    BY <1>9
  <2>2. d.c \in ZstdContexts
    BY <1>6
  <2>. QED  BY ONLY <2>1, <2>2 DEF ZstdContexts, c
<1>. HIDE DEF c
<1>12. Image(c) = Image(d.c)
  BY <1>11 DEF Image
<1>13. (out \o d.bytes) \o Image(c) = FrameSoFar(f.size, p, f.ending)
  <2>. DEFINE b == d.bytes
              i == Image(d.c)
              j == Image(f)
              C == Compressed(OfferedAfter(pos, d.used), asked)
  <2>1. C \in Seq(Token) /\ Len(C) = d.used
    BY <1>4, CompressedOffered
  <2>2. out \in Seq(Token) /\ b \in Seq(Token) /\ i \in Seq(Token) /\ j \in Seq(Token)
    BY <1>2, <1>4, <1>6, ZstdFields
  <2>3. b \o i = j \o C
    BY <1>5, <1>7, <1>8
  <2>4. out \o j = FrameSoFar(f.size, pos, f.ending)
    BY <1>7
  <2>5. FrameSoFar(f.size, pos, f.ending) \o C = FrameSoFar(f.size, p, f.ending)
    <3>1. CASE ~f.ending
      <4>1. FrameBody(f.size, pos) \o C = FrameBody(f.size, p)
        BY <1>2, <1>4, FrameGrows DEF p
      <4>. QED  BY <3>1, <4>1 DEF FrameSoFar
    <3>2. CASE f.ending
      <4>1. d.used = 0 /\ p = pos
        BY <1>4, <1>5, <1>7, <3>2 DEF Ending, p
      <4>2. C = <<>>
        BY <2>1, <4>1
      <4>3. FrameSoFar(f.size, pos, f.ending) \in Seq(Token)
        <5>1. f.ending \in BOOLEAN
          BY <1>1, ZstdFields
        <5>. QED  BY <1>2, <5>1, FrameParts
      <4>. DEFINE F == FrameSoFar(f.size, pos, f.ending)
      <4>. HIDE DEF F, C
      <4>4. F \o <<>> = F
        <5>1. F \in Seq(Token)
          BY <4>3 DEF F
        <5>. QED  BY ONLY <5>1, Unit, Zenon
      <4>. QED  BY <4>1, <4>2, <4>4 DEF F
    <3>. QED  BY <3>1, <3>2
  <2>6. Image(c) = i
    BY <1>12
  <2>. HIDE DEF b, i, j, C
  <2>7. (out \o b) \o i = out \o (b \o i)
    <3>1. out \in Seq(Token) /\ b \in Seq(Token) /\ i \in Seq(Token)
      BY <2>2
    <3>. QED  BY ONLY <3>1, TokensAssoc, SMTT(40)
  <2>8. (out \o j) \o C = out \o (j \o C)
    <3>1. out \in Seq(Token) /\ j \in Seq(Token) /\ C \in Seq(Token)
      BY <2>1, <2>2
    <3>. QED  BY ONLY <3>1, TokensAssoc, SMTT(40)
  <2>. QED  BY <2>3, <2>4, <2>5, <2>6, <2>7, <2>8 DEF b
<1>14. f.ending => c.held = <<>> /\ c.lead = <<>> /\ Ending(p)
  <2>. SUFFICES ASSUME f.ending PROVE c.held = <<>> /\ c.lead = <<>> /\ Ending(p)
    OBVIOUS
  <2>1. d.used = 0 /\ p = pos
    BY <1>4, <1>5, <1>7 DEF Ending, p
  <2>. QED  BY <1>5, <1>7, <1>11, <2>1
<1>15. ZstdFrame(p, out \o d.bytes, c)
  BY <1>5, <1>6, <1>7, <1>9, <1>11, <1>13, <1>14 DEF ZstdFrame
<1>16. ZstdRuns(p, out \o d.bytes, c)
  BY <1>6, <1>11, <1>15 DEF ZstdRuns
<1>17. r.c = c /\ r.used = d.used /\ r.bytes = d.bytes /\ r \in Calls(ZstdContexts)
  BY <1>4, <1>10, <1>11 DEF Calls
<1>18. ZstdHalf(r)
  BY <1>5, <1>11, <1>16, <1>17 DEF ZstdHalf, p
<1>. QED  BY <1>18 DEF r, d

\* Closing the block, or the frame, when all the input is in it.
LEMMA ZstdCloses ==
    ASSUME NEW p, NEW o, NEW c, p \in Nat, p = fed, asked \in Int, o \in Seq(Token), ZstdRuns(p, o, c)
    PROVE  /\ ZstdRuns(p, o, Closed(c, flush))
           /\ flush = ZU_FINISH => Closed(c, flush).ending
           /\ flush = ZU_FLUSH => Closed(c, flush).held = <<>>
<1>0. ZU_FLUSH # ZU_FINISH
  BY DEF ZU_FLUSH, ZU_FINISH
<1>1. c \in ZstdContexts /\ c.begun /\ c.param = asked /\ ZstdFrame(p, o, c)
  BY DEF ZstdRuns
<1>2. Buffers(ZstdLike(c)) /\ c \in ZstdLike(c) /\ Image(c) \in Seq(Token) /\ c.size \in Int
      /\ c.ending \in BOOLEAN
  BY <1>1, ZstdFields
<1>3. /\ c.level = asked /\ c.total = p /\ c.sum = SumOf(p)
      /\ c.size # Unpledged => c.size = fed /\ flush = ZU_FINISH
      /\ o \o Image(c) = FrameSoFar(c.size, p, c.ending)
      /\ c.ending => c.held = <<>> /\ c.lead = <<>> /\ Ending(p)
  BY <1>1 DEF ZstdFrame
<1>4. CASE flush = ZU_FLUSH /\ c.held # <<>>
  <2>. DEFINE z == CloseBlock(c, <<>>)
  <2>1. Closed(c, flush) = z
    BY <1>0, <1>4 DEF Closed
  <2>2. <<>> \in Seq(Token)
    OBVIOUS
  <2>3. /\ z \in ZstdLike(c) /\ Holds(z, <<>>, Image(c) \o <<>>, <<>>, c.level)
        /\ Image(z) = Image(c) \o <<>>
    BY <1>2, <2>2, CloseBlockOk
  <2>. HIDE DEF z
  <2>4. /\ z \in ZstdContexts /\ z.param = c.param /\ z.begun = c.begun /\ z.size = c.size
        /\ z.total = c.total /\ z.sum = c.sum /\ z.ending = c.ending
        /\ z.level = c.level /\ z.held = <<>> /\ z.lead = <<>>
    BY <2>3 DEF ZstdLike, Holds
  <2>5. Image(c) \o <<>> = Image(c)
    BY ONLY <1>2, Unit, Zenon
  <2>6. ZstdFrame(p, o, z)
    BY <1>3, <2>3, <2>4, <2>5 DEF ZstdFrame
  <2>7. ZstdRuns(p, o, z)
    BY <1>1, <2>4, <2>6 DEF ZstdRuns
  <2>. QED  BY <1>0, <1>4, <2>1, <2>4, <2>7
<1>5. CASE flush = ZU_FINISH /\ ~c.ending
  <2>. DEFINE t == FrameTail(p)
              y == CloseBlock(c, t)
              z == [y EXCEPT !.ending = TRUE]
  <2>1. Closed(c, flush) = z
    BY <1>0, <1>3, <1>5 DEF Closed, FrameTail
  <2>2. t \in Seq(Token)
    BY <1>2, FrameParts
  <2>3. FrameSoFar(c.size, p, TRUE) = FrameBody(c.size, p) \o t /\ FrameSoFar(c.size, p, c.ending) = FrameBody(c.size, p)
    BY <1>5 DEF FrameSoFar
  <2>. HIDE DEF t
  <2>4. /\ y \in ZstdLike(c) /\ Holds(y, <<>>, Image(c) \o t, <<>>, c.level)
        /\ Image(y) = Image(c) \o t
    BY <1>2, <2>2, CloseBlockOk
  <2>. HIDE DEF y
  <2>5. /\ y \in ZstdContexts /\ y.param = c.param /\ y.begun = c.begun /\ y.size = c.size
        /\ y.total = c.total /\ y.sum = c.sum
        /\ y.level = c.level /\ y.held = <<>> /\ y.lead = <<>>
    BY <2>4 DEF ZstdLike, Holds
  <2>6. /\ z \in ZstdContexts /\ z.param = y.param /\ z.begun = y.begun /\ z.size = y.size
        /\ z.total = y.total /\ z.sum = y.sum /\ z.level = y.level /\ z.held = y.held
        /\ z.lead = y.lead /\ z.pend = y.pend /\ z.ending = TRUE
    BY <2>5 DEF ZstdContexts
  <2>. HIDE DEF z
  <2>7. Image(z) = Image(c) \o t
    BY <2>4, <2>6 DEF Image
  <2>8. o \o Image(z) = FrameSoFar(c.size, p, TRUE)
    <3>. DEFINE i == Image(c)
    <3>1. i \in Seq(Token) /\ o \in Seq(Token) /\ o \o i = FrameBody(c.size, p)
      BY <1>2, <1>3, <2>3
    <3>2. Image(z) = i \o t
      BY <2>7
    <3>. HIDE DEF i
    <3>3. (o \o i) \o t = o \o (i \o t)
      <4>1. o \in Seq(Token) /\ i \in Seq(Token) /\ t \in Seq(Token)
        BY <2>2, <3>1
      <4>. QED  BY ONLY <4>1, TokensAssoc, SMTT(40)
    <3>. QED  BY <2>3, <3>1, <3>2, <3>3
  <2>9. ZstdFrame(p, o, z)
    BY <1>3, <1>5, <2>5, <2>6, <2>8 DEF ZstdFrame, Ending
  <2>10. ZstdRuns(p, o, z)
    BY <1>1, <2>5, <2>6, <2>9 DEF ZstdRuns
  <2>. QED  BY <1>0, <1>5, <2>1, <2>6, <2>10
<1>6. CASE ~(flush = ZU_FLUSH /\ c.held # <<>>) /\ ~(flush = ZU_FINISH /\ ~c.ending)
  <2>1. Closed(c, flush) = c
    BY <1>6 DEF Closed
  <2>. QED  BY <1>6, <2>1
<1>. QED  BY <1>4, <1>5, <1>6

\* Delivering what is closed.
LEMMA ZstdDelivers ==
    ASSUME NEW p, NEW d, NEW room, d \in Calls(ZstdContexts), room \in Nat, out \in Seq(Token),
           Len(d.bytes) <= room, ZstdRuns(p, out \o d.bytes, d.c)
    PROVE  /\ Deliver(d, room) \in Calls(ZstdContexts) /\ Deliver(d, room).used = d.used
           /\ Len(Deliver(d, room).bytes) <= room
           /\ ZstdRuns(p, out \o Deliver(d, room).bytes, Deliver(d, room).c)
           /\ Deliver(d, room).c.held = d.c.held /\ Deliver(d, room).c.ending = d.c.ending
           /\ Deliver(d, room).c.pend # <<>> => Len(Deliver(d, room).bytes) = room
<1>. DEFINE r == Deliver(d, room)
            B == ZstdLike(d.c)
<1>1. d.c \in ZstdContexts /\ d.used \in Nat /\ d.bytes \in Seq(Token)
      /\ d = [c |-> d.c, used |-> d.used, bytes |-> d.bytes]
  BY CallParts
<1>2. Buffers(B) /\ d.c \in B /\ Image(d.c) \in Seq(Token)
  BY <1>1, ZstdFields
<1>3. d \in Calls(B)
  <2>. HIDE DEF B
  <2>. QED  BY <1>1, <1>2 DEF Calls
<1>4. r \in Calls(B) /\ Delivered(d, r, room)
  BY <1>2, <1>3, DeliverOk
<1>. HIDE DEF r
<1>5. r.c \in B /\ r.used \in Nat /\ r.bytes \in Seq(Token)
      /\ r = [c |-> r.c, used |-> r.used, bytes |-> r.bytes]
  BY <1>4, CallParts
<1>6. /\ r.c \in ZstdContexts /\ r.c.param = d.c.param /\ r.c.begun = d.c.begun /\ r.c.size = d.c.size
      /\ r.c.total = d.c.total /\ r.c.sum = d.c.sum /\ r.c.ending = d.c.ending
  BY <1>5 DEF ZstdLike
<1>7. /\ Len(r.bytes) <= room /\ r.used = d.used
      /\ r.bytes \o Image(r.c) = d.bytes \o Image(d.c)
      /\ r.c.held = d.c.held /\ r.c.lead = d.c.lead /\ r.c.level = d.c.level
      /\ r.c.pend # <<>> => Len(r.bytes) = room
  BY <1>4 DEF Delivered
<1>8. r \in Calls(ZstdContexts)
  BY <1>5, <1>6 DEF Calls
<1>9. (out \o r.bytes) \o Image(r.c) = (out \o d.bytes) \o Image(d.c)
  <2>. DEFINE a == r.bytes
              b == d.bytes
              i == Image(r.c)
              j == Image(d.c)
  <2>1. i \in Seq(Token)
    BY <1>6, ZstdFields
  <2>2. a \in Seq(Token) /\ b \in Seq(Token) /\ j \in Seq(Token) /\ a \o i = b \o j
    BY <1>1, <1>2, <1>5, <1>7
  <2>. HIDE DEF a, b, i, j
  <2>3. (out \o a) \o i = out \o (a \o i)
    <3>1. out \in Seq(Token) /\ a \in Seq(Token) /\ i \in Seq(Token)
      BY <2>1, <2>2
    <3>. QED  BY ONLY <3>1, TokensAssoc, SMTT(40)
  <2>4. (out \o b) \o j = out \o (b \o j)
    <3>1. out \in Seq(Token) /\ b \in Seq(Token) /\ j \in Seq(Token)
      BY <2>2
    <3>. QED  BY ONLY <3>1, TokensAssoc, SMTT(40)
  <2>. QED  BY <2>2, <2>3, <2>4 DEF a, b, i, j
<1>10. ZstdFrame(p, out \o d.bytes, d.c) /\ d.c.param = asked /\ d.c.begun
  BY DEF ZstdRuns
<1>11. ZstdFrame(p, out \o r.bytes, r.c)
  BY <1>6, <1>7, <1>9, <1>10 DEF ZstdFrame
<1>12. ZstdRuns(p, out \o r.bytes, r.c)
  BY <1>6, <1>10, <1>11 DEF ZstdRuns
<1>. QED  BY <1>6, <1>7, <1>8, <1>12 DEF r
\* What ZSTD_compressStream2 has done before it may start afresh.
ZstdMoved(d) ==
    /\ ZstdHalf(d)
    /\ d.c.pend = <<>> /\ flush = ZU_FINISH => d.c.ending
    /\ d.c.pend = <<>> /\ flush = ZU_FLUSH => d.c.held = <<>>

\* The frame goes on, is flushed or ends, as the call asks.
LEMMA ZstdMoves ==
    ASSUME Good, Asked, IsZstd
    PROVE  ZstdMoved(ZstdPumped(enc.cctx, Offered, AvailOut, flush))
<1>. USE AskedIs
<1>. DEFINE f == ZstdFirst(enc.cctx, Offered, flush)
            d == ZstdCounted(Offered, Pump(f, Offered, AvailOut))
            r == ZstdSettled(Offered, AvailOut, flush, d)
<1>1. ZstdRuns(pos, out, f)
  BY ZstdBegins
<1>. HIDE DEF f
<1>2. ZstdHalf(d)
  BY <1>1, ZstdPumps
<1>. HIDE DEF d
<1>3. /\ d \in Calls(ZstdContexts) /\ d.used <= AvailIn /\ Len(d.bytes) <= AvailOut
      /\ ZstdRuns(pos + d.used, out \o d.bytes, d.c)
      /\ d.c.pend # <<>> => Len(d.bytes) = AvailOut
      /\ d.c.pend = <<>> => d.used = AvailIn
  BY <1>2 DEF ZstdHalf
<1>4. d.c \in ZstdContexts /\ d.used \in Nat /\ d.bytes \in Seq(Token)
  BY <1>3, CallParts
<1>5. CASE ~(d.used = AvailIn /\ d.c.pend = <<>>)
  <2>1. r = d
    BY <1>5 DEF ZstdSettled
  <2>2. d.c.pend # <<>>
    BY <1>3, <1>5
  <2>3. ZstdMoved(d)
    BY <1>2, <2>2 DEF ZstdMoved
  <2>. QED  BY <2>1, <2>3 DEF ZstdPumped, d, f
<1>6. CASE d.used = AvailIn /\ d.c.pend = <<>>
  <2>. DEFINE c == Closed(d.c, flush)
              x == [c |-> c, used |-> d.used, bytes |-> d.bytes]
              p == pos + d.used
              o == out \o d.bytes
  <2>1. p \in Nat /\ p = fed
    BY <1>4, <1>6
  <2>2. o \in Seq(Token)
    <3>. DEFINE b == d.bytes
    <3>1. out \in Seq(Token) /\ b \in Seq(Token)
      BY <1>4
    <3>. HIDE DEF b
    <3>2. out \o b \in Seq(Token)
      BY ONLY <3>1, Cat, Zenon
    <3>. QED  BY <3>2 DEF b
  <2>3. /\ ZstdRuns(p, o, c)
        /\ flush = ZU_FINISH => c.ending
        /\ flush = ZU_FLUSH => c.held = <<>>
    <3>. HIDE DEF p, o
    <3>1. ZstdRuns(p, o, d.c)
      BY <1>3 DEF p, o
    <3>. QED  BY <2>1, <2>2, <3>1, ZstdCloses
  <2>. HIDE DEF c
  <2>4. [d EXCEPT !.c = c] = x
    BY <1>3, CallWith
  <2>5. r = Deliver(x, AvailOut)
    BY <1>6, <2>4 DEF ZstdSettled, c
  <2>6. x \in Calls(ZstdContexts) /\ x.c = c /\ x.used = d.used /\ x.bytes = d.bytes
    BY <1>4, <2>3 DEF Calls, ZstdRuns
  <2>. HIDE DEF x
  <2>7. ZstdRuns(p, out \o x.bytes, x.c) /\ Len(x.bytes) <= AvailOut
    BY <1>3, <2>3, <2>6
  <2>. HIDE DEF r, p
  <2>8. /\ r \in Calls(ZstdContexts) /\ r.used = x.used /\ Len(r.bytes) <= AvailOut
        /\ ZstdRuns(p, out \o r.bytes, r.c)
        /\ r.c.held = x.c.held /\ r.c.ending = x.c.ending
        /\ r.c.pend # <<>> => Len(r.bytes) = AvailOut
    <3>1. out \in Seq(Token) /\ AvailOut \in Nat
      OBVIOUS
    <3>. DEFINE n == AvailOut
    <3>. HIDE DEF n
    <3>2. x \in Calls(ZstdContexts) /\ n \in Nat /\ Len(x.bytes) <= n
      BY <2>6, <2>7, <3>1 DEF n
    <3>3. /\ Deliver(x, n) \in Calls(ZstdContexts) /\ Deliver(x, n).used = x.used
          /\ Len(Deliver(x, n).bytes) <= n
          /\ ZstdRuns(p, out \o Deliver(x, n).bytes, Deliver(x, n).c)
          /\ Deliver(x, n).c.held = x.c.held /\ Deliver(x, n).c.ending = x.c.ending
          /\ Deliver(x, n).c.pend # <<>> => Len(Deliver(x, n).bytes) = n
      BY ONLY <2>7, <3>1, <3>2, ZstdDelivers, ZenonT(40)
    <3>. QED  BY <2>5, <3>3 DEF n
  <2>9. ZstdHalf(r)
    BY <1>6, <2>6, <2>8 DEF ZstdHalf, p
  <2>10. ZstdMoved(r)
    BY <2>3, <2>6, <2>8, <2>9 DEF ZstdMoved
  <2>. QED  BY <2>10 DEF ZstdPumped, r, d, f
<1>. QED  BY <1>5, <1>6

\* Every complete frame of n bytes has the same length.
LEMMA ZstdStreamsAre ==
    ASSUME NEW n, n \in Nat, asked \in Int
    PROVE  /\ ZstdStreams(n, asked) = {FrameSoFar(size, n, TRUE) : size \in {Unpledged, n}}
           /\ \A s \in ZstdStreams(n, asked) : Len(s) = n + 3
<1>1. \A size : FrameSoFar(size, n, TRUE) =
        << <<"frame", size, 0>> >> \o Compressed([i \in 1 .. n |-> i], asked)
           \o << <<"endmark", 0, 0>>, <<"xxh", ChecksumUpdate(0, [i \in 1 .. n |-> i]), 0>> >>
  BY DEF FrameSoFar, FrameBody, FrameTail, SumOf, Input
<1>2. ZstdStreams(n, asked) = {FrameSoFar(size, n, TRUE) : size \in {Unpledged, n}}
  BY <1>1 DEF ZstdStreams
<1>3. ASSUME NEW size \in {Unpledged, n} PROVE Len(FrameSoFar(size, n, TRUE)) = n + 3
  <2>1. size \in Int
    BY DEF Unpledged
  <2>. QED  BY <2>1, FrameParts
<1>. QED  BY <1>2, <1>3

\* What zstd_encoder_process may return.
LEMMA ZstdReturns ==
    ASSUME Good, Asked, IsZstd, NEW st, NEW p, NEW o, NEW e, Return(st, p, o, e),
           p \in pos .. fed, o \in Seq(Token), Len(out) <= Len(o), Len(o) <= call.out + call.room,
           ZstdOk(p, o, e, st = ZU_STREAM_END),
           \/ st = ZU_STREAM_END \/ st = ZU_ERR_MEMORY
           \/ /\ st = ZU_NEED_INPUT /\ flush # ZU_FINISH
              /\ flush = ZU_FLUSH => p = fed /\ e.cctx.pend = <<>> /\ e.cctx.held = <<>>
           \/ /\ st = ZU_NEED_OUTPUT /\ Len(o) = call.out + call.room
              /\ job.driver = "one_shot" => \A s \in ZstdStreams(job.n, asked) : Len(o) < Len(s)
    PROVE  Good'
<1>. USE AskedIs
<1>1. ~IsDeflate /\ ~IsFrame /\ ~IsBlock /\ ~IsIdentity
  BY Kinds
<1>2. TurnOk(p, o, e, st = ZU_STREAM_END)
  <2>1. EncOk(p, o, e, st = ZU_STREAM_END)
    BY <1>1 DEF EncOk
  <2>. QED  BY <2>1 DEF TurnOk
<1>3. /\ ZU_STREAM_END # ZU_NEED_INPUT /\ ZU_STREAM_END # ZU_NEED_OUTPUT
      /\ ZU_NEED_INPUT # ZU_NEED_OUTPUT /\ ZU_ERR_MEMORY # ZU_NEED_INPUT
      /\ ZU_ERR_MEMORY # ZU_NEED_OUTPUT
      /\ st # ZU_ERR_INVALID_DATA /\ st # ZU_ERR_INVALID_ARGUMENT /\ st \in CodecAnswers
  BY DEF CodecAnswers, ZU_NEED_OUTPUT, ZU_STREAM_END, ZU_NEED_INPUT, ZU_ERR_MEMORY,
         ZU_ERR_INVALID_ARGUMENT, ZU_ERR_INVALID_DATA
<1>4. st = ZU_NEED_INPUT => flush # ZU_FINISH /\ (flush = ZU_FLUSH => FlushedOut(p, e))
  BY <1>1, <1>3 DEF FlushedOut
<1>5. CompleteStreams(job.n, asked) = ZstdStreams(job.n, asked)
  BY StreamsAre
<1>6. st = ZU_NEED_OUTPUT =>
         /\ Len(o) = call.out + call.room
         /\ job.driver = "one_shot" => \A s \in CompleteStreams(job.n, asked) : Len(o) < Len(s)
  BY <1>3, <1>5
<1>7. ReturnOk(st, p, o, e)
  BY <1>1, <1>2, <1>3, <1>4, <1>6 DEF ReturnOk
<1>. QED  BY <1>7, ReturnKeeps DEF Good

\* The context could not allocate its buffers.
LEMMA ZstdNoMemoryKeeps ==
    ASSUME Good, ZstdNoMemory
    PROVE  Good'
<1>. USE AskedIs
<1>0. Asked /\ IsZstd /\ Return(ZU_ERR_MEMORY, pos, out, enc)
  BY DEF ZstdNoMemory
<1>1. ZstdOk(pos, out, enc, FALSE)
  BY <1>0 DEF EncOk
<1>2. (ZU_ERR_MEMORY = ZU_STREAM_END) = FALSE
  BY DEF ZU_ERR_MEMORY, ZU_STREAM_END
<1>3. ZstdOk(pos, out, enc, ZU_ERR_MEMORY = ZU_STREAM_END)
  BY <1>1, <1>2
<1>4. pos \in pos .. fed /\ out \in Seq(Token) /\ Len(out) <= Len(out) /\ Len(out) <= call.out + call.room
  BY <1>0
<1>. QED  BY <1>0, <1>3, <1>4, ZstdReturns
\* A frame that ends is complete, and the context is ready for another.
LEMMA ZstdEnds ==
    ASSUME Good, Asked, IsZstd, NEW x, ZstdMoved(x), x.c.ending, x.c.pend = <<>>,
           NEW p, NEW o, p = pos + x.used, o = out \o x.bytes, o \in Seq(Token), p \in Nat
    PROVE  ZstdOk(p, o, [enc EXCEPT !.cctx = Session(asked), !.done = TRUE], TRUE)
<1>. USE AskedIs
<1>1. ZstdOk(pos, out, enc, FALSE)
  BY DEF EncOk
<1>2. enc \in ZstdStates /\ enc.level = asked
  BY <1>1 DEF ZstdOk
<1>. DEFINE z == Session(asked)
            e == [enc EXCEPT !.cctx = z, !.done = TRUE]
<1>3. z \in ZstdContexts /\ z.param = asked /\ z.begun = FALSE
  <2>1. Unpledged \in Int /\ <<>> \in Seq(Wrapper) /\ <<>> \in Seq(Int) /\ <<>> \in Seq(Token)
        /\ asked \in Int /\ 0 \in Nat /\ 0 \in Int
    BY DEF Unpledged
  <2>. QED  BY <2>1 DEF ZstdContexts, Session
<1>4. z = Session(asked)
  OBVIOUS
<1>. HIDE DEF z
<1>5. e \in ZstdStates /\ e.level = asked /\ e.cctx = z /\ e.done = TRUE
  BY <1>2, <1>3 DEF ZstdStates
<1>. HIDE DEF e
<1>6. ZstdRuns(p, o, x.c)
  BY DEF ZstdMoved, ZstdHalf
<1>7. x.c \in ZstdContexts /\ ZstdFrame(p, o, x.c)
  BY <1>6 DEF ZstdRuns
<1>8. /\ x.c.level \in Int /\ x.c.held = <<>> /\ x.c.lead = <<>> /\ Ending(p)
      /\ o \o Image(x.c) = FrameSoFar(x.c.size, p, TRUE)
      /\ x.c.size # Unpledged => x.c.size = fed
  <2>1. x.c.ending = TRUE
    BY <1>7, ZstdFields
  <2>. QED  BY <1>7, <2>1 DEF ZstdFrame
<1>9. Image(x.c) = <<>>
  BY <1>8, EmptyImage
<1>10. o \o <<>> = o
  BY ONLY o \in Seq(Token), Unit
<1>11. o = FrameSoFar(x.c.size, p, TRUE) /\ x.c.size \in {Unpledged, p}
  BY <1>8, <1>9, <1>10 DEF Ending
<1>12. o \in ZstdStreams(p, asked)
  <2>1. p \in Nat /\ asked \in Int
    OBVIOUS
  <2>2. ZstdStreams(p, asked) = {FrameSoFar(size, p, TRUE) : size \in {Unpledged, p}}
    BY ONLY <2>1, ZstdStreamsAre
  <2>. QED  BY ONLY <1>11, <2>2
<1>13. ZstdOk(p, o, e, TRUE)
  BY <1>3, <1>4, <1>5, <1>8, <1>12 DEF ZstdOk
<1>. QED  BY <1>13 DEF e, z

\* A frame that has not ended goes on.
LEMMA ZstdGoesOn ==
    ASSUME Good, Asked, IsZstd, NEW x, ZstdMoved(x), ~(x.c.ending /\ x.c.pend = <<>>),
           NEW p, NEW o, p = pos + x.used, o = out \o x.bytes
    PROVE  ZstdOk(p, o, [enc EXCEPT !.cctx = x.c, !.done = FALSE], FALSE)
<1>. USE AskedIs
<1>1. ZstdOk(pos, out, enc, FALSE)
  BY DEF EncOk
<1>2. enc \in ZstdStates /\ enc.level = asked
  BY <1>1 DEF ZstdOk
<1>. DEFINE e == [enc EXCEPT !.cctx = x.c, !.done = FALSE]
<1>3. ZstdRuns(p, o, x.c)
  BY DEF ZstdMoved, ZstdHalf
<1>4. x.c \in ZstdContexts /\ ZstdFrame(p, o, x.c) /\ x.c.param = asked /\ x.c.begun
  BY <1>3 DEF ZstdRuns
<1>5. e \in ZstdStates /\ e.level = asked /\ e.cctx = x.c /\ e.done = FALSE
  BY <1>2, <1>4 DEF ZstdStates
<1>. HIDE DEF e
<1>6. ZstdOk(p, o, e, FALSE)
  BY <1>4, <1>5 DEF ZstdOk
<1>. QED  BY <1>6 DEF e

\* A full window under a frame with more to deliver.
LEMMA ZstdWaits ==
    ASSUME Good, Asked, IsZstd, NEW x, ZstdMoved(x), x.c.pend # <<>>, job.driver = "one_shot",
           NEW o, o = out \o x.bytes, o \in Seq(Token)
    PROVE  \A s \in ZstdStreams(job.n, asked) : Len(o) < Len(s)
<1>. USE AskedIs
<1>. DEFINE p == pos + x.used
            i == Image(x.c)
            F == FrameSoFar(x.c.size, p, x.c.ending)
<1>1. x \in Calls(ZstdContexts) /\ x.used <= AvailIn /\ ZstdRuns(p, o, x.c)
  BY DEF ZstdMoved, ZstdHalf
<1>2. x.used \in Nat /\ p \in Nat /\ p <= job.n
  <2>1. x.used \in Nat
    BY <1>1, CallParts
  <2>. QED  BY <1>1, <2>1, SMTT(40)
<1>3. x.c \in ZstdContexts /\ o \o i = F
  BY <1>1 DEF ZstdRuns, ZstdFrame
<1>4. i \in Seq(Token) /\ x.c.size \in Int /\ x.c.ending \in BOOLEAN
  BY <1>3, ZstdFields
<1>5. Len(F) <= p + 3
  <2>. HIDE DEF p
  <2>. QED  BY <1>2, <1>4, FrameParts
<1>6. Len(i) > 0
  <2>. DEFINE a == x.c.pend
              b == x.c.lead
              c == Compressed(x.c.held, x.c.level)
  <2>1. a \in Seq(Token) /\ a # <<>> /\ b \in Seq(Token) /\ c \in Seq(Token)
    <3>1. a \in Seq(Token)
      BY <1>3, ZstdFields
    <3>2. b \in Seq(Token) /\ c \in Seq(Token)
      <4>1. Buffers(ZstdLike(x.c)) /\ x.c \in ZstdLike(x.c)
        BY <1>3, ZstdFields
      <4>. QED  BY <4>1, ContextParts
    <3>. QED  BY <3>1, <3>2
  <2>2. i = (a \o b) \o c
    BY DEF Image
  <2>. HIDE DEF a, b, c, i
  <2>3. Len(a) > 0 /\ Len(a) \in Nat
    BY ONLY <2>1
  <2>4. a \o b \in Seq(Token) /\ Len(a \o b) = Len(a) + Len(b) /\ Len(b) \in Nat
    BY ONLY <2>1, Cat, Zenon
  <2>. DEFINE y == a \o b
  <2>. HIDE DEF y
  <2>5. Len(y \o c) = Len(y) + Len(c) /\ Len(c) \in Nat
    <3>1. y \in Seq(Token)
      BY <2>4 DEF y
    <3>. QED  BY ONLY <2>1, <3>1, Cat, Zenon
  <2>. QED  BY <2>2, <2>3, <2>4, <2>5 DEF y
<1>. HIDE DEF i, F
<1>7. Len(o \o i) = Len(o) + Len(i) /\ Len(o) \in Nat /\ Len(i) \in Nat
  BY ONLY o \in Seq(Token), <1>4, Cat
<1>8. \A s \in ZstdStreams(job.n, asked) : Len(s) = job.n + 3
  BY ZstdStreamsAre
<1>9. job.n \in Nat
  OBVIOUS
<1>. HIDE DEF p
<1>10. Len(o) < job.n + 3
  BY ONLY <1>2, <1>3, <1>5, <1>6, <1>7, <1>9
<1>. QED  BY <1>8, <1>10

\* One turn of zstd_encoder_process.
LEMMA ZstdKeeps ==
    ASSUME Good, ZstdTurn
    PROVE  Good'
<1>. USE AskedIs
<1>0. Asked /\ IsZstd
  BY DEF ZstdTurn
<1>0a. ~enc.done
  BY <1>0 DEF EncOk, ZstdOk
<1>. DEFINE d == CompressStream2(enc.cctx, Offered, AvailOut, flush)
            p == pos + d.used
            o == out \o d.bytes
            st == ZstdStatus(p = fed, Len(d.c.pend), d.used > 0 \/ d.bytes # <<>>)
            e == [enc EXCEPT !.cctx = d.c, !.done = (st = ZU_STREAM_END)]
            x == ZstdPumped(enc.cctx, Offered, AvailOut, flush)
<1>1. IF PledgeBroken(d.c) THEN Return(ZU_ERR_INTERNAL, pos, out, enc)
      ELSE IF st = Running THEN Continue(p, o, e)
      ELSE Return(st, p, o, e)
  BY <1>0a DEF ZstdTurn
<1>2. enc.cctx.param = asked
  BY <1>0 DEF EncOk, ZstdOk
<1>3. d = ZstdReused(asked, x)
  BY <1>2, CompressStream2Is
<1>4. ZstdMoved(x)
  BY <1>0, ZstdMoves
<1>. HIDE DEF d, x
<1>5. /\ x \in Calls(ZstdContexts) /\ x.used <= AvailIn /\ Len(x.bytes) <= AvailOut
      /\ ZstdRuns(pos + x.used, out \o x.bytes, x.c)
      /\ x.c.pend # <<>> => Len(x.bytes) = AvailOut
      /\ x.c.pend = <<>> => x.used = AvailIn
      /\ x.c.pend = <<>> /\ flush = ZU_FINISH => x.c.ending
      /\ x.c.pend = <<>> /\ flush = ZU_FLUSH => x.c.held = <<>>
  BY <1>4 DEF ZstdMoved, ZstdHalf
<1>6. x.c \in ZstdContexts /\ x.used \in Nat /\ x.bytes \in Seq(Token)
      /\ x = [c |-> x.c, used |-> x.used, bytes |-> x.bytes]
  BY <1>5, CallParts
<1>7. /\ x.c.total = pos + x.used
      /\ x.c.size # Unpledged => x.c.size = fed
      /\ x.c.ending => pos + x.used = fed /\ flush = ZU_FINISH
  BY <1>5 DEF ZstdRuns, ZstdFrame, Ending
<1>8. ~PledgeBroken(x.c)
  BY <1>7 DEF PledgeBroken
<1>9. d.used = x.used /\ d.bytes = x.bytes /\ Len(d.c.pend) \in Nat
      /\ (Len(d.c.pend) = 0 <=> x.c.pend = <<>>) /\ ~PledgeBroken(d.c)
      /\ d.c = IF x.c.ending /\ x.c.pend = <<>> THEN Session(asked) ELSE x.c
  <2>1. CASE x.c.ending /\ x.c.pend = <<>>
    <3>. DEFINE z == Session(asked)
    <3>1. z.pend = <<>> /\ z.ending = FALSE
      BY DEF Session
    <3>. HIDE DEF z
    <3>2. d = [x EXCEPT !.c = z]
      BY <1>3, <1>8, <2>1 DEF ZstdReused, z
    <3>3. d = [c |-> z, used |-> x.used, bytes |-> x.bytes]
      BY <1>5, <3>2, CallWith
    <3>4. Len(<<>>) = 0
      OBVIOUS
    <3>. QED  BY <2>1, <3>1, <3>3, <3>4 DEF PledgeBroken, z
  <2>2. CASE ~(x.c.ending /\ x.c.pend = <<>>)
    <3>1. d = x
      BY <1>3, <2>2 DEF ZstdReused
    <3>2. x.c.pend \in Seq(Token)
      BY <1>6, ZstdFields
    <3>3. Len(x.c.pend) \in Nat /\ (Len(x.c.pend) = 0 <=> x.c.pend = <<>>)
      BY <3>2
    <3>. QED  BY <1>8, <2>2, <3>1, <3>3
  <2>. QED  BY <2>1, <2>2
<1>10. p = pos + x.used /\ o = out \o x.bytes /\ p \in pos .. fed /\ p \in Nat
  <2>. DEFINE n == x.used
  <2>1. p = pos + n /\ o = out \o x.bytes
    BY <1>9
  <2>2. n \in Nat /\ n <= AvailIn
    BY <1>5, <1>6
  <2>3. pos \in 0 .. fed /\ fed \in Nat /\ AvailIn = fed - pos
    BY <1>0 DEF AvailIn
  <2>. HIDE DEF n, p, o
  <2>4. p \in pos .. fed /\ p \in Nat
    BY ONLY <2>1, <2>2, <2>3
  <2>. QED  BY <2>1, <2>4 DEF n
<1>11. /\ o \in Seq(Token) /\ Len(out) <= Len(o) /\ Len(o) <= call.out + call.room
       /\ Len(x.bytes) = AvailOut => Len(o) = call.out + call.room
  <2>. DEFINE b == x.bytes
  <2>1. out \in Seq(Token) /\ b \in Seq(Token) /\ Len(b) <= AvailOut
    BY <1>0, <1>5, <1>6
  <2>2. o = out \o b
    BY <1>10
  <2>3. Len(out) + AvailOut = call.out + call.room /\ AvailOut \in Nat
    BY <1>0
  <2>. HIDE DEF b, o
  <2>4. out \o b \in Seq(Token) /\ Len(out \o b) = Len(out) + Len(b) /\ Len(out) \in Nat /\ Len(b) \in Nat
    <3>1. out \in Seq(Token) /\ b \in Seq(Token)
      BY <2>1
    <3>. QED  BY ONLY <3>1, Cat, Zenon
  <2>5. /\ Len(out) <= Len(out \o b) /\ Len(out \o b) <= Len(out) + AvailOut
        /\ Len(b) = AvailOut => Len(out \o b) = Len(out) + AvailOut
    BY ONLY <2>1, <2>3, <2>4
  <2>. QED  BY <2>2, <2>3, <2>4, <2>5 DEF b
<1>. HIDE DEF p, o
<1>12. flush \in {ZU_RUN, ZU_FLUSH, ZU_FINISH} /\ ZU_RUN # ZU_FINISH /\ ZU_RUN # ZU_FLUSH /\ ZU_FLUSH # ZU_FINISH
  BY <1>0 DEF Flush, ZU_RUN, ZU_FLUSH, ZU_FINISH
<1>13. /\ ZU_STREAM_END # Running /\ ZU_NEED_INPUT # Running /\ ZU_NEED_OUTPUT # Running
       /\ ZU_STREAM_END # ZU_NEED_INPUT /\ ZU_STREAM_END # ZU_NEED_OUTPUT
  BY DEF ZU_STREAM_END, ZU_NEED_INPUT, ZU_NEED_OUTPUT, Running
<1>14. CASE x.c.ending /\ x.c.pend = <<>>
  <2>1. flush = ZU_FINISH /\ Len(d.c.pend) = 0 /\ d.c = Session(asked)
    BY <1>7, <1>9, <1>14
  <2>2. st = ZU_STREAM_END
    BY <2>1 DEF ZstdStatus
  <2>. DEFINE f == [enc EXCEPT !.cctx = Session(asked), !.done = TRUE]
  <2>3. (st = ZU_STREAM_END) = TRUE
    BY <2>2
  <2>4. e = f
    BY <2>1, <2>3
  <2>5. ZstdOk(p, o, f, TRUE)
    BY <1>0, <1>4, <1>10, <1>11, <1>14, ZstdEnds
  <2>. HIDE DEF st, e, f
  <2>6. Return(ZU_STREAM_END, p, o, f)
    BY <1>1, <1>9, <1>13, <2>2, <2>4
  <2>7. (ZU_STREAM_END = ZU_STREAM_END) = TRUE
    OBVIOUS
  <2>8. ZstdOk(p, o, f, ZU_STREAM_END = ZU_STREAM_END)
    BY <2>5, <2>7
  <2>. QED  BY <1>0, <1>10, <1>11, <2>6, <2>8, ZstdReturns
<1>15. CASE ~(x.c.ending /\ x.c.pend = <<>>)
  <2>. DEFINE f == [enc EXCEPT !.cctx = x.c, !.done = FALSE]
              spent == p = fed
              moved == d.used > 0 \/ d.bytes # <<>>
  <2>1. d.c = x.c /\ ~(flush = ZU_FINISH /\ Len(d.c.pend) = 0)
    BY <1>5, <1>9, <1>15
  <2>2. st = IF spent /\ (flush = ZU_RUN \/ Len(d.c.pend) = 0) THEN ZU_NEED_INPUT
             ELSE IF moved THEN Running
             ELSE IF AvailOut = 0 THEN ZU_NEED_OUTPUT ELSE ZU_ERR_INTERNAL
    BY <2>1 DEF ZstdStatus
  <2>3. ZstdOk(p, o, f, FALSE)
    BY <1>0, <1>4, <1>10, <1>15, ZstdGoesOn, Zenon
  <2>4. ASSUME st # ZU_STREAM_END PROVE e = f
    <3>1. (st = ZU_STREAM_END) = FALSE
      BY <2>4
    <3>. QED  BY <2>1, <3>1
  <2>5. f.cctx = x.c
    <3>1. enc \in ZstdStates
      BY <1>0 DEF EncOk, ZstdOk
    <3>. QED  BY <3>1 DEF ZstdStates
  <2>. HIDE DEF st, e, f
  <2>6. CASE spent /\ (flush = ZU_RUN \/ Len(d.c.pend) = 0)
    <3>1. st = ZU_NEED_INPUT
      BY <2>2, <2>6
    <3>2. Return(ZU_NEED_INPUT, p, o, f)
      BY <1>1, <1>9, <1>13, <2>4, <3>1
    <3>3. (ZU_NEED_INPUT = ZU_STREAM_END) = FALSE
      BY <1>13
    <3>4. ZstdOk(p, o, f, ZU_NEED_INPUT = ZU_STREAM_END)
      BY <2>3, <3>3
    <3>5. flush # ZU_FINISH
      BY <1>12, <2>1, <2>6
    <3>6. flush = ZU_FLUSH => p = fed /\ f.cctx.pend = <<>> /\ f.cctx.held = <<>>
      BY <1>5, <1>9, <1>12, <2>5, <2>6
    <3>. QED  BY <1>0, <1>10, <1>11, <3>2, <3>4, <3>5, <3>6, ZstdReturns
  <2>7. CASE ~(spent /\ (flush = ZU_RUN \/ Len(d.c.pend) = 0)) /\ moved
    <3>1. st = Running
      BY <2>2, <2>7
    <3>2. Continue(p, o, f)
      BY <1>1, <1>9, <1>13, <2>4, <3>1
    <3>3. EncOk(p, o, f, FALSE) /\ ~IsFrame
      BY <1>0, <2>3, Kinds DEF EncOk
    <3>4. ContinueOk(p, o, f)
      BY <1>10, <1>11, <3>3 DEF ContinueOk, TurnOk
    <3>. QED  BY <1>0, <3>2, <3>4, ContinueKeeps DEF Good
  <2>8. CASE ~(spent /\ (flush = ZU_RUN \/ Len(d.c.pend) = 0)) /\ ~moved
    <3>1. x.used = 0 /\ x.bytes = <<>>
      BY <1>6, <1>9, <2>8
    <3>2. Len(x.bytes) = 0
      BY <3>1
    <3>3. x.c.pend # <<>>
      <4>. SUFFICES ASSUME x.c.pend = <<>> PROVE FALSE
        OBVIOUS
      <4>1. p = fed /\ Len(d.c.pend) = 0
        BY <1>0, <1>5, <1>9, <1>10
      <4>. QED  BY <2>8, <4>1
    <3>4. AvailOut = 0 /\ Len(o) = call.out + call.room
      BY <1>5, <1>11, <3>2, <3>3
    <3>5. st = ZU_NEED_OUTPUT
      BY <2>2, <2>8, <3>4
    <3>6. Return(ZU_NEED_OUTPUT, p, o, f)
      BY <1>1, <1>9, <1>13, <2>4, <3>5
    <3>7. (ZU_NEED_OUTPUT = ZU_STREAM_END) = FALSE
      BY <1>13
    <3>8. ZstdOk(p, o, f, ZU_NEED_OUTPUT = ZU_STREAM_END)
      BY <2>3, <3>7
    <3>9. job.driver = "one_shot" => \A s \in ZstdStreams(job.n, asked) : Len(o) < Len(s)
      BY <1>0, <1>4, <1>10, <1>11, <3>3, ZstdWaits
    <3>. QED  BY <1>0, <1>10, <1>11, <3>4, <3>6, <3>8, <3>9, ZstdReturns
  <2>. QED  BY <2>6, <2>7, <2>8
<1>. QED  BY <1>14, <1>15

----------------------------------------------------------------------------
(***************************************************************************)
(* Every step, and the properties.                                         *)
(***************************************************************************)
\* The invariant and the three properties it carries along are inductive.
LEMMA NextKeeps ==
    ASSUME Good, [Next]_encVars
    PROVE  Good'
<1>1. CASE LoopStep \/ Returned
  BY <1>1, LoopKeeps
<1>2. CASE DeflateStep
  BY <1>2, NewKeeps, ResetsKeep, HeaderKeeps, BodyKeeps, TrailerKeeps DEF DeflateStep
<1>3. CASE Lz4Step
  BY <1>3, NewKeeps, ResetsKeep, FrameKeeps, BlockKeeps DEF Lz4Step
<1>4. CASE ZstdStep
  BY <1>4, NewKeeps, ResetsKeep, ZstdKeeps, ZstdNoMemoryKeeps DEF ZstdStep
<1>5. CASE IdentityStep
  BY <1>5, NewKeeps, ResetsKeep, IdentityKeeps DEF IdentityStep
<1>6. CASE UNCHANGED encVars
  BY <1>6, StutterKeeps
<1>. QED  BY <1>1, <1>2, <1>3, <1>4, <1>5, <1>6 DEF Next

\* What a live encoder has: the facts of the invariant the properties need.
LEMMA OpenedIs ==
    ASSUME Inv, Opened
    PROVE  /\ EncOk(pos, out, enc, finished)
           /\ IsFrame /\ result # ZU_ERR_MEMORY => FrameWire(pos, out, enc)
           /\ IsFrame /\ result = ZU_ERR_MEMORY => ~finished
           /\ job \in Jobs /\ job.codec \in DOMAIN CodecTable
           /\ pos \in Nat /\ asked \in Int /\ out \in Seq(Token)
<1>1. pos \in Nat
  BY JobIs DEF Inv, LoopInv
<1>. QED  BY <1>1, JobIs DEF Opened, Inv, LoopInv, CodecInv

\* A stream that has ended is whole.
LEMMA InvIsWhole == Inv => StreamIsWhole
<1>. SUFFICES ASSUME Inv, Opened, finished
              PROVE  /\ NoSyncMarks(out) \in CompleteStreams(pos, asked)
                     /\ pos = fed
                     /\ job.driver # "caller" => pos = job.n
  BY DEF StreamIsWhole
<1>1. EncOk(pos, out, enc, TRUE)
  <2>1. finished = TRUE
    BY DEF Inv, LoopInv
  <2>. QED  BY <2>1, OpenedIs
<1>2. IsFrame => FrameWire(pos, out, enc)
  BY OpenedIs
<1>3. Ending(pos) /\ NoSyncMarks(out) \in CompleteStreams(pos, asked)
  BY <1>1, <1>2, OpenedIs, EndIsWhole
<1>4. job.driver # "caller" => fed = job.n
  BY <1>3 DEF Ending, Inv, LoopInv
<1>. QED  BY <1>3, <1>4 DEF Ending

----------------------------------------------------------------------------
(***************************************************************************)
(* The bytes the tokens carry.                                             *)
(***************************************************************************)
\* What is delivered, a context's image after it, carries what was delivered,
\* what is pending and what is held.
LEMMA ImageCarries ==
    ASSUME NEW o, o \in Seq(Token), NEW c, c.pend \in Seq(Token), c.lead \in Seq(Wrapper),
           c.held \in Seq(Int), c.level \in Int
    PROVE  BytesIn(o \o Image(c)) = BytesIn(o) \o BytesIn(c.pend) \o c.held
<1>. DEFINE p == c.pend
            l == c.lead
            h == c.held
            C == Compressed(c.held, c.level)
            I == Image(c)
            x == BytesIn(o)
            y == BytesIn(p)
<1>1. p \in Seq(Token) /\ l \in Seq(Token) /\ l \in Seq(Wrapper) /\ h \in Seq(Int)
  BY WrappersAreTokens
<1>2. C \in Seq(Token) /\ BytesIn(C) = h
  BY CompressedType, CompressedCarries
<1>3. I = (p \o l) \o C
  BY DEF Image
<1>4. BytesIn(l) = <<>>
  BY <1>1, WrappersCarryNothing
<1>. HIDE DEF p, l, h, C, I
<1>5. p \o l \in Seq(Token) /\ BytesIn(p \o l) = BytesIn(p) \o BytesIn(l)
      /\ x \in Seq(Int) /\ y \in Seq(Int)
  BY ONLY <1>1, o \in Seq(Token), BytesInConcat, Cat DEF x, y
<1>6. y \o <<>> = y
  BY ONLY <1>5, Unit, Zenon
<1>7. BytesIn(p \o l) = y
  BY <1>4, <1>5, <1>6
<1>8. I \in Seq(Token) /\ BytesIn(I) = y \o h
  <2>. DEFINE q == p \o l
  <2>1. q \in Seq(Token) /\ BytesIn(q) = y
    BY <1>5, <1>7
  <2>. HIDE DEF q
  <2>2. BytesIn(q \o C) = BytesIn(q) \o BytesIn(C) /\ q \o C \in Seq(Token)
    BY ONLY <1>2, <2>1, BytesInConcat, Cat
  <2>. QED  BY <1>2, <1>3, <2>1, <2>2 DEF q
<1>9. BytesIn(o \o I) = x \o BytesIn(I)
  BY ONLY <1>8, o \in Seq(Token), BytesInConcat DEF x
<1>. HIDE DEF x, y
<1>10. x \o (y \o h) = (x \o y) \o h
  <2>. DEFINE B == Int
  <2>1. x \in Seq(B) /\ y \in Seq(B) /\ h \in Seq(B)
    BY <1>1, <1>5
  <2>. HIDE DEF B
  <2>. QED  BY ONLY <2>1, Assoc, SMTT(40)
<1>. QED  BY <1>8, <1>9, <1>10 DEF x, y, I, p, h

\* A wrapper around the compressed input carries the input.
LEMMA StreamCarries ==
    ASSUME NEW H, H \in Seq(Wrapper), NEW T, T \in Seq(Wrapper), NEW n, n \in Nat,
           NEW lv, lv \in Int
    PROVE  /\ BytesIn(H \o Compressed(Input(n), lv)) = Input(n)
           /\ BytesIn((H \o Compressed(Input(n), lv)) \o T) = Input(n)
<1>. DEFINE C == Compressed(Input(n), lv)
            b == Input(n)
<1>1. b \in Seq(Int) /\ Len(b) = n
  BY InputType
<1>2. C \in Seq(Token) /\ BytesIn(C) = b
  BY <1>1, CompressedType, CompressedCarries
<1>3. H \in Seq(Token) /\ T \in Seq(Token) /\ BytesIn(H) = <<>> /\ BytesIn(T) = <<>>
  BY WrappersAreTokens, WrappersCarryNothing
<1>. HIDE DEF C, b
<1>4. H \o C \in Seq(Token) /\ BytesIn(H \o C) = BytesIn(H) \o BytesIn(C)
  BY ONLY <1>2, <1>3, BytesInConcat, Cat
<1>. DEFINE q == H \o C
<1>. HIDE DEF q
<1>5. BytesIn(q \o T) = BytesIn(q) \o BytesIn(T)
  <2>1. q \in Seq(Token)
    BY <1>4 DEF q
  <2>. QED  BY ONLY <1>3, <2>1, BytesInConcat
<1>6. <<>> \o b = b /\ b \o <<>> = b
  BY ONLY <1>1, Unit, Zenon
<1>7. BytesIn(q) = b
  BY <1>2, <1>3, <1>4, <1>6 DEF q
<1>. QED  BY <1>3, <1>5, <1>6, <1>7 DEF q, C, b

\* Nothing compressed, nothing carried.
LEMMA NothingCarried == BytesIn(<<>>) = <<>> /\ Input(0) = <<>>
<1>1. <<>> \in Seq(Wrapper)
  OBVIOUS
<1>2. Input(0) \in Seq(Int) /\ Len(Input(0)) = 0
  BY InputType
<1>3. Input(0) = <<>>
  BY <1>2
<1>. QED  BY <1>1, <1>3, WrappersCarryNothing

\* A frame carries the input, ended or not.
LEMMA FrameCarries ==
    ASSUME NEW size, size \in Int, NEW p, p \in Nat, asked \in Int, NEW ended
    PROVE  BytesIn(FrameSoFar(size, p, ended)) = Input(p)
<1>. DEFINE f == <<"frame", size, 0>>
            m == <<"endmark", 0, 0>>
            x == <<"xxh", SumOf(p), 0>>
            H == <<f>>
            T == <<m, x>>
<1>1. f \in Wrapper /\ m \in Wrapper /\ x \in Wrapper
  <2>1. SumOf(p) \in Int
    BY SumIs
  <2>. QED  BY <2>1 DEF Wrapper, Wrapping
<1>2. FrameSoFar(size, p, ended) =
        IF ended THEN (H \o Compressed(Input(p), asked)) \o T ELSE H \o Compressed(Input(p), asked)
  BY DEF FrameSoFar, FrameBody, FrameTail
<1>. HIDE DEF f, m, x
<1>3. H \in Seq(Wrapper) /\ T \in Seq(Wrapper)
  BY ONLY <1>1 DEF H, T
<1>. HIDE DEF H, T
<1>4. /\ BytesIn(H \o Compressed(Input(p), asked)) = Input(p)
      /\ BytesIn((H \o Compressed(Input(p), asked)) \o T) = Input(p)
  BY <1>3, StreamCarries
<1>. QED  BY <1>2, <1>4
\* A DEFLATE stream: what it has delivered, and what miniz still has.
LEMMA DeflateNothingLost ==
    ASSUME NEW fin, DeflateOk(pos, out, enc, fin), IsDeflate, enc.mz.live,
           pos \in Nat, asked \in Int, out \in Seq(Token)
    PROVE  BytesIn(out) \o BytesIn(enc.mz.pend) \o enc.mz.held = Input(pos)
<1>. DEFINE z == enc.mz
<1>1. enc \in DeflateStates
  BY DEF DeflateOk
<1>2. /\ z.pend \in Seq(Token) /\ z.lead \in Seq(Wrapper) /\ z.held \in Seq(Int)
      /\ z.level \in Int
  <2>1. z \in MzContexts
    BY <1>1, DeflateFields
  <2>2. z.lead = <<>>
    BY <2>1 DEF MzContexts
  <2>. QED  BY <2>1, <2>2 DEF MzContexts
<1>3. z.live
  OBVIOUS
<1>. HIDE DEF z
<1>4. /\ DeflateBody(pos) \in Seq(Token) /\ <<LastBlock>> \in Seq(Token)
      /\ TrailerBytes(SumOf(pos), pos) \in Seq(Token)
      /\ DeflateBody(pos) \o <<LastBlock>> \in Seq(Token)
  BY DeflateParts
<1>5. BytesIn(DeflateBody(pos)) = Input(pos)
  <2>1. HeaderBytes(asked) \in Seq(Wrapper)
    BY HeaderIs
  <2>. QED  BY <2>1, StreamCarries DEF DeflateBody
<1>6. Input(pos) \in Seq(Int)
  BY InputType
<1>7. ASSUME NEW t, t \in Seq(Wrapper), NEW b, b \in Seq(Token), BytesIn(b) = Input(pos)
      PROVE  b \o t \in Seq(Token) /\ BytesIn(b \o t) = Input(pos)
  <2>. DEFINE i == Input(pos)
  <2>0. i \in Seq(Int) /\ BytesIn(b) = i
    BY <1>6, <1>7
  <2>. HIDE DEF i
  <2>1. t \in Seq(Token) /\ BytesIn(t) = <<>> /\ b \in Seq(Token)
    BY <1>7, WrappersAreTokens, WrappersCarryNothing
  <2>2. b \o t \in Seq(Token) /\ BytesIn(b \o t) = BytesIn(b) \o BytesIn(t)
    BY ONLY <2>1, BytesInConcat, Cat
  <2>3. i \o <<>> = i
    BY ONLY <2>0, Unit, Zenon
  <2>. QED  BY <2>0, <2>1, <2>2, <2>3 DEF i
<1>8. <<LastBlock>> \in Seq(Wrapper)
  <2>. DEFINE x == LastBlock
  <2>1. x \in Wrapper
    BY WrapperTokens
  <2>. HIDE DEF x
  <2>2. <<x>> \in Seq(Wrapper)
    BY ONLY <2>1
  <2>. QED  BY <2>2 DEF x
<1>. DEFINE D == DeflateBody(pos) \o <<LastBlock>>
<1>9. D \in Seq(Token) /\ BytesIn(D) = Input(pos)
  BY <1>4, <1>5, <1>7, <1>8
<1>10. ASSUME NEW w, NEW s, w \in Seq(Token), Matches(w, s), BytesIn(s) = Input(pos)
       PROVE  BytesIn(w) = Input(pos)
  BY <1>10, MarksCarryNothing DEF Matches
<1>. HIDE DEF D
<1>11. CASE enc.state = "HEADER"
  <2>1. pos = 0 /\ out = Take(enc.hdr, enc.hdr_pos) /\ z.held = <<>> /\ z.pend = <<>>
    BY <1>3, <1>11 DEF DeflateOk, z
  <2>2. out \in Seq(Wrapper)
    <3>1. enc.hdr \in Seq(Wrapper) /\ enc.hdr_pos \in Nat /\ enc.hdr_pos <= Len(enc.hdr)
      BY <1>1, DeflateFields DEF DeflateOk
    <3>. QED  BY <2>1, <3>1, Cut
  <2>3. BytesIn(out) = <<>> /\ BytesIn(<<>>) = <<>> /\ Input(0) = <<>>
    BY <2>2, WrappersCarryNothing, NothingCarried
  <2>4. <<>> \o <<>> \o <<>> = <<>>
    OBVIOUS
  <2>. QED  BY <2>1, <2>3, <2>4 DEF z
<1>12. CASE enc.state = "BODY"
  <2>. DEFINE i == Image(z)
  <2>1. Matches(out \o i, IF z.finishing THEN D ELSE DeflateBody(pos))
    BY <1>3, <1>12 DEF DeflateOk, z, D
  <2>2. i \in Seq(Token)
    <3>. DEFINE C == Compressed(z.held, z.level)
                l == z.lead
                p == z.pend
    <3>1. l \in Seq(Token) /\ C \in Seq(Token) /\ p \in Seq(Token)
      BY <1>2, WrappersAreTokens, CompressedType
    <3>2. i = (p \o l) \o C
      BY DEF Image
    <3>. HIDE DEF l, C, p, i
    <3>3. p \o l \in Seq(Token)
      BY ONLY <3>1, Cat, Zenon
    <3>. QED  BY ONLY <3>1, <3>2, <3>3, Cat, Zenon
  <2>. HIDE DEF i
  <2>3. out \o i \in Seq(Token)
    BY ONLY <2>2, out \in Seq(Token), Cat
  <2>4. BytesIn(out \o i) = Input(pos)
    BY <1>5, <1>9, <1>10, <2>1, <2>3
  <2>5. BytesIn(out \o i) = BytesIn(out) \o BytesIn(z.pend) \o z.held
    BY <1>2, ImageCarries DEF i
  <2>. QED  BY <2>4, <2>5 DEF z
<1>13. CASE enc.state \in {"TRAILER", "DONE"}
  <2>1. z.held = <<>> /\ z.pend = <<>>
    BY <1>13 DEF DeflateOk, z
  <2>2. BytesIn(out) = Input(pos)
    <3>1. CASE enc.state = "TRAILER"
      <4>. DEFINE t == Take(enc.tail, enc.tail_pos)
      <4>1. Matches(out, D \o t)
        BY <3>1 DEF DeflateOk, D
      <4>2. t \in Seq(Wrapper)
        <5>1. enc.tail \in Seq(Wrapper) /\ enc.tail_pos \in Nat /\ enc.tail_pos <= Len(enc.tail)
          BY <1>1, DeflateFields DEF DeflateOk
        <5>. QED  BY <5>1, Cut
      <4>. HIDE DEF t
      <4>. QED  BY <1>7, <1>9, <1>10, <4>1, <4>2
    <3>2. CASE enc.state = "DONE"
      <4>. DEFINE t == TrailerBytes(SumOf(pos), pos)
      <4>1. Matches(out, DeflateStream(pos, asked)) /\ DeflateStream(pos, asked) = D \o t
        BY <3>2, DeflateParts DEF DeflateOk, D
      <4>2. t \in Seq(Wrapper)
        <5>1. SumOf(pos) \in Int /\ pos \in Int
          BY SumIs
        <5>. QED  BY <5>1, TrailerIs
      <4>. HIDE DEF t
      <4>. QED  BY <1>7, <1>9, <1>10, <4>1, <4>2
    <3>. QED  BY <1>13, <3>1, <3>2
  <2>3. BytesIn(<<>>) = <<>>
    BY NothingCarried
  <2>. DEFINE i == Input(pos)
  <2>4. i \in Seq(Int) /\ BytesIn(out) = i
    BY <1>6, <2>2
  <2>. HIDE DEF i
  <2>5. i \o <<>> = i
    BY ONLY <2>4, Unit, Zenon
  <2>. QED  BY <2>1, <2>3, <2>4, <2>5 DEF z, i
<1>14. enc.state \in {"HEADER", "BODY", "TRAILER", "DONE"}
  BY <1>1, DeflateFields
<1>. QED  BY <1>11, <1>12, <1>13, <1>14

\* An lz4 frame: what it has delivered, what is staged, what liblz4 holds.
LEMMA FrameNothingLost ==
    ASSUME NEW fin, FrameOk(pos, out, enc, fin), FrameWire(pos, out, enc),
           pos \in Nat, asked \in Int, out \in Seq(Token)
    PROVE  BytesIn(out) \o BytesIn(Drop(enc.stage, enc.stage_pos))
             \o (IF enc.started THEN enc.cctx.held ELSE <<>>) = Input(pos)
<1>. DEFINE D == Drop(enc.stage, enc.stage_pos)
            c == enc.cctx
<1>1. /\ enc.size \in Int /\ enc.started \in BOOLEAN /\ enc.ended \in BOOLEAN
      /\ enc.stage \in Seq(Token) /\ enc.stage_pos \in Nat /\ c \in FrameContexts
      /\ enc.stage_pos <= Len(enc.stage) /\ c.pend = <<>>
  BY FrameFields DEF FrameOk
<1>2. c.lead = <<>> /\ c.held \in Seq(Int) /\ c.level \in Int
  BY <1>1 DEF FrameContexts
<1>3. D \in Seq(Token)
  <2>. DEFINE s == enc.stage
              k == enc.stage_pos
  <2>1. s \in Seq(Token) /\ k \in 0 .. Len(s)
    BY <1>1
  <2>. HIDE DEF s, k
  <2>2. Drop(s, k) \in Seq(Token)
    BY ONLY <2>1, Cut, Zenon
  <2>. QED  BY <2>2 DEF D, s, k
<1>. HIDE DEF D, c
<1>4. CASE enc.started
  <2>. DEFINE i == Image(c)
  <2>1. out \o D \o i = FrameSoFar(enc.size, pos, enc.ended)
    BY <1>4 DEF FrameWire, D, c
  <2>2. c.pend \in Seq(Token) /\ c.lead \in Seq(Wrapper) /\ BytesIn(c.pend) = <<>>
    <3>1. <<>> \in Seq(Token) /\ <<>> \in Seq(Wrapper)
      OBVIOUS
    <3>. QED  BY <1>1, <1>2, <3>1, NothingCarried
  <2>3. out \o D \in Seq(Token) /\ BytesIn(out \o D) = BytesIn(out) \o BytesIn(D)
        /\ BytesIn(out) \in Seq(Int) /\ BytesIn(D) \in Seq(Int)
    BY ONLY <1>3, out \in Seq(Token), BytesInConcat, Cat
  <2>. DEFINE q == out \o D
              y == BytesIn(out) \o BytesIn(D)
  <2>4. q \in Seq(Token) /\ BytesIn(q) = y
    BY <2>3
  <2>. HIDE DEF q, i
  <2>5. BytesIn(q \o i) = BytesIn(q) \o BytesIn(c.pend) \o c.held
    BY <1>2, <2>2, <2>4, ImageCarries DEF i
  <2>6. y \in Seq(Int)
    <3>. DEFINE u == BytesIn(out)
                v == BytesIn(D)
    <3>1. u \in Seq(Int) /\ v \in Seq(Int)
      BY <2>3
    <3>. HIDE DEF u, v
    <3>2. u \o v \in Seq(Int)
      BY ONLY <3>1
    <3>. QED  BY <3>2 DEF u, v
  <2>. HIDE DEF y
  <2>7. y \o <<>> = y
    BY ONLY <2>6, Unit, Zenon
  <2>8. q \o i = FrameSoFar(enc.size, pos, enc.ended)
    BY <2>1 DEF q
  <2>9. BytesIn(FrameSoFar(enc.size, pos, enc.ended)) = Input(pos)
    BY <1>1, FrameCarries
  <2>. QED  BY <1>4, <2>2, <2>4, <2>5, <2>7, <2>8, <2>9 DEF y, D, c
<1>5. CASE ~enc.started
  <2>1. enc.stage = <<>> /\ pos = 0 /\ out = <<>>
    BY <1>5 DEF FrameOk
  <2>2. D = <<>>
    <3>1. Len(<<>>) = 0
      OBVIOUS
    <3>2. enc.stage_pos = 0
      BY <1>1, <2>1, <3>1
    <3>3. Len(D) = 0
      BY <1>1, <2>1, <3>1, <3>2 DEF D, Drop
    <3>. QED  BY <1>3, <3>3
  <2>3. BytesIn(<<>>) = <<>> /\ Input(0) = <<>>
    BY NothingCarried
  <2>4. <<>> \o <<>> \o <<>> = <<>>
    OBVIOUS
  <2>. QED  BY <1>5, <2>1, <2>2, <2>3, <2>4 DEF D
<1>. QED  BY <1>1, <1>4, <1>5

\* A zstd frame.
LEMMA ZstdNothingLost ==
    ASSUME NEW fin, ZstdOk(pos, out, enc, fin), pos \in Nat, asked \in Int, out \in Seq(Token)
    PROVE  BytesIn(out) \o BytesIn(enc.cctx.pend) \o enc.cctx.held = Input(pos)
<1>. DEFINE c == enc.cctx
<1>1. c \in ZstdContexts /\ enc.done \in BOOLEAN
  BY DEF ZstdOk, ZstdStates
<1>2. /\ c.pend \in Seq(Token) /\ c.lead \in Seq(Wrapper) /\ c.held \in Seq(Int)
      /\ c.level \in Int /\ c.size \in Int /\ c.begun \in BOOLEAN
  BY <1>1, ZstdFields
<1>3. CASE c.begun
  <2>1. out \o Image(c) = FrameSoFar(c.size, pos, c.ending)
    BY <1>3 DEF ZstdOk, ZstdFrame
  <2>. HIDE DEF c
  <2>2. BytesIn(out \o Image(c)) = BytesIn(out) \o BytesIn(c.pend) \o c.held
    BY <1>2, ImageCarries
  <2>3. BytesIn(FrameSoFar(c.size, pos, c.ending)) = Input(pos)
    BY <1>2, FrameCarries
  <2>. QED  BY <2>1, <2>2, <2>3 DEF c
<1>4. CASE ~c.begun
  <2>1. c.pend = <<>> /\ c.held = <<>>
    BY <1>4 DEF ZstdOk, Session
  <2>2. BytesIn(out) = Input(pos)
    <3>1. CASE enc.done
      <4>1. out \in ZstdStreams(pos, asked)
        BY <3>1 DEF ZstdOk
      <4>2. ZstdStreams(pos, asked) = {FrameSoFar(size, pos, TRUE) : size \in {Unpledged, pos}}
        BY ZstdStreamsAre
      <4>3. PICK size \in {Unpledged, pos} : out = FrameSoFar(size, pos, TRUE)
        BY ONLY <4>1, <4>2, Zenon
      <4>4. size \in Int
        BY DEF Unpledged
      <4>. QED  BY <4>3, <4>4, FrameCarries
    <3>2. CASE ~enc.done
      <4>1. pos = 0 /\ out = <<>>
        BY <1>4, <3>2 DEF ZstdOk
      <4>. QED  BY <4>1, NothingCarried
    <3>. QED  BY <3>1, <3>2
  <2>. DEFINE i == Input(pos)
  <2>3. i \in Seq(Int) /\ BytesIn(out) = i
    BY <2>2, InputType
  <2>. HIDE DEF i
  <2>4. i \o <<>> = i
    BY ONLY <2>3, Unit, Zenon
  <2>. QED  BY <2>1, <2>3, <2>4, NothingCarried DEF i
<1>. QED  BY <1>3, <1>4

\* A block: all of it waits for the end, then none.
LEMMA BlockNothingLost ==
    ASSUME NEW fin, BlockCodecOk(pos, out, enc, fin), pos \in Nat, asked \in Int, out \in Seq(Token)
    PROVE  BytesIn(out) \o BytesIn(Drop(enc.stage, enc.stage_pos)) \o enc.in = Input(pos)
<1>. DEFINE D == Drop(enc.stage, enc.stage_pos)
            i == Input(pos)
<1>1. /\ enc.stage \in Seq(Token) /\ enc.stage_pos \in Nat /\ enc.stage_pos <= Len(enc.stage)
      /\ enc.done \in BOOLEAN
  BY DEF BlockCodecOk, BlockStates
<1>2. D \in Seq(Token)
  <2>. DEFINE s == enc.stage
              k == enc.stage_pos
  <2>1. s \in Seq(Token) /\ k \in 0 .. Len(s)
    BY <1>1
  <2>. HIDE DEF s, k
  <2>2. Drop(s, k) \in Seq(Token)
    BY ONLY <2>1, Cut, Zenon
  <2>. QED  BY <2>2 DEF D, s, k
<1>3. i \in Seq(Int)
  BY InputType
<1>4. CASE enc.done
  <2>1. enc.in = <<>> /\ out \o D = Lz4BlockStream(pos, asked)
    BY <1>4 DEF BlockCodecOk
  <2>2. BytesIn(Lz4BlockStream(pos, asked)) = i
    <3>. DEFINE C == Compressed(Input(pos), asked)
                x == <<"last", 0, 0>>
    <3>1. C \in Seq(Token)
      BY CompressedInput
    <3>2. x \in Wrapper
      BY DEF Wrapper, Wrapping
    <3>3. Lz4BlockStream(pos, asked) = Append(C, x)
      BY DEF Lz4BlockStream, Input
    <3>4. x \in Token
      BY <3>2, WrapperParts
    <3>5. <<>> \in Seq(Wrapper) /\ BytesIn(C) = i /\ BytesIn(<<>> \o C) = i
      BY CompressedCarries, InputType, StreamCarries, SMTT(40)
    <3>. HIDE DEF x, C
    <3>6. <<x>> \in Seq(Wrapper)
      BY ONLY <3>2
    <3>7. Append(C, x) = C \o <<x>> /\ <<x>> \in Seq(Token)
      BY ONLY <3>1, <3>4
    <3>8. BytesIn(<<x>>) = <<>>
      BY <3>6, WrappersCarryNothing
    <3>. DEFINE t == <<x>>
    <3>9. t \in Seq(Token) /\ BytesIn(t) = <<>>
      BY <3>7, <3>8
    <3>. HIDE DEF t
    <3>10. BytesIn(C \o t) = BytesIn(C) \o BytesIn(t)
      BY ONLY <3>1, <3>9, BytesInConcat
    <3>. HIDE DEF i
    <3>11. i \o <<>> = i
      BY ONLY <1>3, Unit, Zenon
    <3>. QED  BY <3>3, <3>5, <3>7, <3>9, <3>10, <3>11 DEF t
  <2>. HIDE DEF D, i
  <2>3. BytesIn(out \o D) = BytesIn(out) \o BytesIn(D)
    BY ONLY <1>2, out \in Seq(Token), BytesInConcat
  <2>4. i \o <<>> = i
    BY ONLY <1>3, Unit, Zenon
  <2>. QED  BY <2>1, <2>2, <2>3, <2>4 DEF D, i
<1>5. CASE ~enc.done
  <2>1. enc.in = i /\ out = <<>> /\ enc.stage = <<>>
    BY <1>5 DEF BlockCodecOk
  <2>2. D = <<>>
    <3>1. Len(<<>>) = 0
      OBVIOUS
    <3>2. enc.stage_pos = 0
      BY <1>1, <2>1, <3>1
    <3>3. Len(D) = 0
      BY <1>1, <2>1, <3>1, <3>2 DEF D, Drop
    <3>. QED  BY <1>2, <3>3
  <2>3. BytesIn(<<>>) = <<>> /\ <<>> \o <<>> = <<>>
    BY NothingCarried
  <2>. HIDE DEF D, i
  <2>4. <<>> \o i = i
    BY ONLY <1>3, Unit, Zenon
  <2>. QED  BY <2>1, <2>2, <2>3, <2>4 DEF D, i
<1>. QED  BY <1>1, <1>4, <1>5

\* No input is lost, repeated or reordered on its way to the wire.
LEMMA InvLosesNothing == Inv => NothingLost
<1>. SUFFICES ASSUME Inv, Opened, Usable, result # ZU_ERR_MEMORY
              PROVE  BytesIn(out) \o BytesIn(Undelivered) \o HeldBack = Input(pos)
  BY DEF NothingLost, Input
<1>1. EncOk(pos, out, enc, finished) /\ (IsFrame => FrameWire(pos, out, enc))
  BY OpenedIs
<1>2. job.codec \in DOMAIN CodecTable /\ pos \in Nat /\ asked \in Int /\ out \in Seq(Token)
  BY OpenedIs
<1>3. CASE IsDeflate
  <2>1. DeflateOk(pos, out, enc, finished) /\ enc.mz.live
    BY <1>1, <1>3 DEF EncOk, Usable
  <2>. QED  BY <1>2, <1>3, <2>1, DeflateNothingLost, WaitingIs
<1>4. CASE IsFrame
  <2>1. FrameOk(pos, out, enc, finished) /\ FrameWire(pos, out, enc)
    BY <1>1, <1>4 DEF EncOk
  <2>. QED  BY <1>2, <1>4, <2>1, FrameNothingLost, WaitingIs
<1>5. CASE IsZstd
  <2>1. ZstdOk(pos, out, enc, finished)
    BY <1>1, <1>5 DEF EncOk
  <2>. QED  BY <1>2, <1>5, <2>1, ZstdNothingLost, WaitingIs
<1>6. CASE IsBlock
  <2>1. BlockCodecOk(pos, out, enc, finished)
    BY <1>1, <1>6 DEF EncOk
  <2>. QED  BY <1>2, <1>6, <2>1, BlockNothingLost, WaitingIs
<1>7. CASE IsIdentity
  <2>. DEFINE i == Input(pos)
  <2>1. out = Compressed(i, 0)
    BY <1>1, <1>7 DEF EncOk, IdentityOk
  <2>2. i \in Seq(Int) /\ 0 \in Int
    BY <1>2, InputType
  <2>. HIDE DEF i
  <2>3. BytesIn(out) = i
    BY <2>1, <2>2, CompressedCarries
  <2>4. i \o <<>> = i
    BY ONLY <2>2, Unit, Zenon
  <2>. QED  BY <1>2, <1>7, <2>3, <2>4, NothingCarried, WaitingIs DEF i
<1>. QED  BY <1>2, <1>3, <1>4, <1>5, <1>6, <1>7, Kinds

----------------------------------------------------------------------------
(***************************************************************************)
(* The loops drive the handle as ZuEncoder specifies it.                   *)
(***************************************************************************)
\* The codec is asked, and goes on or returns one of the statuses.
CodecTurns ==
    /\ Asked
    /\ \E p, o, e : Continue(p, o, e) \/ \E st \in Status : Return(st, p, o, e)

\* The statuses the codecs name.
LEMMA StatusesAre ==
    /\ ZU_OK \in Status /\ ZU_NEED_INPUT \in Status /\ ZU_NEED_OUTPUT \in Status
    /\ ZU_STREAM_END \in Status /\ ZU_ERR_MEMORY \in Status /\ ZU_ERR_INTERNAL \in Status
    /\ ZU_ERR_INVALID_DATA \in Status /\ ZU_ERR_INVALID_ARGUMENT \in Status
    /\ ZU_ERR_MEMORY # ZU_OK /\ NotAsked # ZU_STREAM_END
BY DEF Status, Progress, Errors, NotAsked, ZU_OK, ZU_NEED_INPUT, ZU_NEED_OUTPUT, ZU_STREAM_END,
       ZU_ERR_MEMORY, ZU_ERR_INTERNAL, ZU_ERR_INVALID_DATA, ZU_ERR_INVALID_ARGUMENT

\* Going on and returning are what a turn is.
LEMMA TurnsAre ==
    ASSUME Asked
    PROVE  /\ \A p, o, e : Continue(p, o, e) => CodecTurns
           /\ \A st \in Status : \A p, o, e : Return(st, p, o, e) => CodecTurns
BY DEF CodecTurns

\* Every step of a codec is such a turn.
LEMMA DeflateTurns ==
    ASSUME EncodeHeader \/ EncodeBody \/ EncodeTrailer
    PROVE  CodecTurns
<1>1. Asked
  BY DEF EncodeHeader, EncodeBody, EncodeTrailer, DeflateIn
<1>2. CASE EncodeHeader
  BY <1>1, <1>2, TurnsAre, StatusesAre DEF EncodeHeader
<1>3. CASE EncodeTrailer
  BY <1>1, <1>3, TurnsAre, StatusesAre DEF EncodeTrailer
<1>4. CASE EncodeBody
  <2>1. CASE AvailOut = 0 \/ ~enc.mz.live
    BY <1>1, <1>4, <2>1, TurnsAre, StatusesAre DEF EncodeBody
  <2>2. CASE ~(AvailOut = 0 \/ ~enc.mz.live)
    <3>1. PICK d :
            \/ Return(ZU_STREAM_END, pos + d.used, out \o d.bytes, AfterEnd(AfterMiniz(d)))
            \/ Continue(pos + d.used, out \o d.bytes, AfterEnd(AfterMiniz(d)))
            \/ Return(BodyStuck(fed - (pos + d.used)), pos + d.used, out \o d.bytes, AfterMiniz(d))
            \/ Continue(pos + d.used, out \o d.bytes, AfterMiniz(d))
      BY <1>4, <2>2 DEF EncodeBody
    <3>2. \A left : BodyStuck(left) \in Status
      BY StatusesAre DEF BodyStuck
    <3>. QED  BY <1>1, <3>1, <3>2, TurnsAre, StatusesAre
  <2>. QED  BY <2>1, <2>2
<1>. QED  BY <1>2, <1>3, <1>4

\* An lz4 frame's turn.
LEMMA FrameTurns ==
    ASSUME FrameTurn
    PROVE  CodecTurns
<1>1. Asked
  BY DEF FrameTurn
<1>2. \A st \in Status : \A p, o, e : FrameReturn(st, p, o, e) => CodecTurns
  BY <1>1, TurnsAre DEF FrameReturn
<1>3. \A p, o, e, c : Staged(p, o, e, c) => CodecTurns
  BY <1>1, TurnsAre DEF Staged
<1>4. PICK d : IF ~d.done THEN FrameReturn(ZU_NEED_OUTPUT, pos, d.out, d.e)
               ELSE IF d.e.done \/ d.e.ended
                 THEN FrameReturn(ZU_STREAM_END, pos, d.out, [d.e EXCEPT !.done = TRUE])
               ELSE IF ~d.e.started THEN FrameBegin(d.out, d.e)
               ELSE IF AvailIn > 0 THEN FrameUpdate(d.out, d.e)
               ELSE IF flush = ZU_FINISH THEN FrameEnd(d.out, d.e)
               ELSE IF flush = ZU_FLUSH /\ ~d.e.flushed THEN FrameFlush(d.out, d.e)
               ELSE FrameReturn(ZU_NEED_INPUT, pos, d.out, d.e)
  BY DEF FrameTurn
<1>5. \A o, e : FrameBegin(o, e) => CodecTurns
  BY <1>2, <1>3, StatusesAre DEF FrameBegin
<1>6. \A o, e : FrameEnd(o, e) => CodecTurns
  BY <1>2, <1>3, StatusesAre DEF FrameEnd
<1>7. \A o, e : FrameUpdate(o, e) => CodecTurns
  BY <1>3 DEF FrameUpdate
<1>8. \A o, e : FrameFlush(o, e) => CodecTurns
  BY <1>3 DEF FrameFlush
<1>. QED  BY <1>2, <1>4, <1>5, <1>6, <1>7, <1>8, StatusesAre

\* A block's turn.
LEMMA BlockTurns ==
    ASSUME BlockTurn
    PROVE  CodecTurns
<1>1. Asked
  BY DEF BlockTurn
<1>2. \A b : (IF b THEN ZU_STREAM_END ELSE ZU_NEED_OUTPUT) \in Status
  BY StatusesAre
<1>3. \A in : BlockStaged(in) => CodecTurns
  BY <1>1, <1>2, TurnsAre DEF BlockStaged
<1>4. \A in : BlockStagingFails(in) => CodecTurns
  BY <1>1, StatusesAre, TurnsAre DEF BlockStagingFails
<1>5. CASE enc.done
  BY <1>1, <1>2, <1>5, TurnsAre DEF BlockTurn
<1>6. CASE ~enc.done /\ flush = ZU_FINISH /\ OneShotBlock
  BY <1>1, <1>6, StatusesAre, TurnsAre DEF BlockTurn
<1>7. CASE ~enc.done /\ ~(flush = ZU_FINISH /\ OneShotBlock)
  <2>1. PICK g \in Gather :
          IF g[1] # ZU_OK \/ flush # ZU_FINISH
            THEN Return(IF g[1] # ZU_OK THEN g[1] ELSE ZU_NEED_INPUT,
                        Gathered(g), out, [enc EXCEPT !.in = g[2]])
            ELSE BlockStaged(g[2]) \/ BlockStagingFails(g[2])
    BY <1>7 DEF BlockTurn
  <2>2. g[1] \in Status
    BY StatusesAre DEF Gather
  <2>3. (IF g[1] # ZU_OK THEN g[1] ELSE ZU_NEED_INPUT) \in Status
    BY <2>2, StatusesAre
  <2>. QED  BY <1>1, <1>3, <1>4, <2>1, <2>3, TurnsAre
<1>. QED  BY <1>5, <1>6, <1>7

\* A zstd turn.
LEMMA ZstdTurns ==
    ASSUME ZstdTurn \/ ZstdNoMemory
    PROVE  CodecTurns
<1>1. Asked
  BY DEF ZstdTurn, ZstdNoMemory
<1>2. CASE ZstdNoMemory
  BY <1>1, <1>2, StatusesAre, TurnsAre DEF ZstdNoMemory
<1>3. CASE ZstdTurn
  <2>1. \A a, b, c : ZstdStatus(a, b, c) \in Status \cup {Running}
    BY StatusesAre DEF ZstdStatus
  <2>2. PICK st, p, o, e : /\ st \in Status \cup {Running}
                           /\ \/ Return(ZU_STREAM_END, pos, out, enc)
                              \/ Return(ZU_ERR_INTERNAL, pos, out, enc)
                              \/ st = Running /\ Continue(p, o, e)
                              \/ st # Running /\ Return(st, p, o, e)
    BY <1>3, <2>1 DEF ZstdTurn
  <2>. QED  BY <1>1, <2>2, StatusesAre, TurnsAre
<1>. QED  BY <1>2, <1>3

\* The identity codec's turn.
LEMMA IdentityTurns ==
    ASSUME IdentityTurn
    PROVE  CodecTurns
<1>1. Asked
  BY DEF IdentityTurn
<1>2. \A left : IdentityStatus(left) \in Status
  BY StatusesAre DEF IdentityStatus
<1>. QED  BY <1>1, <1>2, TurnsAre DEF IdentityTurn

\* The handle's module brings its own copy of the vocabulary and of the rules
\* around the codec: the same words and the same rules.
LEMMA HandleWords ==
    /\ Handle!ZU_OK = ZU_OK /\ Handle!ZU_STREAM_END = ZU_STREAM_END
    /\ Handle!ZU_ERR_INVALID_ARGUMENT = ZU_ERR_INVALID_ARGUMENT
    /\ Handle!ZU_ERR_UNSUPPORTED = ZU_ERR_UNSUPPORTED
    /\ Handle!ZU_FLUSH = ZU_FLUSH /\ Handle!Flush = Flush
    /\ Handle!NotAsked = NotAsked /\ Handle!Status = Status
    /\ \A op, status, st, left : Handle!Answer(op, status, st, left) = Answer(op, status, st, left)
<1>1. Handle!Status = Status
  BY DEF Status, Progress, Errors, ZU_OK, ZU_NEED_INPUT, ZU_NEED_OUTPUT, ZU_STREAM_END,
         ZU_ERR_INVALID_ARGUMENT, ZU_ERR_UNSUPPORTED, ZU_ERR_INVALID_DATA, ZU_ERR_TRUNCATED,
         ZU_ERR_CHECKSUM, ZU_ERR_TRAILING, ZU_ERR_MEMORY, ZU_ERR_OUTPUT_LIMIT,
         ZU_ERR_RATIO_LIMIT, ZU_ERR_INTERNAL,
         Handle!Status, Handle!Progress, Handle!Errors, Handle!ZU_OK, Handle!ZU_NEED_INPUT,
         Handle!ZU_NEED_OUTPUT, Handle!ZU_STREAM_END, Handle!ZU_ERR_INVALID_ARGUMENT,
         Handle!ZU_ERR_UNSUPPORTED, Handle!ZU_ERR_INVALID_DATA, Handle!ZU_ERR_TRUNCATED,
         Handle!ZU_ERR_CHECKSUM, Handle!ZU_ERR_TRAILING, Handle!ZU_ERR_MEMORY,
         Handle!ZU_ERR_OUTPUT_LIMIT, Handle!ZU_ERR_RATIO_LIMIT, Handle!ZU_ERR_INTERNAL
<1>2. Handle!Flush = Flush
  BY DEF Flush, ZU_RUN, ZU_FLUSH, ZU_FINISH, Handle!Flush, Handle!ZU_RUN, Handle!ZU_FLUSH,
         Handle!ZU_FINISH
<1>. QED  BY <1>1, <1>2 DEF ZU_OK, ZU_STREAM_END, ZU_ERR_INVALID_ARGUMENT, ZU_ERR_UNSUPPORTED,
       ZU_FLUSH, NotAsked, Answer, Handle!ZU_OK, Handle!ZU_STREAM_END,
       Handle!ZU_ERR_INVALID_ARGUMENT, Handle!ZU_ERR_UNSUPPORTED, Handle!ZU_FLUSH,
       Handle!NotAsked, Handle!Answer

\* ... and the rules.
LEMMA HandleRules ==
    /\ \A v, lv : Handle!CheckLevel(v, lv) = CheckLevel(v, lv)
    /\ \A v, fin, fl : Handle!Refused(v, fin, fl) = Refused(v, fin, fl)
    /\ \A fin, left : Handle!Refusal(fin, left) = Refusal(fin, left)
<1>1. \A v, lv : Handle!CheckLevel(v, lv) = CheckLevel(v, lv)
  BY DEF CheckLevel, NoLevels, Handle!CheckLevel, Handle!NoLevels
<1>2. \A v, fin, fl : Handle!Refused(v, fin, fl) = Refused(v, fin, fl)
  BY HandleWords DEF Refused, Handle!Refused
<1>3. \A fin, left : Handle!Refusal(fin, left) = Refusal(fin, left)
  BY HandleWords DEF Refusal, Handle!Refusal
<1>. QED  BY <1>1, <1>2, <1>3

\* Whether there is a handle.
Live == IF pc \in {"open", "closed"} THEN "none" ELSE "live"

\* What the handle does not see.
LEMMA HandleStutters ==
    ASSUME UNCHANGED <<job, level, finished, last>>, Live' = Live
    PROVE  UNCHANGED Handle!vars
BY DEF Handle!vars, Live

\* The built-in codec a job names is registered, encodes and resets.
LEMMA CodecIs ==
    ASSUME Inv
    PROVE  /\ job.codec \in DOMAIN CodecTable /\ job.level \in Int
           /\ CheckLevel(CodecTable[job.codec], job.level)
           /\ Handle!Resolves(job.codec) /\ CodecTable[job.codec].has_reset
           /\ [size |-> "full", codec |-> job.codec, level |-> job.level] \in OptionsGiven
           /\ \A lv \in LevelsTried \cup {ZU_LEVEL_DEFAULT} :
                [size |-> "full", codec |-> job.codec, level |-> lv] \in OptionsGiven
<1>1. job \in Jobs
  BY DEF Inv, LoopInv
<1>2. /\ job.codec \in DOMAIN CodecTable /\ job.level \in Int
      /\ CheckLevel(CodecTable[job.codec], job.level)
  BY <1>1, JobIs
<1>3. /\ CodecTable[job.codec].registered /\ CodecTable[job.codec].can_encode
      /\ CodecTable[job.codec].has_reset
  BY <1>2, CodecTableAssumption
<1>4. Handle!Resolves(job.codec)
  BY <1>3 DEF Handle!Resolves
<1>. QED  BY <1>1, <1>2, <1>3, <1>4 DEF OptionsGiven

\* zu_encoder_new.
LEMMA OpenIsNew ==
    ASSUME Inv, NEW state, Open(state)
    PROVE  Handle!Next
<1>. DEFINE g == [size |-> "full", codec |-> job.codec, level |-> job.level]
<1>1. /\ pc = "open" /\ UNCHANGED <<job, finished>>
      /\ \/ pc' = "call" /\ level' = job.level /\ last' = Answer("new", ZU_OK, ZU_OK, 0)
         \/ /\ pc' = "closed" /\ level' = level
            /\ last' = Answer("new", ZU_ERR_MEMORY, ZU_ERR_MEMORY, 0)
  BY DEF Open
<1>2. finished = FALSE
  BY <1>1 DEF Inv, LoopInv
<1>3. /\ g \in OptionsGiven /\ Handle!Resolves(g.codec) /\ g.codec = job.codec
      /\ g.size # "short" /\ g.level = job.level
      /\ Handle!CheckLevel(CodecTable[g.codec], g.level)
  BY CodecIs, HandleRules
<1>. HIDE DEF g
<1>4. Live = "none"
  BY <1>1 DEF Live
<1>5. CASE pc' = "call" /\ level' = job.level /\ last' = Answer("new", ZU_OK, ZU_OK, 0)
  <2>1. Live' = "live"
    BY <1>5 DEF Live
  <2>2. Handle!New(g, ZU_OK)
    BY <1>1, <1>2, <1>3, <1>4, <1>5, <2>1, HandleWords DEF Handle!New, Live
  <2>. QED  BY <1>3, <1>4, <2>2, HandleWords, StatusesAre DEF Handle!Next, Live
<1>6. CASE /\ pc' = "closed" /\ level' = level
           /\ last' = Answer("new", ZU_ERR_MEMORY, ZU_ERR_MEMORY, 0)
  <2>1. Live' = "none"
    BY <1>6 DEF Live
  <2>2. Handle!Refuse("new", ZU_ERR_MEMORY, ZU_ERR_MEMORY, 0)
    BY <1>1, <1>4, <1>6, <2>1, HandleWords DEF Handle!Refuse, Handle!stream, Live
  <2>3. Handle!New(g, ZU_ERR_MEMORY)
    BY <1>3, <1>4, <2>2, StatusesAre, HandleWords DEF Handle!New, Live
  <2>. QED  BY <1>3, <1>4, <2>3, HandleWords, StatusesAre DEF Handle!Next, Live
<1>. QED  BY <1>1, <1>5, <1>6

\* zu_encoder_reset, with new options or with the handle's own.
LEMMA ResetIsReset ==
    ASSUME Inv, NEW outcomes, ResetByCaller(outcomes),
           \A lv \in ResetLevels : \A r \in outcomes[lv] : r[1] \in Status
    PROVE  Handle!Next
<1>1. /\ pc = "call" /\ UNCHANGED <<job, pc>>
  BY DEF ResetByCaller
<1>2. PICK lv \in ResetLevels :
        IF ~CheckLevel(CodecTable[job.codec], lv)
          THEN ResetFails(ZU_ERR_INVALID_ARGUMENT, NotAsked, enc)
          ELSE \E r \in outcomes[lv] :
                 IF r[1] # ZU_OK THEN ResetFails(r[1], r[1], r[2])
                 ELSE /\ last' = Answer("reset", ZU_OK, ZU_OK, 0)
                      /\ finished' = FALSE
                      /\ level' = lv
  BY DEF ResetByCaller
<1>3. Live = "live" /\ Live' = "live"
  BY <1>1 DEF Live
<1>4. ASSUME NEW status, NEW st, NEW e, ResetFails(status, st, e)
      PROVE  Handle!Refuse("reset", status, st, 0)
  <2>1. UNCHANGED <<level, finished>> /\ last' = Answer("reset", status, st, 0)
    BY <1>4 DEF ResetFails
  <2>. QED  BY <1>1, <1>3, <2>1, HandleWords DEF Handle!Refuse, Handle!stream, Live
<1>5. PICK st \in Status : Handle!ResetTo(job.codec, lv, st)
  <2>1. CASE ~CheckLevel(CodecTable[job.codec], lv)
    <3>1. Handle!Refuse("reset", ZU_ERR_INVALID_ARGUMENT, NotAsked, 0)
      BY <1>2, <1>4, <2>1
    <3>2. Handle!ResetTo(job.codec, lv, ZU_OK)
      BY <2>1, <3>1, HandleWords, HandleRules DEF Handle!ResetTo
    <3>. QED  BY <3>2, StatusesAre
  <2>2. CASE CheckLevel(CodecTable[job.codec], lv)
    <3>1. PICK r \in outcomes[lv] :
            IF r[1] # ZU_OK THEN ResetFails(r[1], r[1], r[2])
            ELSE /\ last' = Answer("reset", ZU_OK, ZU_OK, 0)
                 /\ finished' = FALSE
                 /\ level' = lv
      BY <1>2, <2>2
    <3>2. r[1] \in Status
      OBVIOUS
    <3>3. Handle!CheckLevel(CodecTable[job.codec], lv) /\ CodecTable[job.codec].has_reset
      BY <2>2, CodecIs, HandleRules
    <3>4. CASE r[1] # ZU_OK
      <4>1. Handle!Refuse("reset", r[1], r[1], 0)
        BY <1>4, <3>1, <3>4
      <4>2. Handle!ResetTo(job.codec, lv, r[1])
        BY <3>3, <3>4, <4>1, HandleWords DEF Handle!ResetTo
      <4>. QED  BY <3>2, <4>2
    <3>5. CASE r[1] = ZU_OK
      <4>1. Handle!ResetTo(job.codec, lv, ZU_OK)
        BY <1>1, <1>3, <3>1, <3>3, <3>5, HandleWords DEF Handle!ResetTo, Live
      <4>. QED  BY <4>1, StatusesAre
    <3>. QED  BY <3>4, <3>5
  <2>. QED  BY <2>1, <2>2
<1>6. CASE lv = level
  <2>1. Handle!ResetSame(st)
    BY <1>3, <1>5, <1>6 DEF Handle!ResetSame, Live
  <2>. QED  BY <2>1, HandleWords DEF Handle!Next
<1>7. CASE lv \in LevelsTried \cup {ZU_LEVEL_DEFAULT}
  <2>. DEFINE g == [size |-> "full", codec |-> job.codec, level |-> lv]
  <2>1. g \in OptionsGiven /\ g.size # "short" /\ g.codec = job.codec /\ g.level = lv
    BY <1>7, CodecIs
  <2>. HIDE DEF g
  <2>2. Handle!Reset(g, st)
    BY <1>3, <1>5, <2>1 DEF Handle!Reset, Live
  <2>. QED  BY <2>1, <2>2, HandleWords DEF Handle!Next
<1>. QED  BY <1>6, <1>7 DEF ResetLevels

\* The input left by a call is within what it was offered.
LEMMA LeftIs ==
    ASSUME Inv, NEW p \in 0 .. fed
    PROVE  fed - p \in SizesOffered /\ fed - p \in Handle!Lefts
<1>1. job \in Jobs /\ job.n \in Nat /\ fed \in 0 .. job.n
  BY JobIs DEF Inv, LoopInv
<1>2. fed - p \in 0 .. job.n /\ fed - p \in 0 .. (fed - p)
  BY <1>1
<1>3. fed - p \in SizesOffered
  BY <1>1, <1>2 DEF SizesOffered
<1>. DEFINE l == fed - p
<1>4. l \in SizesOffered /\ l \in 0 .. l
  BY <1>2, <1>3
<1>. HIDE DEF l
<1>5. l \in Handle!Lefts
  BY <1>4 DEF Handle!Lefts
<1>. QED  BY <1>3, <1>5 DEF l

\* zu_encoder_process, the codec asked.
LEMMA TurnIsProcess ==
    ASSUME Inv, Inv', CodecTurns
    PROVE  [Handle!Next]_(Handle!vars)
<1>1. PICK p, o, e : Continue(p, o, e) \/ \E st \in Status : Return(st, p, o, e)
  BY DEF CodecTurns
<1>2. Asked
  BY DEF CodecTurns
<1>3. CASE Continue(p, o, e)
  <2>1. UNCHANGED <<job, level, finished, last>> /\ Live' = Live
    BY <1>3 DEF Continue, Live
  <2>. QED  BY <2>1, HandleStutters
<1>4. ASSUME NEW st \in Status, Return(st, p, o, e)
      PROVE  Handle!Next
  <2>1. /\ pos' = p /\ fed' = fed /\ job' = job /\ level' = level
        /\ finished' = (finished \/ st = ZU_STREAM_END)
        /\ last' = Answer("process", st, st, fed - p)
        /\ pc' \in {"call", "close"}
    BY <1>4 DEF Return, Answered
  <2>2. p \in 0 .. fed
    BY <2>1 DEF Inv, LoopInv
  <2>3. fed - p \in Handle!Lefts
    BY <2>2, LeftIs
  <2>4. Live = "live" /\ Live' = "live"
    BY <1>2, <2>1 DEF Asked, Live
  <2>5. ~Handle!Refused(CodecTable[job.codec], finished, flush)
    BY <1>2, HandleRules DEF Asked, HandleRefuses
  <2>6. Handle!Process(flush, fed - p, st)
    BY <2>1, <2>4, <2>5, HandleWords DEF Handle!Process, Handle!FinishedAfter, Live
  <2>7. flush \in Flush
    BY DEF Inv, LoopInv
  <2>. QED  BY <2>3, <2>6, <2>7, HandleWords DEF Handle!Next
<1>. QED  BY <1>1, <1>3, <1>4

\* zu_encoder_process, answered by the handle alone.
LEMMA RefusesIsRefused ==
    ASSUME Inv, Refuses
    PROVE  Handle!Next
<1>1. /\ pc = "process" /\ HandleRefuses /\ job' = job /\ level' = level
      /\ finished' = (finished \/ NotAsked = ZU_STREAM_END)
      /\ last' = Answer("process", Refusal(finished, AvailIn), NotAsked, fed - pos)
      /\ pc' \in {"call", "close"}
  BY DEF Refuses, Answered
<1>2. finished' = finished
  BY <1>1, StatusesAre DEF Inv, LoopInv
<1>3. Live = "live" /\ Live' = "live"
  BY <1>1 DEF Live
<1>4. pos \in 0 .. fed /\ flush \in Flush
  BY DEF Inv, LoopInv
<1>5. AvailIn \in SizesOffered /\ AvailIn = fed - pos
  BY <1>4, LeftIs DEF AvailIn
<1>6. Handle!Refused(CodecTable[job.codec], finished, flush)
  BY <1>1, HandleRules DEF HandleRefuses
<1>7. Handle!Refuse("process", Handle!Refusal(finished, AvailIn), Handle!NotAsked, AvailIn)
  BY <1>1, <1>2, <1>3, <1>5, HandleWords, HandleRules DEF Handle!Refuse, Handle!stream, Live
<1>8. Handle!ProcessRefused(AvailIn, flush)
  BY <1>3, <1>6, <1>7 DEF Handle!ProcessRefused, Live
<1>. QED  BY <1>4, <1>5, <1>8, HandleWords DEF Handle!Next

\* The loop's own steps.
LEMMA LoopIsHandles ==
    ASSUME Inv, LoopStep \/ Returned
    PROVE  [Handle!Next]_(Handle!vars)
<1>1. CASE CallWhole \/ CallOneShot \/ CallByCaller
  <2>1. UNCHANGED <<job, level, finished, last>> /\ pc = "call" /\ pc' = "process"
    BY <1>1 DEF CallWhole, CallOneShot, CallByCaller, Enter
  <2>. QED  BY <2>1, HandleStutters DEF Live
<1>2. CASE ReserveFails \/ Stop
  <2>1. UNCHANGED <<job, level, finished, last>> /\ pc = "call" /\ pc' = "close"
    BY <1>2 DEF ReserveFails, Stop
  <2>. QED  BY <2>1, HandleStutters DEF Live
<1>3. CASE Refuses
  BY <1>3, RefusesIsRefused
<1>4. CASE Close
  <2>1. /\ pc = "close" /\ pc' = "closed" /\ last' = Answer("free", ZU_OK, NotAsked, 0)
        /\ UNCHANGED <<job, level, finished>>
    BY <1>4 DEF Close
  <2>2. Live = "live" /\ Live' = "none"
    BY <2>1 DEF Live
  <2>3. Handle!Free
    BY <2>1, <2>2, HandleWords DEF Handle!Free, Live
  <2>. QED  BY <2>3 DEF Handle!Next
<1>5. CASE Returned
  <2>1. UNCHANGED <<job, level, finished, last>> /\ pc' = pc
    BY <1>5 DEF Returned, encVars
  <2>. QED  BY <2>1, HandleStutters DEF Live
<1>. QED  BY <1>1, <1>2, <1>3, <1>4, <1>5 DEF LoopStep

\* Constructors and resets.
LEMMA NewsAreHandles ==
    ASSUME Inv, DeflateNew \/ FrameNew \/ BlockNew \/ ZstdNew \/ IdentityNew
    PROVE  Handle!Next
<1>1. \A state : Open(state) => Handle!Next
  BY OpenIsNew
<1>. QED  BY <1>1 DEF DeflateNew, FrameNew, BlockNew, ZstdNew, IdentityNew

\* What a codec's reset answers is a status.
LEMMA ResetsAreHandles ==
    ASSUME Inv, DeflateResets \/ FrameResets \/ BlockResets \/ ZstdResets \/ IdentityResets
    PROVE  Handle!Next
<1>1. CASE DeflateResets
  <2>. DEFINE f == [lv \in ResetLevels |-> DeflateReset(lv)]
  <2>1. \A lv \in ResetLevels : \A r \in f[lv] : r[1] \in Status
    BY StatusesAre DEF DeflateReset
  <2>2. ResetByCaller(f)
    BY <1>1 DEF DeflateResets
  <2>. HIDE DEF f
  <2>. QED  BY <2>1, <2>2, ResetIsReset
<1>2. CASE FrameResets
  <2>. DEFINE f == [lv \in ResetLevels |-> FrameReset(lv)]
  <2>1. \A lv \in ResetLevels : \A r \in f[lv] : r[1] \in Status
    BY StatusesAre DEF FrameReset
  <2>2. ResetByCaller(f)
    BY <1>2 DEF FrameResets
  <2>. HIDE DEF f
  <2>. QED  BY <2>1, <2>2, ResetIsReset
<1>3. CASE BlockResets
  <2>. DEFINE f == [lv \in ResetLevels |-> BlockReset(lv)]
  <2>1. \A lv \in ResetLevels : \A r \in f[lv] : r[1] \in Status
    BY StatusesAre DEF BlockReset
  <2>2. ResetByCaller(f)
    BY <1>3 DEF BlockResets
  <2>. HIDE DEF f
  <2>. QED  BY <2>1, <2>2, ResetIsReset
<1>4. CASE ZstdResets
  <2>. DEFINE f == [lv \in ResetLevels |-> ZstdReset(lv)]
  <2>1. \A lv \in ResetLevels : \A r \in f[lv] : r[1] \in Status
    BY StatusesAre DEF ZstdReset
  <2>2. ResetByCaller(f)
    BY <1>4 DEF ZstdResets
  <2>. HIDE DEF f
  <2>. QED  BY <2>1, <2>2, ResetIsReset
<1>5. CASE IdentityResets
  <2>. DEFINE f == [lv \in ResetLevels |-> IdentityReset(lv)]
  <2>1. \A lv \in ResetLevels : \A r \in f[lv] : r[1] \in Status
    BY StatusesAre DEF IdentityReset
  <2>2. ResetByCaller(f)
    BY <1>5 DEF IdentityResets
  <2>. HIDE DEF f
  <2>. QED  BY <2>1, <2>2, ResetIsReset
<1>. QED  BY <1>1, <1>2, <1>3, <1>4, <1>5

\* Every step of the encoders is one of the handle's, or none.
LEMMA StepsAreHandles ==
    ASSUME Inv, Inv', [Next]_encVars
    PROVE  [Handle!Next]_(Handle!vars)
<1>1. CASE LoopStep \/ Returned
  BY <1>1, LoopIsHandles
<1>2. CASE DeflateStep
  BY <1>2, NewsAreHandles, ResetsAreHandles, DeflateTurns, TurnIsProcess DEF DeflateStep
<1>3. CASE Lz4Step
  BY <1>3, NewsAreHandles, ResetsAreHandles, FrameTurns, BlockTurns, TurnIsProcess DEF Lz4Step
<1>4. CASE ZstdStep
  BY <1>4, NewsAreHandles, ResetsAreHandles, ZstdTurns, TurnIsProcess DEF ZstdStep
<1>5. CASE IdentityStep
  BY <1>5, NewsAreHandles, ResetsAreHandles, IdentityTurns, TurnIsProcess DEF IdentityStep
<1>6. CASE UNCHANGED encVars
  <2>1. UNCHANGED <<job, level, finished, last>> /\ pc' = pc
    BY <1>6 DEF encVars
  <2>. QED  BY <2>1, HandleStutters DEF Live
<1>. QED  BY <1>1, <1>2, <1>3, <1>4, <1>5, <1>6 DEF Next

\* The loops start where the handle does.
LEMMA InitIsHandles == Init => Handle!Init
<1>. SUFFICES ASSUME Init PROVE Handle!Init
  OBVIOUS
<1>1. job.codec \in DOMAIN CodecTable
  BY JobIs DEF Init
<1>. QED  BY <1>1, HandleWords DEF Init, Handle!Init

----------------------------------------------------------------------------
\* Every other step leaves the count of resets alone.
LEMMA OnlyResetsCount ==
    ASSUME [Next]_encVars, resets' # resets
    PROVE  DeflateResets \/ FrameResets \/ BlockResets \/ ZstdResets \/ IdentityResets
<1>1. \A state : Open(state) => UNCHANGED resets
  BY DEF Open
<1>2. DeflateNew \/ FrameNew \/ BlockNew \/ ZstdNew \/ IdentityNew => UNCHANGED resets
  BY <1>1 DEF DeflateNew, FrameNew, BlockNew, ZstdNew, IdentityNew
<1>3. LoopStep \/ Returned \/ UNCHANGED encVars => UNCHANGED resets
  <2>1. Returned \/ UNCHANGED encVars => UNCHANGED resets
    BY DEF Returned, encVars
  <2>2. Refuses \/ Stop \/ Close => UNCHANGED resets
    BY DEF Refuses, Answered, Stop, Close
  <2>3. CallWhole => UNCHANGED resets
    BY DEF CallWhole, Enter
  <2>4. ReserveFails \/ CallOneShot => UNCHANGED resets
    BY DEF ReserveFails, CallOneShot, Enter
  <2>5. CallByCaller => UNCHANGED resets
    BY DEF CallByCaller, Enter
  <2>. QED  BY <2>1, <2>2, <2>3, <2>4, <2>5 DEF LoopStep
<1>4. CodecTurns => UNCHANGED resets
  BY DEF CodecTurns, Continue, Return, Answered
<1>5. CASE DeflateStep
  BY <1>2, <1>4, <1>5, DeflateTurns DEF DeflateStep
<1>6. CASE Lz4Step
  BY <1>2, <1>4, <1>6, FrameTurns, BlockTurns DEF Lz4Step
<1>7. CASE ZstdStep
  BY <1>2, <1>4, <1>7, ZstdTurns DEF ZstdStep
<1>8. CASE IdentityStep
  BY <1>2, <1>4, <1>8, IdentityTurns DEF IdentityStep
<1>. QED  BY <1>3, <1>5, <1>6, <1>7, <1>8 DEF Next

----------------------------------------------------------------------------
\* Every encoder under every caller keeps to the invariant: what is on the
\* wire, what waits and what is held back are the stream so far.
THEOREM EncodersKeepGood == Spec => []Good
<1>1. Init => Good
  BY InitGood
<1>2. Good /\ [Next]_encVars => Good'
  BY NextKeeps
<1>. QED  BY <1>1, <1>2, PTL DEF Spec

\* Input is neither lost, repeated nor reordered between the caller's slices,
\* the codec's buffers, the library's and windows of any size.
THEOREM NoInputIsLost == Spec => []NothingLost
<1>1. Good => NothingLost
  BY InvLosesNothing DEF Good
<1>. QED  BY <1>1, EncodersKeepGood, PTL

\* A stream that has ended is complete and is the one asked for, whatever
\* windows, flushes and resets came before.
THEOREM EndedStreamsAreWhole == Spec => []StreamIsWhole
<1>1. Good => StreamIsWhole
  BY InvIsWhole DEF Good
<1>. QED  BY <1>1, EncodersKeepGood, PTL

\* A flush that asks for more input has put everything on the wire.
THEOREM FlushesDeliver == Spec => []FlushDelivers
<1>1. Good => FlushDelivers
  BY DEF Good
<1>. QED  BY <1>1, EncodersKeepGood, PTL

\* An error has a cause outside the encoder.
THEOREM EveryErrorHasACause == Spec => []ErrorsHaveACause
<1>1. Good => ErrorsHaveACause
  BY DEF Good
<1>. QED  BY <1>1, EncodersKeepGood, PTL

\* zu_compress_one succeeds exactly when the stream fits the buffer.
THEOREM OneShotVerdictIsExact == Spec => []OneShotVerdict
<1>1. Good => OneShotVerdict
  BY DEF Good
<1>. QED  BY <1>1, EncodersKeepGood, PTL

\* A reset leaves an encoder that works at the level last asked for, or says
\* that it does not and leaves the old stream, unless miniz's memory ran out.
THEOREM EveryResetReopens == Spec => ResetsReopen
<1>1. Good /\ [Next]_encVars => [resets' # resets => ResetTells]_encVars
  BY OnlyResetsCount, ResetsTell
<1>2. [resets' # resets => ResetTells]_encVars =>
      [resets' # resets =>
         /\ last'.status = ZU_OK =>
              /\ Usable' /\ LevelInUse' = asked'
              /\ ~Usable => asked' # asked
         /\ last'.status # ZU_OK =>
              /\ enc' = enc \/ (last'.status = ZU_ERR_MEMORY /\ ~Usable')
              /\ last'.status = ZU_ERR_INVALID_DATA => ~Usable]_encVars
  BY DEF ResetTells
<1>. QED  BY <1>1, <1>2, EncodersKeepGood, PTL DEF Spec, ResetsReopen

\* The three loops drive the encoder handle as ZuEncoder specifies it for any
\* codec.
THEOREM EncodersImplementTheHandle == Spec => ImplementsHandle
<1>1. Init => Handle!Init
  BY InitIsHandles
<1>2. Good /\ Good' /\ [Next]_encVars => [Handle!Next]_(Handle!vars)
  BY StepsAreHandles DEF Good
<1>. QED  BY <1>1, <1>2, EncodersKeepGood, PTL DEF Spec, ImplementsHandle, Handle!Spec
=============================================================================
