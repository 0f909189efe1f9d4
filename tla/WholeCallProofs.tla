-------------------------- MODULE WholeCallProofs --------------------------
(***************************************************************************)
(* The output sink of a whole-buffer call is never written past its end,   *)
(* for every SIZE_MAX, every chunk size and every number of growths: the   *)
(* growth rule of zu_buf.c gives at least what zu_int_reserve asks for,    *)
(* and its arithmetic never leaves size_t.  And, for any heap and any      *)
(* number of calls with finalizers outstanding, every block is freed once, *)
(* by the pointer that owns it.                                            *)
(***************************************************************************)
EXTENDS WholeCall, FiniteSetTheorems, TLAPS

\* The test zu_int_mul makes before it doubles: a size that passes it can be
\* doubled without leaving size_t.
LEMMA DoublingIsSound ==
    ASSUME NEW c \in Nat, MulFits(c, 2)
    PROVE  2 * c <= SizeMax
<1>1. CASE c = 0
  BY <1>1, BufAssumption
<1>2. CASE c # 0
  <2>1. c \in Nat \ {0} /\ SizeMax \in Nat
    BY <1>2, BufAssumption
  <2>2. 2 <= SizeMax \div c
    BY <1>2 DEF MulFits
  <2>3. PICK q \in Nat : q = SizeMax \div c
    BY <2>1, Z3
  <2>4. q * c <= SizeMax
    BY <2>1, <2>3, Z3
  <2>5. 2 * c <= q * c
    BY <2>1, <2>2, <2>3, Z3
  <2>. QED  BY <2>1, <2>4, <2>5, Z3
<1>. QED  BY <1>1, <1>2

\* zu_int_grow: when the sum can be represented the new capacity covers what
\* is needed and is itself a size_t.
LEMMA GrowCovers ==
    ASSUME NEW c \in 0 .. SizeMax, NEW need \in Nat, GrowFits(c, need)
    PROVE  /\ Grow(c, need) \in 0 .. SizeMax
           /\ c + need <= Grow(c, need)
<1>1. SizeMax \in Nat /\ MinBuffer \in 0 .. SizeMax
  BY BufAssumption
<1>2. c + need <= SizeMax
  BY <1>1 DEF GrowFits, AddFits
<1>3. Doubled(c, need) \in 0 .. SizeMax
  BY <1>1, <1>2, DoublingIsSound DEF Doubled
<1>. QED  BY <1>1, <1>2, <1>3 DEF Grow

(***************************************************************************)
(* WindowInsideSink speaks of one point of the loop; what carries it round *)
(* the loop is that the bytes in use never exceed the capacity.  `used` is *)
(* stale between calls (zu_int_outbuf_release leaves it), hence the guard. *)
(***************************************************************************)
SinkInv ==
    /\ size \in 0 .. SizeMax
    /\ used \in Nat
    /\ pc # "idle" => used <= size
    /\ WindowInsideSink

\* Every step keeps the capacity ahead of the bytes in use.
LEMMA SinkStep == SinkInv /\ [Next]_vars => SinkInv'
<1>. SUFFICES ASSUME SinkInv, [Next]_vars PROVE SinkInv'
  OBVIOUS
<1>. USE DEF SinkInv, WindowInsideSink
<1>0. SizeMax \in Nat /\ Chunk \in Nat
  BY BufAssumption, CallAssumption
<1>1. CASE Enter
  BY <1>0, <1>1 DEF Enter
<1>2. CASE OpenHandle
  BY <1>0, <1>2 DEF OpenHandle
<1>3. CASE Guard
  BY <1>0, <1>3 DEF Guard, local
<1>4. CASE GuardFails
  BY <1>0, <1>4 DEF GuardFails, Abort
<1>5. CASE ReserveNothing
  BY <1>0, <1>5 DEF ReserveNothing, local
<1>6. CASE ReserveGrows
  <2>1. used + Chunk > size /\ Shortfall \in Nat /\ size + Shortfall = used + Chunk
    BY <1>0, <1>6 DEF ReserveGrows, Shortfall
  <2>2. Grow(size, Shortfall) \in 0 .. SizeMax /\ used + Chunk <= Grow(size, Shortfall)
    BY <1>6, <2>1, GrowCovers DEF ReserveGrows
  <2>. QED  BY <1>0, <1>6, <2>1, <2>2 DEF ReserveGrows
<1>7. CASE ReserveFails
  BY <1>0, <1>7 DEF ReserveFails, local
<1>8. ASSUME NEW k \in 0 .. Chunk, Process(k) PROVE SinkInv'
  BY <1>0, <1>8 DEF Process
<1>9. CASE Leave
  BY <1>0, <1>9 DEF Leave, local
<1>10. CASE Result
  BY <1>0, <1>10 DEF Result, local
<1>11. CASE Release
  BY <1>0, <1>11 DEF Release
<1>12. ASSUME NEW c \in Frames, NEW k \in Kinds, Finalize(c, k) PROVE SinkInv'
  BY <1>0, <1>12 DEF Finalize, local
<1>13. CASE UNCHANGED vars
  BY <1>0, <1>13 DEF vars
<1>. QED
  BY <1>1, <1>2, <1>3, <1>4, <1>5, <1>6, <1>7, <1>8, <1>9, <1>10, <1>11,
     <1>12, <1>13 DEF Next

\* The sink's invariant holds in every reachable state.
LEMMA SinkHolds == Spec => []SinkInv
<1>1. Init => SinkInv
  BY BufAssumption DEF Init, SinkInv, WindowInsideSink
<1>. QED  BY <1>1, SinkStep, PTL DEF Spec

\* The codec's window always lies inside the block that was allocated.
THEOREM WindowIsInsideSink == Spec => []WindowInsideSink
BY SinkHolds, PTL DEF SinkInv

----------------------------------------------------------------------------
(***************************************************************************)
(* Ownership.  What FreedOnceByItsOwner says of the pointers is carried by *)
(* what the call in progress knows of its own: the sink's pointer follows  *)
(* the local `buf` and is not garbage, so no finalizer runs behind the     *)
(* call's back; and a handle is either held the same way, or, before its   *)
(* pointer exists, named by no pointer at all.                             *)
(***************************************************************************)
Addr(c, k) == ptr[c][k].addr

Sinks == {b \in Blocks : heap[b] = "sink"}

Named ==
    \A c \in Frames, k \in Kinds : Addr(c, k) # Null => heap[Addr(c, k)] = k

Single ==
    \A c, d \in Frames, k, l \in Kinds :
        Addr(c, k) # Null /\ Addr(c, k) = Addr(d, l) => c = d /\ k = l

SinksHeld == \A b \in Sinks : \E c \in Frames : Addr(c, "sink") = b

Counted == IsFiniteSet(Sinks) /\ live = Cardinality(Sinks)

CallHolds ==
    /\ pc # "idle" => /\ ptr[n]["sink"] = [state |-> "held", addr |-> buf]
                      /\ buf = Null => size = 0
    /\ pc \in {"reserve", "process", "leave"} =>
          handle # Null /\ ptr[n]["handle"] = [state |-> "held", addr |-> handle]
    /\ pc = "guard" =>
          /\ handle # Null /\ heap[handle] = "handle"
          /\ \A c \in Frames, k \in Kinds : Addr(c, k) # handle

PtrRecord == [state : {"none", "held", "garbage"}, addr : Blocks \cup {Null}]

OwnType ==
    /\ heap \in [Blocks -> Kinds \cup {"free"}]
    /\ ptr \in [Frames -> [Kinds -> PtrRecord]]
    /\ n \in Frames
    /\ handle \in Blocks \cup {Null}
    /\ buf \in Blocks \cup {Null}

OwnInv == OwnType /\ Named /\ Single /\ SinksHeld /\ Counted /\ CallHolds /\ ~fault

\* Every external pointer is a record of its state and the address it names.
LEMMA PtrIsRecord ==
    ASSUME OwnType, NEW c \in Frames, NEW k \in Kinds
    PROVE  /\ ptr[c][k] \in PtrRecord
           /\ ptr[c][k].addr \in Blocks \cup {Null}
           /\ ptr[c][k] = [state |-> ptr[c][k].state, addr |-> ptr[c][k].addr]
<1>1. ptr[c][k] \in PtrRecord
  BY DEF OwnType
<1>. QED  BY <1>1 DEF PtrRecord

\* SetPtr changes one pointer of the call and leaves the others.
LEMMA SetPtrEffect ==
    ASSUME OwnType, NEW k \in Kinds, NEW st \in {"none", "held", "garbage"},
           NEW a \in Blocks \cup {Null}
    PROVE  /\ SetPtr(k, st, a) \in [Frames -> [Kinds -> PtrRecord]]
           /\ \A c \in Frames, l \in Kinds :
                 SetPtr(k, st, a)[c][l] =
                   IF c = n /\ l = k THEN [state |-> st, addr |-> a] ELSE ptr[c][l]
<1>1. [state |-> st, addr |-> a] \in PtrRecord
  BY DEF PtrRecord
<1>. QED  BY <1>1 DEF SetPtr, OwnType

\* A longjmp moves no address.
LEMMA UnwoundEffect ==
    ASSUME OwnType
    PROVE  /\ Unwound \in [Frames -> [Kinds -> PtrRecord]]
           /\ \A c \in Frames, k \in Kinds : Unwound[c][k].addr = ptr[c][k].addr
<1>1. ptr \in [Frames -> [Kinds -> PtrRecord]] /\ n \in Frames
  BY DEF OwnType
<1>2. ASSUME NEW c \in Frames, NEW k \in Kinds
      PROVE  /\ Unwound[c][k] \in PtrRecord
             /\ Unwound[c][k].addr = ptr[c][k].addr
  <2>1. ptr[c][k] \in PtrRecord
    BY <1>1
  <2>2. CASE c # n
    BY <1>1, <2>1, <2>2 DEF Unwound
  <2>3. CASE c = n /\ ptr[n][k].state = "held"
    BY <1>1, <2>1, <2>3 DEF Unwound, PtrRecord
  <2>4. CASE c = n /\ ptr[n][k].state # "held"
    BY <1>1, <2>1, <2>4 DEF Unwound
  <2>. QED  BY <2>2, <2>3, <2>4
<1>3. Unwound \in [Frames -> [Kinds -> PtrRecord]]
  <2>1. ASSUME NEW c \in Frames PROVE Unwound[c] \in [Kinds -> PtrRecord]
    <3>1. CASE c # n
      BY <1>1, <3>1 DEF Unwound
    <3>2. CASE c = n
      <4>1. Unwound[c] = [k \in Kinds |-> Unwound[c][k]]
        BY <1>1, <3>2 DEF Unwound
      <4>. QED  BY <1>2, <4>1
    <3>. QED  BY <3>1, <3>2
  <2>2. Unwound = [c \in Frames |-> Unwound[c]]
    BY <1>1 DEF Unwound
  <2>. QED  BY <2>1, <2>2
<1>. QED  BY <1>2, <1>3

\* A step that moves no address and allocates and frees nothing keeps what
\* the pointers say of the heap.
LEMMA SameAddresses ==
    ASSUME OwnInv, heap' = heap, live' = live,
           \A c \in Frames, k \in Kinds : ptr'[c][k].addr = ptr[c][k].addr
    PROVE  Named' /\ Single' /\ SinksHeld' /\ Counted'
<1>. USE DEF OwnInv
<1>1. Named'
  BY DEF Named, Addr
<1>2. Single'
  BY DEF Single, Addr
<1>3. Sinks' = Sinks
  BY DEF Sinks
<1>4. SinksHeld'
  BY <1>3 DEF SinksHeld, Addr, Kinds
<1>5. Counted'
  BY <1>3 DEF Counted
<1>. QED  BY <1>1, <1>2, <1>4, <1>5

\* A step that clears one pointer and frees the block it named keeps it too:
\* no other pointer names that block.
LEMMA ClearAndFree ==
    ASSUME OwnInv, NEW c \in Frames, NEW k \in Kinds, Addr(c, k) # Null,
           heap' = Released(Addr(c, k)),
           live' = IF k = "sink" THEN live - 1 ELSE live,
           \A d \in Frames, l \in Kinds :
              ptr'[d][l].addr = IF d = c /\ l = k THEN Null ELSE ptr[d][l].addr
    PROVE  Named' /\ Single' /\ SinksHeld' /\ Counted'
<1>. DEFINE a == Addr(c, k)
<1>. USE DEF OwnInv
<1>1. a \in Blocks /\ heap[a] = k /\ heap \in [Blocks -> Kinds \cup {"free"}]
  BY PtrIsRecord DEF Addr, Named, OwnType
<1>2. \A b \in Blocks : heap'[b] = IF b = a THEN "free" ELSE heap[b]
  BY <1>1 DEF Released
<1>3. \A d \in Frames, l \in Kinds : (d # c \/ l # k) => Addr(d, l) # a
  BY DEF Single
<1>. HIDE DEF a
<1>4. Named'
  <2>. SUFFICES ASSUME NEW d \in Frames, NEW l \in Kinds, ptr'[d][l].addr # Null
                PROVE  heap'[ptr'[d][l].addr] = l
    BY DEF Named, Addr
  <2>1. (d # c \/ l # k) /\ ptr'[d][l].addr = Addr(d, l) /\ Addr(d, l) # Null
    BY DEF Addr
  <2>2. Addr(d, l) \in Blocks /\ heap[Addr(d, l)] = l
    BY <2>1, PtrIsRecord DEF Named, Addr
  <2>. QED  BY <1>2, <1>3, <2>1, <2>2
<1>5. Single'
  BY DEF Single, Addr
<1>6. Sinks' = Sinks \ {a}
  BY <1>2 DEF Sinks, Kinds
<1>7. SinksHeld'
  <2>. SUFFICES ASSUME NEW b \in Sinks, b # a
                PROVE  \E d \in Frames : ptr'[d]["sink"].addr = b
    BY <1>6 DEF SinksHeld, Addr
  <2>1. PICK d \in Frames : Addr(d, "sink") = b
    BY DEF SinksHeld
  <2>2. ~(d = c /\ "sink" = k)
    BY <2>1 DEF a
  <2>. QED  BY <2>1, <2>2 DEF Addr, Kinds
<1>8. Counted'
  <2>1. CASE k = "sink"
    <3>1. a \in Sinks
      BY <1>1, <2>1 DEF Sinks
    <3>. QED  BY <1>6, <2>1, <3>1, FS_RemoveElement DEF Counted
  <2>2. CASE k # "sink"
    <3>1. Sinks' = Sinks
      BY <1>1, <1>6, <2>2 DEF Sinks
    <3>. QED  BY <2>2, <3>1 DEF Counted
  <2>. QED  BY <2>1, <2>2
<1>. QED  BY <1>4, <1>5, <1>7, <1>8

\* zu_int_outbuf_owner.
LEMMA OwnEnter == OwnInv /\ Enter => OwnInv'
<1>. SUFFICES ASSUME OwnInv, Enter PROVE OwnInv'
  OBVIOUS
<1>1. PICK f \in Frames :
         /\ \A k \in Kinds : ptr[f][k] = NoPtr
         /\ n' = f
         /\ \/ /\ ptr' = [ptr EXCEPT ![f]["sink"].state = "held"]
               /\ pc' = "open"
            \/ pc' = "idle" /\ UNCHANGED ptr
  BY DEF Enter
<1>2. /\ heap' = heap /\ live' = live /\ fault' = fault
      /\ handle' = Null /\ buf' = Null /\ size' = 0
  BY DEF Enter
<1>3. OwnType /\ "sink" \in Kinds /\ ~fault
  BY DEF OwnInv, Kinds
<1>4. CASE pc' = "open" /\ ptr' = [ptr EXCEPT ![f]["sink"].state = "held"]
  <2>1. ptr' = [ptr EXCEPT ![f]["sink"] = [state |-> "held", addr |-> Null]]
    <3>1. ptr[f]["sink"] = [state |-> "none", addr |-> Null]
      BY <1>1, <1>3 DEF NoPtr
    <3>2. [[state |-> "none", addr |-> Null] EXCEPT !.state = "held"]
            = [state |-> "held", addr |-> Null]
      OBVIOUS
    <3>. QED  BY <1>4, <3>1, <3>2, Zenon
  <2>2. [state |-> "held", addr |-> Null] \in PtrRecord
    BY DEF PtrRecord
  <2>3. ptr' \in [Frames -> [Kinds -> PtrRecord]]
    BY <1>3, <2>1, <2>2 DEF OwnType
  <2>4. \A c \in Frames, k \in Kinds :
           ptr'[c][k] = IF c = f /\ k = "sink" THEN [state |-> "held", addr |-> Null]
                        ELSE ptr[c][k]
    BY <1>3, <2>1 DEF OwnType
  <2>5. \A c \in Frames, k \in Kinds : ptr'[c][k].addr = ptr[c][k].addr
    BY <1>1, <2>4 DEF NoPtr
  <2>6. OwnType'
    BY <1>1, <1>2, <1>3, <2>3 DEF OwnType
  <2>7. CallHolds'
    BY <1>1, <1>2, <1>3, <1>4, <2>4 DEF CallHolds
  <2>8. Named' /\ Single' /\ SinksHeld' /\ Counted'
    BY <1>2, <2>5, SameAddresses
  <2>. QED  BY <1>2, <1>3, <2>6, <2>7, <2>8, Zenon DEF OwnInv
<1>5. CASE pc' = "idle" /\ ptr' = ptr
  <2>1. OwnType'
    BY <1>1, <1>2, <1>3, <1>5 DEF OwnType
  <2>2. CallHolds'
    BY <1>5 DEF CallHolds
  <2>3. Named' /\ Single' /\ SinksHeld' /\ Counted'
    BY <1>2, <1>5, SameAddresses
  <2>. QED  BY <1>2, <1>3, <2>1, <2>2, <2>3, Zenon DEF OwnInv
<1>. QED  BY <1>1, <1>4, <1>5

\* zu_encoder_new and zu_decoder_new: a fresh block is named by no pointer.
LEMMA OwnOpenHandle == OwnInv /\ OpenHandle => OwnInv'
<1>. SUFFICES ASSUME OwnInv, OpenHandle PROVE OwnInv'
  OBVIOUS
<1>1. /\ pc = "open" /\ OwnType /\ CallHolds /\ ~fault
      /\ UNCHANGED <<ptr, n, buf, size, live, fault>>
  BY DEF OpenHandle, OwnInv
<1>2. CASE pc' = "result" /\ heap' = heap /\ handle' = handle
  <2>1. OwnType'
    BY <1>1, <1>2 DEF OwnType
  <2>2. CallHolds'
    BY <1>1, <1>2 DEF CallHolds
  <2>3. Named' /\ Single' /\ SinksHeld' /\ Counted'
    BY <1>1, <1>2, SameAddresses
  <2>. QED  BY <1>1, <2>1, <2>2, <2>3, Zenon DEF OwnInv
<1>3. ASSUME NEW b \in Fresh, heap' = [heap EXCEPT ![b] = "handle"],
             handle' = b, pc' = "guard"
      PROVE  OwnInv'
  <2>1. b \in Blocks /\ heap[b] = "free" /\ heap \in [Blocks -> Kinds \cup {"free"}]
        /\ b # Null
    BY <1>1, CallAssumption DEF Fresh, OwnType
  <2>2. \A x \in Blocks : heap'[x] = IF x = b THEN "handle" ELSE heap[x]
    BY <1>3, <2>1
  <2>3. \A c \in Frames, k \in Kinds : Addr(c, k) # b
    BY <2>1 DEF OwnInv, Named, Kinds
  <2>4. OwnType'
    BY <1>1, <1>3, <2>1 DEF OwnType, Kinds
  <2>5. Named'
    BY <1>1, <2>2, <2>3, PtrIsRecord DEF OwnInv, Named, Addr
  <2>6. Single'
    BY <1>1 DEF OwnInv, Single, Addr
  <2>7. Sinks' = Sinks
    BY <2>1, <2>2 DEF Sinks
  <2>8. SinksHeld' /\ Counted'
    BY <1>1, <2>7 DEF OwnInv, SinksHeld, Counted, Addr
  <2>9. CallHolds'
    BY <1>1, <1>3, <2>1, <2>2, <2>3 DEF CallHolds, Addr
  <2>. QED  BY <1>1, <2>4, <2>5, <2>6, <2>8, <2>9, Zenon DEF OwnInv
<1>. QED  BY <1>2, <1>3 DEF OpenHandle

\* A longjmp out of the call: whatever point it left, nothing changes hands.
LEMMA OwnUnwound ==
    ASSUME OwnInv, ptr' = Unwound, pc' = "idle",
           UNCHANGED <<heap, n, handle, buf, live>>, ~fault'
    PROVE  OwnInv'
<1>1. OwnType
  BY DEF OwnInv
<1>2. OwnType'
  BY <1>1, UnwoundEffect DEF OwnType
<1>3. Named' /\ Single' /\ SinksHeld' /\ Counted'
  BY <1>1, UnwoundEffect, SameAddresses
<1>4. CallHolds'
  BY DEF CallHolds
<1>. QED  BY <1>2, <1>3, <1>4, Zenon DEF OwnInv

\* A step that only moves the call on, to a point that asks no more of it.
LEMMA OwnMovesOn ==
    ASSUME OwnInv, UNCHANGED <<heap, ptr, n, handle, buf, size, live>>, ~fault',
           CallHolds'
    PROVE  OwnInv'
<1>1. OwnType'
  BY DEF OwnInv, OwnType
<1>2. Named' /\ Single' /\ SinksHeld' /\ Counted'
  BY SameAddresses
<1>. QED  BY <1>1, <1>2, Zenon DEF OwnInv

\* The handle is given to R.
LEMMA OwnGuard == OwnInv /\ Guard => OwnInv'
<1>. SUFFICES ASSUME OwnInv, Guard PROVE OwnInv'
  OBVIOUS
<1>1. /\ pc = "guard" /\ pc' = "reserve" /\ OwnType /\ CallHolds /\ ~fault
      /\ ptr' = SetPtr("handle", "held", handle)
      /\ UNCHANGED <<heap, n, handle, buf, size, live, fault>>
  BY DEF Guard, local, OwnInv
<1>2. /\ handle \in Blocks \cup {Null} /\ handle # Null /\ heap[handle] = "handle"
      /\ \A c \in Frames, k \in Kinds : Addr(c, k) # handle
      /\ n \in Frames /\ "handle" \in Kinds /\ "sink" \in Kinds
  BY <1>1 DEF OwnType, CallHolds, Kinds
<1>3. /\ ptr' \in [Frames -> [Kinds -> PtrRecord]]
      /\ \A c \in Frames, l \in Kinds :
            ptr'[c][l] = IF c = n /\ l = "handle"
                           THEN [state |-> "held", addr |-> handle] ELSE ptr[c][l]
  BY <1>1, <1>2, SetPtrEffect
<1>4. OwnType'
  BY <1>1, <1>3 DEF OwnType
<1>5. Named'
  BY <1>1, <1>2, <1>3 DEF OwnInv, Named, Addr
<1>6. Single'
  BY <1>2, <1>3 DEF OwnInv, Single, Addr
<1>7. Sinks' = Sinks
  BY <1>1 DEF Sinks
<1>8. \A c \in Frames : ptr'[c]["sink"] = ptr[c]["sink"]
  BY <1>2, <1>3
<1>9. SinksHeld' /\ Counted'
  BY <1>1, <1>7, <1>8 DEF OwnInv, SinksHeld, Counted, Addr
<1>10. CallHolds'
  BY <1>1, <1>2, <1>3 DEF CallHolds
<1>. QED  BY <1>1, <1>4, <1>5, <1>6, <1>9, <1>10, Zenon DEF OwnInv

\* realloc moves the sink, or not, and its pointer follows.
LEMMA OwnReserveGrows == OwnInv /\ ReserveGrows => OwnInv'
<1>. SUFFICES ASSUME OwnInv, ReserveGrows PROVE OwnInv'
  OBVIOUS
<1>1. /\ pc = "reserve" /\ pc' = "process" /\ OwnType /\ CallHolds /\ ~fault
      /\ UNCHANGED <<n, handle>>
  BY DEF ReserveGrows, OwnInv
<1>2. PICK b \in Fresh \cup ({buf} \ {Null}) :
         /\ heap' = [x \in Blocks |-> IF x = b THEN "sink"
                                      ELSE IF x = buf THEN "free" ELSE heap[x]]
         /\ fault' = (fault \/ (buf # Null /\ ~Sound(buf, "sink")))
         /\ live' = IF buf = Null THEN live + 1 ELSE live
         /\ buf' = b
         /\ ptr' = SetPtr("sink", "held", b)
  BY DEF ReserveGrows
<1>3. /\ n \in Frames /\ "sink" \in Kinds /\ "handle" \in Kinds
      /\ b \in Blocks /\ b # Null
      /\ ptr[n]["sink"] = [state |-> "held", addr |-> buf]
      /\ heap \in [Blocks -> Kinds \cup {"free"}]
      /\ buf \in Blocks \cup {Null}
  BY <1>1, <1>2, CallAssumption DEF OwnType, CallHolds, Kinds, Fresh
<1>4. buf # Null => buf \in Blocks /\ heap[buf] = "sink"
  BY <1>3 DEF OwnInv, Named, Addr
<1>5. /\ ptr' \in [Frames -> [Kinds -> PtrRecord]]
      /\ \A c \in Frames, l \in Kinds :
            ptr'[c][l] = IF c = n /\ l = "sink"
                           THEN [state |-> "held", addr |-> b] ELSE ptr[c][l]
  BY <1>1, <1>2, <1>3, SetPtrEffect
<1>6. ASSUME NEW c \in Frames, NEW l \in Kinds, c # n \/ l # "sink"
      PROVE  /\ ptr'[c][l] = ptr[c][l]
             /\ Addr(c, l) # b
             /\ buf # Null => Addr(c, l) # buf
  <2>1. buf # Null => Addr(c, l) # buf
    BY <1>3, <1>6 DEF OwnInv, Single, Addr
  <2>2. b \in Fresh => Addr(c, l) # b
    BY <1>3 DEF Fresh, OwnInv, Named, Kinds
  <2>. QED  BY <1>2, <1>5, <1>6, <2>1, <2>2
<1>7. ~fault'
  BY <1>1, <1>2, <1>4, Zenon DEF Sound
<1>8. OwnType'
  BY <1>1, <1>2, <1>3, <1>5 DEF OwnType, Kinds
<1>9. Named'
  <2>. SUFFICES ASSUME NEW c \in Frames, NEW l \in Kinds, ptr'[c][l].addr # Null
                PROVE  heap'[ptr'[c][l].addr] = l
    BY DEF Named, Addr
  <2>1. CASE c = n /\ l = "sink"
    BY <1>2, <1>3, <1>5, <2>1
  <2>2. CASE c # n \/ l # "sink"
    <3>1. ptr'[c][l].addr = Addr(c, l) /\ Addr(c, l) # b /\ (buf # Null => Addr(c, l) # buf)
      BY <1>6, <2>2 DEF Addr
    <3>2. Addr(c, l) \in Blocks /\ heap[Addr(c, l)] = l
      BY <1>1, <3>1, PtrIsRecord DEF OwnInv, Named, Addr
    <3>. QED  BY <1>2, <3>1, <3>2, CallAssumption
  <2>. QED  BY <2>1, <2>2
<1>10. Single'
  <2>. SUFFICES ASSUME NEW c \in Frames, NEW d \in Frames, NEW k \in Kinds, NEW l \in Kinds,
                       ptr'[c][k].addr # Null, ptr'[c][k].addr = ptr'[d][l].addr
                PROVE  c = d /\ k = l
    BY DEF Single, Addr
  <2>1. CASE (c # n \/ k # "sink") /\ (d # n \/ l # "sink")
    BY <1>6, <2>1 DEF OwnInv, Single, Addr
  <2>2. CASE (c = n /\ k = "sink") \/ (d = n /\ l = "sink")
    BY <1>5, <1>6, <2>2 DEF Addr
  <2>. QED  BY <2>1, <2>2
<1>11. Sinks' = (Sinks \ {buf}) \cup {b}
  BY <1>2, <1>3 DEF Sinks
<1>12. SinksHeld'
  <2>. SUFFICES ASSUME NEW x \in Sinks', x # b
                PROVE  \E c \in Frames : ptr'[c]["sink"].addr = x
    BY <1>3, <1>5 DEF SinksHeld, Addr
  <2>1. x \in Sinks /\ x # buf
    BY <1>11
  <2>2. PICK c \in Frames : Addr(c, "sink") = x
    BY <2>1 DEF OwnInv, SinksHeld
  <2>3. c # n
    BY <1>3, <2>1, <2>2 DEF Addr
  <2>. QED  BY <1>3, <1>6, <2>2, <2>3 DEF Addr
<1>13. Counted'
  <2>1. IsFiniteSet(Sinks) /\ live = Cardinality(Sinks)
    BY DEF OwnInv, Counted
  <2>2. CASE buf = Null
    <3>1. Sinks' = Sinks \cup {b} /\ b \notin Sinks
      BY <1>2, <1>3, <1>11, <2>2, CallAssumption DEF Sinks, Fresh
    <3>. QED  BY <1>2, <2>1, <2>2, <3>1, FS_AddElement DEF Counted
  <2>3. CASE buf # Null /\ b = buf
    <3>1. Sinks' = Sinks
      BY <1>4, <1>11, <2>3 DEF Sinks
    <3>. QED  BY <1>2, <2>1, <2>3, <3>1 DEF Counted
  <2>4. CASE buf # Null /\ b # buf
    <3>1. buf \in Sinks /\ b \notin Sinks
      BY <1>2, <1>4, <2>4 DEF Sinks, Fresh
    <3>2. IsFiniteSet(Sinks \ {buf}) /\ Cardinality(Sinks \ {buf}) = Cardinality(Sinks) - 1
      BY <2>1, <3>1, FS_RemoveElement
    <3>3. /\ IsFiniteSet(Sinks')
          /\ Cardinality(Sinks') = Cardinality(Sinks \ {buf}) + 1
      BY <1>11, <3>1, <3>2, FS_AddElement
    <3>4. Cardinality(Sinks) \in Nat
      BY <2>1, FS_CardinalityType
    <3>. QED  BY <1>2, <2>1, <2>4, <3>2, <3>3, <3>4 DEF Counted
  <2>. QED  BY <2>2, <2>3, <2>4
<1>14. CallHolds'
  BY <1>1, <1>2, <1>3, <1>5 DEF CallHolds
<1>. QED  BY <1>7, <1>8, <1>9, <1>10, <1>12, <1>13, <1>14, Zenon DEF OwnInv

\* What the call holds is allocated as what the call takes it for.
LEMMA HeldIsSound ==
    ASSUME OwnInv
    PROVE  /\ pc # "idle" /\ buf # Null => Sound(buf, "sink")
           /\ pc \in {"reserve", "process", "leave"} => Sound(handle, "handle")
<1>1. n \in Frames /\ "sink" \in Kinds /\ "handle" \in Kinds /\ Named /\ CallHolds
  BY DEF OwnInv, OwnType, Kinds
<1>. QED  BY <1>1 DEF Named, Addr, CallHolds, Sound

\* zu_encoder_process or zu_decoder_process, and what follows it.
LEMMA OwnProcess ==
    ASSUME OwnInv, SinkInv, NEW k \in 0 .. Chunk, Process(k)
    PROVE  OwnInv'
<1>1. /\ pc = "process" /\ CallHolds /\ ~fault
      /\ UNCHANGED <<heap, n, handle, buf, size, live>>
  BY DEF Process, OwnInv
<1>2. Chunk \in Nat \ {0} /\ size \in Nat /\ used \in Nat
  BY BufAssumption, CallAssumption DEF SinkInv
<1>3. buf # Null
  BY <1>1, <1>2 DEF SinkInv, WindowInsideSink, CallHolds
<1>4. Sound(buf, "sink") /\ Sound(handle, "handle")
  BY <1>1, <1>3, HeldIsSound
<1>5. ~fault'
  BY <1>1, <1>4, Zenon DEF Process
<1>6. CASE pc' \in {"reserve", "leave"} /\ ptr' = ptr
  <2>1. CallHolds'
    BY <1>1, <1>6 DEF CallHolds
  <2>. QED  BY <1>1, <1>5, <1>6, <2>1, OwnMovesOn
<1>7. CASE pc' = "idle" /\ ptr' = Unwound
  BY <1>1, <1>5, <1>7, OwnUnwound
<1>. QED  BY <1>6, <1>7 DEF Process

\* zu_int_result.
LEMMA OwnResult ==
    ASSUME OwnInv, SinkInv, Result
    PROVE  OwnInv'
<1>1. /\ pc = "result" /\ CallHolds /\ ~fault
      /\ UNCHANGED <<heap, n, handle, buf, size, live>>
  BY DEF Result, OwnInv, local
<1>2. size \in Nat /\ used \in Nat /\ used <= size
  BY <1>1, BufAssumption DEF SinkInv
<1>3. used > 0 => buf # Null
  BY <1>1, <1>2 DEF CallHolds
<1>4. ~(used > 0 /\ ~Sound(buf, "sink"))
  BY <1>1, <1>3, HeldIsSound
<1>5. ~fault'
  BY <1>1, <1>4, Zenon DEF Result
<1>6. CASE pc' = "release" /\ ptr' = ptr
  <2>1. CallHolds'
    BY <1>1, <1>6 DEF CallHolds
  <2>. QED  BY <1>1, <1>5, <1>6, <2>1, OwnMovesOn
<1>7. CASE pc' = "idle" /\ ptr' = Unwound
  BY <1>1, <1>5, <1>7, OwnUnwound
<1>. QED  BY <1>6, <1>7 DEF Result

\* The normal exit of zu_int_run_whole.
LEMMA OwnLeave ==
    ASSUME OwnInv, Leave
    PROVE  OwnInv'
<1>1. /\ pc = "leave" /\ pc' = "result" /\ OwnType /\ CallHolds /\ ~fault
      /\ ptr' = SetPtr("handle", "garbage", Null)
      /\ heap' = Released(handle)
      /\ UNCHANGED <<n, handle, buf, size, live>>
  BY DEF Leave, OwnInv, local
<1>2. n \in Frames /\ "handle" \in Kinds /\ "sink" \in Kinds
  BY <1>1 DEF OwnType, Kinds
<1>3. /\ ptr' \in [Frames -> [Kinds -> PtrRecord]]
      /\ \A c \in Frames, l \in Kinds :
            ptr'[c][l] = IF c = n /\ l = "handle"
                           THEN [state |-> "garbage", addr |-> Null] ELSE ptr[c][l]
  BY <1>1, <1>2, SetPtrEffect
<1>4. handle # Null /\ Addr(n, "handle") = handle
  BY <1>1 DEF CallHolds, Addr
<1>5. \A c \in Frames, l \in Kinds :
         ptr'[c][l].addr = IF c = n /\ l = "handle" THEN Null ELSE ptr[c][l].addr
  BY <1>3
<1>6. live' = IF "handle" = "sink" THEN live - 1 ELSE live
  BY <1>1
<1>7. Named' /\ Single' /\ SinksHeld' /\ Counted'
  BY <1>1, <1>2, <1>4, <1>5, <1>6, ClearAndFree
<1>8. OwnType'
  BY <1>1, <1>3 DEF OwnType, Released
<1>9. CallHolds'
  BY <1>1, <1>2, <1>3 DEF CallHolds
<1>10. ~fault'
  BY <1>1, HeldIsSound, Zenon DEF Leave
<1>. QED  BY <1>7, <1>8, <1>9, <1>10, Zenon DEF OwnInv

\* zu_int_outbuf_release.
LEMMA OwnRelease ==
    ASSUME OwnInv, Release
    PROVE  OwnInv'
<1>1. /\ pc = "release" /\ pc' = "idle" /\ OwnType /\ CallHolds /\ ~fault
      /\ ptr' = SetPtr("sink", "garbage", Null)
      /\ buf' = Null
      /\ UNCHANGED <<n, handle>>
  BY DEF Release, OwnInv
<1>2. n \in Frames /\ "sink" \in Kinds /\ Addr(n, "sink") = buf
  BY <1>1 DEF OwnType, Kinds, CallHolds, Addr
<1>3. /\ ptr' \in [Frames -> [Kinds -> PtrRecord]]
      /\ \A c \in Frames, l \in Kinds :
            ptr'[c][l] = IF c = n /\ l = "sink"
                           THEN [state |-> "garbage", addr |-> Null] ELSE ptr[c][l]
  BY <1>1, <1>2, SetPtrEffect
<1>4. \A c \in Frames, l \in Kinds :
         ptr'[c][l].addr = IF c = n /\ l = "sink" THEN Null ELSE ptr[c][l].addr
  BY <1>3
<1>5. CallHolds'
  BY <1>1 DEF CallHolds
<1>6. CASE buf # Null
  <2>1. /\ fault' = (fault \/ ~Sound(buf, "sink"))
        /\ heap' = Released(buf) /\ live' = live - 1
    BY <1>6 DEF Release
  <2>2. Named' /\ Single' /\ SinksHeld' /\ Counted'
    BY <1>2, <1>4, <1>6, <2>1, ClearAndFree
  <2>3. OwnType'
    BY <1>1, <1>3, <2>1 DEF OwnType, Released
  <2>4. ~fault'
    BY <1>1, <1>6, <2>1, HeldIsSound, Zenon
  <2>. QED  BY <1>5, <2>2, <2>3, <2>4, Zenon DEF OwnInv
<1>7. CASE buf = Null
  <2>1. heap' = heap /\ live' = live /\ fault' = fault
    BY <1>7 DEF Release
  <2>2. \A c \in Frames, l \in Kinds : ptr'[c][l].addr = ptr[c][l].addr
    BY <1>2, <1>4, <1>7 DEF Addr
  <2>3. Named' /\ Single' /\ SinksHeld' /\ Counted'
    BY <2>1, <2>2, SameAddresses
  <2>4. OwnType'
    BY <1>1, <1>3, <2>1 DEF OwnType
  <2>. QED  BY <1>1, <1>5, <2>1, <2>3, <2>4, Zenon DEF OwnInv
<1>. QED  BY <1>6, <1>7

\* A finalizer: the pointer is garbage, so it is none of the call's own.
LEMMA OwnFinalize ==
    ASSUME OwnInv, NEW c \in Frames, NEW k \in Kinds, Finalize(c, k)
    PROVE  OwnInv'
<1>1. /\ ptr[c][k].state = "garbage" /\ OwnType /\ CallHolds /\ ~fault
      /\ ptr' = [ptr EXCEPT ![c][k] = NoPtr]
      /\ UNCHANGED <<pc, n, handle, buf, size>>
  BY DEF Finalize, OwnInv, local
<1>2. NoPtr \in PtrRecord /\ n \in Frames /\ "sink" \in Kinds /\ "handle" \in Kinds
  BY <1>1 DEF NoPtr, PtrRecord, OwnType, Kinds
<1>3. /\ ptr' \in [Frames -> [Kinds -> PtrRecord]]
      /\ \A d \in Frames, l \in Kinds :
            ptr'[d][l] = IF d = c /\ l = k THEN NoPtr ELSE ptr[d][l]
  BY <1>1, <1>2 DEF OwnType
<1>4. \A d \in Frames, l \in Kinds :
         ptr'[d][l].addr = IF d = c /\ l = k THEN Null ELSE ptr[d][l].addr
  BY <1>3 DEF NoPtr
<1>5. \A l \in Kinds, a \in Blocks \cup {Null} :
         ptr[n][l] = [state |-> "held", addr |-> a] => ptr'[n][l] = ptr[n][l]
  BY <1>1, <1>2, <1>3
<1>6. CASE Addr(c, k) # Null
  <2>1. /\ fault' = (fault \/ ~Sound(Addr(c, k), k))
        /\ heap' = Released(Addr(c, k))
        /\ live' = IF k = "sink" THEN live - 1 ELSE live
    BY <1>6 DEF Finalize, Addr
  <2>2. Named' /\ Single' /\ SinksHeld' /\ Counted'
    BY <1>4, <1>6, <2>1, ClearAndFree
  <2>3. OwnType'
    BY <1>1, <1>3, <2>1 DEF OwnType, Released
  <2>4. Sound(Addr(c, k), k)
    BY <1>6 DEF OwnInv, Named, Sound
  <2>5. ~fault'
    BY <1>1, <2>1, <2>4, Zenon
  <2>6. pc = "guard" => heap'[handle] = heap[handle]
    BY <1>1, <2>1 DEF CallHolds, Released, OwnType
  <2>7. CallHolds'
    <3>1. (pc # "idle" => /\ ptr[n]["sink"] = [state |-> "held", addr |-> buf]
                          /\ buf = Null => size = 0)'
      BY <1>1, <1>2, <1>5 DEF CallHolds, OwnType
    <3>2. (pc \in {"reserve", "process", "leave"} =>
             handle # Null /\ ptr[n]["handle"] = [state |-> "held", addr |-> handle])'
      BY <1>1, <1>2, <1>5 DEF CallHolds, OwnType
    <3>3. (pc = "guard" =>
             /\ handle # Null /\ heap[handle] = "handle"
             /\ \A d \in Frames, l \in Kinds : Addr(d, l) # handle)'
      BY <1>1, <1>4, <2>6 DEF CallHolds, Addr
    <3>. QED  BY <3>1, <3>2, <3>3 DEF CallHolds
  <2>. QED  BY <2>2, <2>3, <2>5, <2>7, Zenon DEF OwnInv
<1>7. CASE Addr(c, k) = Null
  <2>1. heap' = heap /\ live' = live /\ fault' = fault
    BY <1>7 DEF Finalize, Addr
  <2>2. \A d \in Frames, l \in Kinds : ptr'[d][l].addr = ptr[d][l].addr
    BY <1>4, <1>7 DEF Addr
  <2>3. Named' /\ Single' /\ SinksHeld' /\ Counted'
    BY <2>1, <2>2, SameAddresses
  <2>4. OwnType'
    BY <1>1, <1>3, <2>1 DEF OwnType
  <2>5. CallHolds'
    BY <1>1, <1>2, <1>5, <2>1, <2>2 DEF CallHolds, Addr, OwnType
  <2>. QED  BY <1>1, <2>1, <2>3, <2>4, <2>5, Zenon DEF OwnInv
<1>. QED  BY <1>6, <1>7

\* Nothing is allocated before the first call.
LEMMA OwnInit == Init => OwnInv
<1>. SUFFICES ASSUME Init PROVE OwnInv
  OBVIOUS
<1>1. NoPtr \in PtrRecord /\ NoPtr.addr = Null
  BY DEF NoPtr, PtrRecord
<1>2. OwnType
  BY <1>1 DEF Init, OwnType
<1>3. \A c \in Frames, k \in Kinds : Addr(c, k) = Null
  BY <1>1 DEF Init, Addr
<1>4. Named /\ Single
  BY <1>3 DEF Named, Single
<1>5. Sinks = {}
  BY DEF Init, Sinks
<1>6. SinksHeld /\ Counted
  BY <1>5, FS_EmptySet DEF Init, SinksHeld, Counted
<1>7. CallHolds
  BY DEF Init, CallHolds
<1>8. ~fault
  BY Zenon DEF Init
<1>. QED  BY <1>2, <1>4, <1>6, <1>7, <1>8 DEF OwnInv

\* Every step of the call and of the finalizers keeps the ownership rules.
LEMMA OwnStep == OwnInv /\ SinkInv /\ [Next]_vars => OwnInv'
<1>. SUFFICES ASSUME OwnInv, SinkInv, [Next]_vars PROVE OwnInv'
  OBVIOUS
<1>0. ~fault /\ CallHolds
  BY DEF OwnInv
<1>1. CASE GuardFails
  BY <1>0, <1>1, OwnUnwound DEF GuardFails, Abort
<1>2. CASE ReserveNothing \/ ReserveFails
  <2>1. /\ pc = "reserve" /\ pc' \in {"process", "leave"}
        /\ UNCHANGED <<heap, ptr, n, handle, buf, size, live, fault>>
    BY <1>2 DEF ReserveNothing, ReserveFails, local
  <2>2. CallHolds'
    BY <1>0, <2>1 DEF CallHolds
  <2>. QED  BY <1>0, <2>1, <2>2, OwnMovesOn
<1>3. CASE UNCHANGED vars
  <2>1. UNCHANGED <<heap, ptr, n, handle, buf, size, live, fault, pc>>
    BY <1>3 DEF vars
  <2>2. CallHolds'
    BY <1>0, <2>1 DEF CallHolds, Addr
  <2>. QED  BY <1>0, <2>1, <2>2, OwnMovesOn
<1>. QED
  BY <1>1, <1>2, <1>3, OwnEnter, OwnOpenHandle, OwnGuard, OwnReserveGrows,
     OwnProcess, OwnLeave, OwnResult, OwnRelease, OwnFinalize DEF Next

\* The ownership invariant holds in every reachable state.
LEMMA OwnHolds == Spec => []OwnInv
BY OwnInit, OwnStep, SinkHolds, PTL DEF Spec

\* However the call ends and however late the finalizers run, no block is
\* freed twice, used after it was freed, or freed in place of another.
THEOREM FreedOnce == Spec => []FreedOnceByItsOwner
<1>1. OwnInv => FreedOnceByItsOwner
  <2>. SUFFICES ASSUME OwnInv PROVE FreedOnceByItsOwner
    OBVIOUS
  <2>1. ~fault
    BY DEF OwnInv
  <2>2. ASSUME NEW b \in Blocks, NEW h \in Holders(b)
        PROVE  /\ h \in Frames \X Kinds
               /\ Addr(h[1], h[2]) = b /\ b # Null
               /\ heap[b] = h[2]
    BY CallAssumption DEF Holders, Addr, OwnInv, Named
  <2>3. ASSUME NEW b \in Blocks, NEW g \in Holders(b), NEW h \in Holders(b)
        PROVE  g = h
    BY <2>2 DEF OwnInv, Single
  <2>. QED  BY <2>1, <2>2, <2>3 DEF FreedOnceByItsOwner
<1>. QED  BY <1>1, OwnHolds, PTL

\* No longjmp and no move by realloc loses the sink, and the counter the leak
\* test reads is the number of sinks allocated.
THEOREM SinkKept == Spec => []SinkIsNeverLost
<1>1. OwnInv => SinkIsNeverLost
  <2>. SUFFICES ASSUME OwnInv PROVE SinkIsNeverLost
    OBVIOUS
  <2>1. live = Cardinality({b \in Blocks : heap[b] = "sink"})
    BY DEF OwnInv, Counted, Sinks
  <2>2. ASSUME NEW b \in Blocks, heap[b] = "sink" PROVE Holders(b) # {}
    <3>1. PICK c \in Frames : Addr(c, "sink") = b
      BY <2>2 DEF OwnInv, SinksHeld, Sinks
    <3>2. <<c, "sink">> \in Holders(b)
      BY <3>1 DEF Holders, Addr, Kinds
    <3>. QED  BY <3>2
  <2>. QED  BY <2>1, <2>2 DEF SinkIsNeverLost
<1>. QED  BY <1>1, OwnHolds, PTL

=============================================================================
