----------------------------- MODULE WholeCall -----------------------------
(***************************************************************************)
(* Who owns what while a whole-buffer .Call runs (zu_int_whole in          *)
(* zukomp_r.c, zu_int_run_whole and the sink in zu_whole.c).  The sink and *)
(* the stream handle are malloc'd; any R allocation and any interrupt      *)
(* check may longjmp out of the call, past every free() below it.  Each is *)
(* therefore held by an R external pointer whose finalizer frees it once   *)
(* the garbage collector finds the pointer unreachable - at some later     *)
(* time, when further calls may already be running.                        *)
(*                                                                         *)
(* Heap addresses are reused: malloc hands out any block that is free.     *)
(***************************************************************************)
EXTENDS Naturals, FiniteSets, ZuTypes, ZuBuf

CONSTANTS
    Blocks, Null,   \* heap addresses, and NULL
    Chunk,          \* r->out_chunk
    Frames          \* bound: how many .Calls have pointers not yet finalized

ASSUME CallAssumption ==
    /\ Null \notin Blocks
    /\ Chunk \in Nat \ {0}
    /\ Frames # {}

Kinds == {"sink", "handle"}

VARIABLES
    heap,    \* what each block is allocated as, or "free"
    ptr,     \* the external pointers of each frame: state and address
    n,       \* the frame of the .Call being made, or made last
    pc,      \* where it is
    handle,  \* the local enc or dec
    buf, size, used,   \* zu_int_outbuf
    live,    \* zu_int_outbuf_live
    fault    \* a block was freed or used that was not its own

vars == <<heap, ptr, n, pc, handle, buf, size, used, live, fault>>

local == <<n, handle, buf, size, used>>

NoPtr == [state |-> "none", addr |-> Null]

Init ==
    /\ heap = [b \in Blocks |-> "free"]
    /\ ptr = [c \in Frames |-> [k \in Kinds |-> NoPtr]]
    /\ n \in Frames
    /\ pc = "idle"
    /\ handle = Null /\ buf = Null
    /\ size = 0 /\ used = 0
    /\ live = 0
    /\ fault = FALSE

----------------------------------------------------------------------------
Fresh == {b \in Blocks : heap[b] = "free"}

\* free(b).
Released(b) == [heap EXCEPT ![b] = "free"]

Sound(b, kind) == b # Null /\ heap[b] = kind

\* A longjmp unwinds the protection stack: the call's pointers are garbage.
Unwound ==
    [ptr EXCEPT ![n] = [k \in Kinds |->
        IF ptr[n][k].state = "held" THEN [ptr[n][k] EXCEPT !.state = "garbage"]
        ELSE ptr[n][k]]]

Abort == ptr' = Unwound /\ pc' = "idle" /\ UNCHANGED <<heap, n, handle, buf, size, used, live, fault>>

SetPtr(k, state, addr) == [ptr EXCEPT ![n][k] = [state |-> state, addr |-> addr]]

----------------------------------------------------------------------------
\* zu_int_outbuf_owner.  Allocates in R, and may longjmp with nothing held.
Enter ==
    /\ pc = "idle"
    /\ \E f \in Frames :
          /\ \A k \in Kinds : ptr[f][k] = NoPtr
          /\ n' = f
          /\ \/ /\ ptr' = [ptr EXCEPT ![f]["sink"].state = "held"]
                /\ pc' = "open"
             \/ pc' = "idle" /\ UNCHANGED ptr
    /\ handle' = Null /\ buf' = Null /\ size' = 0 /\ used' = 0
    /\ UNCHANGED <<heap, live, fault>>

\* zu_encoder_new or zu_decoder_new; on failure run_whole returns at once.
OpenHandle ==
    /\ pc = "open"
    /\ \/ \E b \in Fresh :
             /\ heap' = [heap EXCEPT ![b] = "handle"]
             /\ handle' = b
             /\ pc' = "guard"
       \/ pc' = "result" /\ UNCHANGED <<heap, handle>>
    /\ UNCHANGED <<ptr, n, buf, size, used, live, fault>>

\* The handle is given to R.
Guard ==
    /\ pc = "guard"
    /\ ptr' = SetPtr("handle", "held", handle)
    /\ pc' = "reserve"
    /\ UNCHANGED <<heap, local, live, fault>>

\* ... unless making the external pointer is what runs out of memory.
GuardFails == pc = "guard" /\ Abort

----------------------------------------------------------------------------
\* zu_int_reserve.
NeedFits == AddFits(used, Chunk)
Shortfall == used + Chunk - size

ReserveNothing ==
    /\ pc = "reserve"
    /\ NeedFits /\ used + Chunk <= size
    /\ pc' = "process"
    /\ UNCHANGED <<heap, ptr, local, live, fault>>

\* Mutant: the pointer is set when the sink is first allocated, and does not
\* follow it when realloc moves it.
ReserveGrowsBehindItsOwner ==
    /\ pc = "reserve"
    /\ NeedFits /\ used + Chunk > size
    /\ GrowFits(size, Shortfall)
    /\ \E b \in Fresh \cup ({buf} \ {Null}) :
          /\ heap' = [x \in Blocks |-> IF x = b THEN "sink"
                                       ELSE IF x = buf THEN "free" ELSE heap[x]]
          /\ live' = IF buf = Null THEN live + 1 ELSE live
          /\ buf' = b
          /\ ptr' = IF buf = Null THEN SetPtr("sink", "held", b) ELSE ptr
    /\ size' = Grow(size, Shortfall)
    /\ pc' = "process"
    /\ UNCHANGED <<n, handle, used, fault>>

\* realloc: in place, or to another block; the pointer follows it.
ReserveGrows ==
    /\ pc = "reserve"
    /\ NeedFits /\ used + Chunk > size
    /\ GrowFits(size, Shortfall)
    /\ \E b \in Fresh \cup ({buf} \ {Null}) :
          /\ heap' = [x \in Blocks |-> IF x = b THEN "sink"
                                       ELSE IF x = buf THEN "free" ELSE heap[x]]
          /\ fault' = (fault \/ (buf # Null /\ ~Sound(buf, "sink")))
          /\ live' = IF buf = Null THEN live + 1 ELSE live
          /\ buf' = b
          /\ ptr' = SetPtr("sink", "held", b)
    /\ size' = Grow(size, Shortfall)
    /\ pc' = "process"
    /\ UNCHANGED <<n, handle, used>>

\* The size cannot be represented, or realloc returns NULL.
ReserveFails ==
    /\ pc = "reserve"
    /\ ~(NeedFits /\ used + Chunk <= size)
    /\ pc' = "leave"
    /\ UNCHANGED <<heap, ptr, local, live, fault>>

\* zu_encoder_process or zu_decoder_process writes k bytes into the window,
\* then the loop breaks, goes round, or an interrupt longjmps out of it.
Process(k) ==
    /\ pc = "process"
    /\ used' = used + k
    /\ fault' = (fault \/ ~Sound(handle, "handle") \/ ~Sound(buf, "sink"))
    /\ \/ pc' \in {"reserve", "leave"} /\ UNCHANGED ptr
       \/ pc' = "idle" /\ ptr' = Unwound
    /\ UNCHANGED <<heap, n, handle, buf, size, live>>

\* Mutant: the handle is freed and its pointer still names it.
LeaveUncleared ==
    /\ pc = "leave"
    /\ ptr' = SetPtr("handle", "garbage", handle)
    /\ fault' = (fault \/ ~Sound(handle, "handle"))
    /\ heap' = Released(handle)
    /\ pc' = "result"
    /\ UNCHANGED <<local, live>>

\* The normal exit of zu_int_run_whole: clear the pointer, free the handle.
Leave ==
    /\ pc = "leave"
    /\ ptr' = SetPtr("handle", "garbage", Null)
    /\ fault' = (fault \/ ~Sound(handle, "handle"))
    /\ heap' = Released(handle)
    /\ pc' = "result"
    /\ UNCHANGED <<local, live>>

\* zu_int_result copies the bytes into an R vector, and may longjmp.
Result ==
    /\ pc = "result"
    /\ fault' = (fault \/ (used > 0 /\ ~Sound(buf, "sink")))
    /\ \/ pc' = "release" /\ UNCHANGED ptr
       \/ pc' = "idle" /\ ptr' = Unwound
    /\ UNCHANGED <<heap, local, live>>

\* zu_int_outbuf_release.
Release ==
    /\ pc = "release"
    /\ ptr' = SetPtr("sink", "garbage", Null)
    /\ IF buf # Null
         THEN /\ fault' = (fault \/ ~Sound(buf, "sink"))
              /\ heap' = Released(buf)
              /\ live' = live - 1
         ELSE UNCHANGED <<fault, heap, live>>
    /\ buf' = Null /\ size' = 0
    /\ pc' = "idle"
    /\ UNCHANGED <<n, handle, used>>

----------------------------------------------------------------------------
\* The finalizer of an unreachable pointer.
Finalize(c, k) ==
    /\ ptr[c][k].state = "garbage"
    /\ LET a == ptr[c][k].addr
       IN  IF a # Null
             THEN /\ fault' = (fault \/ ~Sound(a, k))
                  /\ heap' = Released(a)
                  /\ live' = IF k = "sink" THEN live - 1 ELSE live
             ELSE UNCHANGED <<fault, heap, live>>
    /\ ptr' = [ptr EXCEPT ![c][k] = NoPtr]
    /\ UNCHANGED <<pc, local>>

Next ==
    \/ Enter \/ OpenHandle \/ Guard \/ GuardFails
    \/ ReserveNothing \/ ReserveGrows \/ ReserveFails
    \/ \E k \in 0 .. Chunk : Process(k)
    \/ Leave \/ Result \/ Release
    \/ \E c \in Frames, k \in Kinds : Finalize(c, k)

Spec == Init /\ [][Next]_vars

----------------------------------------------------------------------------
\* The pointers that hold a block.
Holders(b) == {h \in Frames \X Kinds : ptr[h[1]][h[2]].addr = b}

\* No block is freed twice, used after it was freed, or freed in place of
\* another that reuses its address, however late the finalizers run: every
\* block an external pointer names is allocated as what it will be freed as,
\* and is named by that pointer alone.
FreedOnceByItsOwner ==
    /\ ~fault
    /\ \A b \in Blocks :
          /\ \A g, h \in Holders(b) : g = h
          /\ \A h \in Holders(b) : heap[b] = h[2]

\* The sink is always held by its pointer, across every move realloc makes,
\* so no longjmp can lose it; and the counter the leak test watches is the
\* number of sinks allocated.
SinkIsNeverLost ==
    /\ \A b \in Blocks : heap[b] = "sink" => Holders(b) # {}
    /\ live = Cardinality({b \in Blocks : heap[b] = "sink"})

\* The window the codec is shown lies inside the allocated block.
WindowInsideSink ==
    pc = "process" => used + Chunk <= size /\ size <= SizeMax
=============================================================================
