------------------------------- MODULE ZuBuf -------------------------------
(***************************************************************************)
(* The checked size arithmetic (zu_buf.c).  A size_t operation that would  *)
(* wrap is refused, so each operation is two operators: whether it can be  *)
(* represented, and its value when it can.                                 *)
(***************************************************************************)
EXTENDS Naturals

CONSTANTS
    SizeMax,     \* SIZE_MAX
    MinBuffer    \* ZU_INT_MIN_BUFFER

ASSUME BufAssumption ==
    SizeMax \in Nat /\ MinBuffer \in 1 .. SizeMax

\* zu_int_add and zu_int_mul.
AddFits(a, b) == b <= SizeMax - a

MulFits(a, b) == a = 0 \/ b <= SizeMax \div a

\* zu_int_grow: double, but never to less than what is needed nor to less
\* than the smallest buffer; when doubling would wrap, exactly what is needed.
GrowFits(current, needed) == AddFits(current, needed)

Doubled(current, needed) ==
    IF MulFits(current, 2) THEN 2 * current ELSE current + needed

\* Mutant: doubling is taken to be enough.
GrowDoublesOnly(current, needed) ==
    IF Doubled(current, needed) < MinBuffer THEN MinBuffer
    ELSE Doubled(current, needed)

Grow(current, needed) ==
    LET required == current + needed
        next     == IF Doubled(current, needed) > required
                      THEN Doubled(current, needed) ELSE required
    IN  IF next < MinBuffer THEN MinBuffer ELSE next
=============================================================================
