-------------------------- MODULE BlockCompressor --------------------------
(***************************************************************************)
(* What miniz, libzstd and liblz4 have in common as compressors, modelled  *)
(* from how the codecs use them: input is held until a block is full or    *)
(* closed by request, and the bytes of a closed block wait until there is  *)
(* room for them.                                                          *)
(*                                                                         *)
(* A context c has at least the fields level, held, pend, and lead: what   *)
(* goes before the next block, such as a frame header.  Output is tokens   *)
(* <<kind, value, level>>; a compressed byte carries the input byte it     *)
(* encodes and the level it was compressed at.                             *)
(***************************************************************************)
EXTENDS Integers, Sequences, SequencesExt

CONSTANT Block    \* input bytes in a full block

ASSUME BlockAssumption == Block \in Nat \ {0}

Compressed(bytes, level) == [i \in 1 .. Len(bytes) |-> <<"data", bytes[i], level>>]

Drop(s, k) == SubSeq(s, k + 1, Len(s))
Take(s, k) == SubSeq(s, 1, k)

\* The element of a singleton.  Only({F(x) : x \in {e}}) is F(e), with e
\* computed once by TLC however often F uses it.
Only(S) == CHOOSE x \in S : TRUE

Least(m, n) == IF m <= n THEN m ELSE n

\* Closes the block in progress, and adds the tokens `mark` behind it.
CloseBlock(c, mark) ==
    [c EXCEPT !.held = <<>>, !.lead = <<>>,
              !.pend = @ \o c.lead \o Compressed(c.held, c.level) \o mark]

\* All of `bytes` at once: the full blocks among them are closed.
Absorb(c, bytes) ==
    LET all  == c.held \o bytes
        full == (Len(all) \div Block) * Block
    IN  IF full = 0 THEN [c EXCEPT !.held = all]
        ELSE [CloseBlock([c EXCEPT !.held = Take(all, full)], <<>>) EXCEPT
                !.held = Drop(all, full)]

\* A checksum of the bytes so far and then these, as a number that depends
\* on every byte and on their order.
ChecksumUpdate(sum, bytes) ==
    LET upto[i \in 0 .. Len(bytes)] ==
            IF i = 0 THEN sum ELSE 10 * upto[i - 1] + bytes[i]
    IN  upto[Len(bytes)]

\* One library call in progress: its context, the input used, the output.
Started(c) == [c |-> c, used |-> 0, bytes |-> <<>>]

Deliver(sofar, room) ==
    LET Fill(d) == LET k == Least(Len(d.c.pend), room - Len(d.bytes))
                   IN  [d EXCEPT !.bytes = @ \o Take(d.c.pend, k),
                                 !.c.pend = Drop(d.c.pend, k)]
    IN  Only({Fill(d) : d \in {sofar}})

\* Takes input byte by byte for as long as no closed block waits for room.
Pump(c, bytes, room) ==
    LET TakeOne(d) ==
            IF d.c.pend # <<>> THEN d
            ELSE Deliver([d EXCEPT !.c = Absorb(d.c, <<bytes[d.used + 1]>>),
                                   !.used = @ + 1], room)
        turn[k \in 0 .. Len(bytes)] ==
            IF k = 0 THEN Deliver(Started(c), room)
            ELSE Only({TakeOne(d) : d \in {turn[k - 1]}})
    IN  turn[Len(bytes)]
=============================================================================
