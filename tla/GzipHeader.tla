---------------------------- MODULE GzipHeader ----------------------------
(***************************************************************************)
(* The parser of the gzip header (zu_gzip.c), which is fed one byte at a   *)
(* time because any field can straddle any number of process() calls.  A   *)
(* header has a fixed part, then up to four optional fields in a fixed     *)
(* order: a counted one, two that end with a NUL, and a checksum of what   *)
(* came before.  As elsewhere a checksum is how many bytes it covers.      *)
(***************************************************************************)
EXTENDS ZuTypes, Naturals, Sequences, SequencesExt

CONSTANTS
    HeaderLen,    \* ZU_INT_GZIP_HEADER_LEN: 10, of which the first four matter
    MaxField      \* ZU_INT_GZIP_MAX_FIELD: the longest name or comment

ASSUME GzipHeaderAssumption == HeaderLen \in Nat /\ HeaderLen >= 4 /\ MaxField \in Nat

\* FLG bits.
GZ_FHCRC    == 2
GZ_FEXTRA   == 4
GZ_FNAME    == 8
GZ_FCOMMENT == 16
GZ_RESERVED == 32    \* this bit and the two above it

HasFlag(flg, bit) == (flg \div bit) % 2 = 1

\* The first three bytes of every header: the magic, and DEFLATE.
FixedBytes == <<31, 139, 8>>

\* zu_int_gzip_header_init.
NewHeader ==
    [state |-> "FIXED", fixed_pos |-> 0, flg |-> 0, xlen |-> 0, xlen_pos |-> 0,
     xpos |-> 0, field_len |-> 0, hcrc |-> <<>>, crc |-> 0]

\* The first optional field of `order` that the flags announce.
Wanted(h, order) ==
    LET flag   == [EXTRA_LEN |-> GZ_FEXTRA, NAME |-> GZ_FNAME,
                   COMMENT |-> GZ_FCOMMENT, HCRC |-> GZ_FHCRC]
        wanted == {i \in 1 .. Len(order) : HasFlag(h.flg, flag[order[i]])}
    IN  IF wanted = {} THEN "DONE" ELSE order[Min(wanted)]

Fed(h, st) == [h |-> h, st |-> st]

MovedOn(h, order) == Fed([h EXCEPT !.state = Wanted(h, order)], ZU_OK)

FeedFixed(h, byte) ==
    LET n == h.fixed_pos + 1
        g == [h EXCEPT !.fixed_pos = n, !.flg = IF n = 4 THEN byte ELSE @]
    IN  IF (n <= 3 /\ byte # FixedBytes[n]) \/ (n = 4 /\ byte >= GZ_RESERVED)
          THEN Fed([h EXCEPT !.fixed_pos = n], ZU_ERR_INVALID_DATA)
        ELSE IF n < HeaderLen THEN Fed(g, ZU_OK)
        ELSE MovedOn(g, <<"EXTRA_LEN", "NAME", "COMMENT", "HCRC">>)

\* XLEN, little-endian, is a length to skip.
FeedExtraLen(h, byte) ==
    LET g == [h EXCEPT !.xlen = @ + byte * (IF h.xlen_pos = 0 THEN 1 ELSE 256),
                       !.xlen_pos = @ + 1]
    IN  IF g.xlen_pos < 2 THEN Fed(g, ZU_OK)
        ELSE IF g.xlen > 0 THEN Fed([g EXCEPT !.state = "EXTRA"], ZU_OK)
        ELSE MovedOn(g, <<"NAME", "COMMENT", "HCRC">>)

FeedExtra(h) ==
    LET g == [h EXCEPT !.xpos = @ + 1]
    IN  IF g.xpos < h.xlen THEN Fed(g, ZU_OK)
        ELSE MovedOn(g, <<"NAME", "COMMENT", "HCRC">>)

\* A name or a comment, bounded, and what may follow it.
FeedField(h, byte, order) ==
    LET g == [h EXCEPT !.field_len = @ + 1]
    IN  IF byte = 0 THEN MovedOn([h EXCEPT !.field_len = 0], order)
        ELSE IF g.field_len > MaxField THEN Fed(g, ZU_ERR_INVALID_DATA)
        ELSE Fed(g, ZU_OK)

FeedHcrc(h, byte) ==
    LET g == [h EXCEPT !.hcrc = Append(@, byte)]
    IN  IF Len(g.hcrc) < 2 THEN Fed(g, ZU_OK)
        ELSE IF g.hcrc[1] + 256 * g.hcrc[2] # h.crc % 65536 THEN Fed(g, ZU_ERR_CHECKSUM)
        ELSE Fed([g EXCEPT !.state = "DONE"], ZU_OK)

\* zu_int_gzip_header_feed: the header afterwards, and the status; it is
\* complete once its state is DONE.
HeaderFeed(header, byte) ==
    LET h == [header EXCEPT !.crc = IF header.state = "HCRC" THEN @ ELSE @ + 1]
    IN  CASE h.state = "FIXED"     -> FeedFixed(h, byte)
          [] h.state = "EXTRA_LEN" -> FeedExtraLen(h, byte)
          [] h.state = "EXTRA"     -> FeedExtra(h)
          [] h.state = "NAME"      -> FeedField(h, byte, <<"COMMENT", "HCRC">>)
          [] h.state = "COMMENT"   -> FeedField(h, byte, <<"HCRC">>)
          [] h.state = "HCRC"      -> FeedHcrc(h, byte)
          [] h.state = "DONE"      -> Fed(h, ZU_ERR_INTERNAL)
=============================================================================
