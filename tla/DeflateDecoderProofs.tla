------------------------ MODULE DeflateDecoderProofs ------------------------
(***************************************************************************)
(* Proofs about the DEFLATE family's decoder, for every input, slicing,    *)
(* limit and gzip header: its state stays in its types, it keeps the       *)
(* cursor contract, and so the loop around it implements the decoder       *)
(* handle.                                                                 *)
(***************************************************************************)
EXTENDS DeflateDecoder, DecodeLoopProofs

----------------------------------------------------------------------------
(***************************************************************************)
(* The gzip header parser.                                                 *)
(***************************************************************************)
HeaderStates == {"FIXED", "EXTRA_LEN", "EXTRA", "NAME", "COMMENT", "HCRC", "DONE"}

HeaderRecord ==
    [state : HeaderStates, fixed_pos : Nat, flg : Nat, xlen : Nat, xlen_pos : Nat,
     xpos : Nat, field_len : Nat, hcrc : Seq(Nat), crc : Nat]

\* What a byte may make of the header.
FedOk(r) == r.h \in HeaderRecord /\ r.st \in Status

\* The next field is one of those asked about, or the header is complete.
LEMMA WantedIs ==
    ASSUME NEW h, NEW order, order \in Seq(HeaderStates)
    PROVE  /\ Wanted(h, order) \in HeaderStates
           /\ \/ Wanted(h, order) = "DONE"
              \/ \E i \in 1 .. Len(order) : Wanted(h, order) = order[i]
<1>. DEFINE flag   == [EXTRA_LEN |-> GZ_FEXTRA, NAME |-> GZ_FNAME,
                       COMMENT |-> GZ_FCOMMENT, HCRC |-> GZ_FHCRC]
            wanted == {i \in 1 .. Len(order) : HasFlag(h.flg, flag[order[i]])}
<1>1. Wanted(h, order) = IF wanted = {} THEN "DONE" ELSE order[Min(wanted)]
  BY DEF Wanted
<1>2. wanted \subseteq 1 .. Len(order) /\ Len(order) \in Nat
  OBVIOUS
<1>. HIDE DEF wanted
<1>3. ASSUME wanted # {} PROVE /\ order[Min(wanted)] \in HeaderStates
                               /\ Min(wanted) \in 1 .. Len(order)
  <2>1. wanted \in SUBSET Nat
    BY <1>2
  <2>2. \E x \in wanted : \A y \in wanted : x <= y
    BY <1>3, <2>1, LeastMember
  <2>3. Min(wanted) \in wanted
    BY <2>2 DEF Min
  <2>4. Min(wanted) \in 1 .. Len(order)
    BY <1>2, <2>3
  <2>. QED  BY <2>4
<1>. QED  BY <1>1, <1>3 DEF HeaderStates

\* Moving on to the next field keeps the header in its type.
LEMMA MovedOnOk ==
    ASSUME NEW h, h \in HeaderRecord, NEW order, order \in Seq(HeaderStates)
    PROVE  FedOk(MovedOn(h, order))
<1>1. Wanted(h, order) \in HeaderStates
  BY WantedIs
<1>. DEFINE g == [h EXCEPT !.state = Wanted(h, order)]
<1>2. g \in HeaderRecord
  BY <1>1 DEF HeaderRecord
<1>3. ZU_OK \in Status
  BY DEF Status, Progress
<1>. QED  BY <1>2, <1>3 DEF MovedOn, Fed, FedOk

\* The orders in which the optional fields follow.
LEMMA OrdersAreSequences ==
    /\ <<"EXTRA_LEN", "NAME", "COMMENT", "HCRC">> \in Seq(HeaderStates)
    /\ <<"NAME", "COMMENT", "HCRC">> \in Seq(HeaderStates)
    /\ <<"COMMENT", "HCRC">> \in Seq(HeaderStates)
    /\ <<"HCRC">> \in Seq(HeaderStates)
BY DEF HeaderStates

\* A header and a status are an answer of the parser.
LEMMA FedIs ==
    ASSUME NEW h, h \in HeaderRecord, NEW st, st \in Status
    PROVE  FedOk(Fed(h, st))
BY DEF FedOk, Fed

\* The statuses the parser answers with.
LEMMA HeaderStatuses ==
    /\ ZU_OK \in Status /\ ZU_ERR_INVALID_DATA \in Status /\ ZU_ERR_CHECKSUM \in Status
    /\ ZU_ERR_INTERNAL \in Status
BY DEF Status, Progress, Errors

\* Feeding a byte keeps the header in its type, whichever field it is in.
LEMMA HeaderFeedOk ==
    ASSUME NEW header, header \in HeaderRecord, NEW byte, byte \in Nat
    PROVE  FedOk(HeaderFeed(header, byte))
<1>. DEFINE h == [header EXCEPT !.crc = IF header.state = "HCRC" THEN @ ELSE @ + 1]
<1>1. h \in HeaderRecord
  <2>1. header.crc \in Nat /\ header.crc + 1 \in Nat
    BY DEF HeaderRecord
  <2>. QED  BY <2>1 DEF HeaderRecord
<1>2. HeaderFeed(header, byte) =
        CASE h.state = "FIXED"     -> FeedFixed(h, byte)
          [] h.state = "EXTRA_LEN" -> FeedExtraLen(h, byte)
          [] h.state = "EXTRA"     -> FeedExtra(h)
          [] h.state = "NAME"      -> FeedField(h, byte, <<"COMMENT", "HCRC">>)
          [] h.state = "COMMENT"   -> FeedField(h, byte, <<"HCRC">>)
          [] h.state = "HCRC"      -> FeedHcrc(h, byte)
          [] h.state = "DONE"      -> Fed(h, ZU_ERR_INTERNAL)
  BY DEF HeaderFeed
<1>. HIDE DEF h
<1>3. /\ h.fixed_pos \in Nat /\ h.flg \in Nat /\ h.xlen \in Nat /\ h.xlen_pos \in Nat
      /\ h.xpos \in Nat /\ h.field_len \in Nat /\ h.hcrc \in Seq(Nat) /\ h.state \in HeaderStates
  BY <1>1 DEF HeaderRecord
<1>4. FedOk(FeedFixed(h, byte))
  <2>. DEFINE n == h.fixed_pos + 1
              g == [h EXCEPT !.fixed_pos = n, !.flg = IF n = 4 THEN byte ELSE @]
              e == [h EXCEPT !.fixed_pos = n]
  <2>1. n \in Nat /\ (IF n = 4 THEN byte ELSE h.flg) \in Nat
    BY <1>3
  <2>2. FeedFixed(h, byte) \in {Fed(e, ZU_ERR_INVALID_DATA), Fed(g, ZU_OK),
          MovedOn(g, <<"EXTRA_LEN", "NAME", "COMMENT", "HCRC">>)}
    BY DEF FeedFixed
  <2>. HIDE DEF n
  <2>3. g \in HeaderRecord
    BY <1>1, <2>1 DEF HeaderRecord
  <2>4. e \in HeaderRecord
    BY <1>1, <2>1 DEF HeaderRecord
  <2>. HIDE DEF g, e
  <2>. QED  BY <2>2, <2>3, <2>4, FedIs, MovedOnOk, OrdersAreSequences, HeaderStatuses
<1>5. FedOk(FeedExtraLen(h, byte))
  <2>. DEFINE m == h.xlen + byte * (IF h.xlen_pos = 0 THEN 1 ELSE 256)
              n == h.xlen_pos + 1
              g == [h EXCEPT !.xlen = @ + byte * (IF h.xlen_pos = 0 THEN 1 ELSE 256),
                             !.xlen_pos = @ + 1]
              e == [g EXCEPT !.state = "EXTRA"]
  <2>1. m \in Nat /\ n \in Nat
    BY <1>3
  <2>2. g \in HeaderRecord
    <3>1. g = [h EXCEPT !.xlen = m, !.xlen_pos = n]
      OBVIOUS
    <3>. HIDE DEF m, n, g
    <3>. QED  BY <1>1, <2>1, <3>1 DEF HeaderRecord
  <2>3. FeedExtraLen(h, byte) \in {Fed(g, ZU_OK), Fed(e, ZU_OK),
          MovedOn(g, <<"NAME", "COMMENT", "HCRC">>)}
    BY DEF FeedExtraLen
  <2>. HIDE DEF g
  <2>4. e \in HeaderRecord
    BY <2>2 DEF HeaderRecord, HeaderStates
  <2>. HIDE DEF e
  <2>. QED  BY <2>2, <2>3, <2>4, FedIs, MovedOnOk, OrdersAreSequences, HeaderStatuses
<1>6. FedOk(FeedExtra(h))
  <2>. DEFINE g == [h EXCEPT !.xpos = @ + 1]
  <2>1. h.xpos + 1 \in Nat
    BY <1>3
  <2>2. g \in HeaderRecord
    BY <1>1, <2>1 DEF HeaderRecord
  <2>3. FeedExtra(h) \in {Fed(g, ZU_OK), MovedOn(g, <<"NAME", "COMMENT", "HCRC">>)}
    BY DEF FeedExtra
  <2>. HIDE DEF g
  <2>. QED  BY <2>2, <2>3, FedIs, MovedOnOk, OrdersAreSequences, HeaderStatuses
<1>7. ASSUME NEW order, order \in Seq(HeaderStates)
      PROVE  FedOk(FeedField(h, byte, order))
  <2>. DEFINE g == [h EXCEPT !.field_len = @ + 1]
              e == [h EXCEPT !.field_len = 0]
  <2>1. h.field_len + 1 \in Nat
    BY <1>3
  <2>2. g \in HeaderRecord /\ e \in HeaderRecord
    BY <1>1, <2>1 DEF HeaderRecord
  <2>3. FeedField(h, byte, order) \in {MovedOn(e, order), Fed(g, ZU_ERR_INVALID_DATA), Fed(g, ZU_OK)}
    BY DEF FeedField
  <2>. HIDE DEF g, e
  <2>. QED  BY <1>7, <2>2, <2>3, FedIs, MovedOnOk, HeaderStatuses
<1>8. FedOk(FeedHcrc(h, byte))
  <2>. DEFINE g == [h EXCEPT !.hcrc = Append(@, byte)]
              e == [g EXCEPT !.state = "DONE"]
  <2>1. Append(h.hcrc, byte) \in Seq(Nat)
    BY <1>3
  <2>2. g \in HeaderRecord
    BY <1>1, <2>1 DEF HeaderRecord
  <2>3. FeedHcrc(h, byte) \in {Fed(g, ZU_OK), Fed(g, ZU_ERR_CHECKSUM), Fed(e, ZU_OK)}
    BY DEF FeedHcrc
  <2>. HIDE DEF g
  <2>4. e \in HeaderRecord
    BY <2>2 DEF HeaderRecord, HeaderStates
  <2>. HIDE DEF e
  <2>. QED  BY <2>2, <2>3, <2>4, FedIs, HeaderStatuses
<1>9. FedOk(Fed(h, ZU_ERR_INTERNAL))
  BY <1>1, FedIs, HeaderStatuses
<1>10. FedOk(FeedField(h, byte, <<"COMMENT", "HCRC">>)) /\ FedOk(FeedField(h, byte, <<"HCRC">>))
  BY <1>7, OrdersAreSequences
<1>. QED  BY <1>2, <1>3, <1>4, <1>5, <1>6, <1>8, <1>9, <1>10 DEF HeaderStates

\* A new header.
LEMMA NewHeaderOk == NewHeader \in HeaderRecord
<1>1. <<>> \in Seq(Nat)
  OBVIOUS
<1>. QED  BY <1>1 DEF NewHeader, HeaderRecord, HeaderStates

----------------------------------------------------------------------------
(***************************************************************************)
(* miniz.                                                                  *)
(***************************************************************************)
MzRecord == [pend : Seq(Nat), done : BOOLEAN, failed : BOOLEAN, flushed : BOOLEAN,
             first : BOOLEAN]

\* What a call of mz_inflate over n tokens and `room` bytes may answer.
InflatedOk(r, n, room) ==
    /\ r.mz \in MzRecord /\ r.mz.first = FALSE
    /\ r.bytes \in Seq(Nat) /\ Len(r.bytes) <= room
    /\ r.used \in 0 .. n
    /\ r.code \in {"OK", "BUF_ERROR", "STREAM_END", "DATA_ERROR", "STREAM_ERROR"}

\* tinfl reads no further than it is given, and writes bytes.
LEMMA TinflOk ==
    ASSUME LoopInv, NEW n, Visible(n), NEW finish
    PROVE  /\ Tinfl(n, finish).used \in 0 .. n
           /\ Tinfl(n, finish).bytes \in Seq(Nat)
           /\ Tinfl(n, finish).status \in {"DONE", "FAILED", "NEEDS_MORE_INPUT"}
<1>. DEFINE stops == {k \in 1 .. n : Ahead(k)[1] # "lit"}
            stop  == CHOOSE k \in stops : \A j \in stops : k <= j
            ends  == stops # {} /\ Ahead(stop)[1] = "end"
            used  == IF stops = {} THEN n ELSE stop
            good  == IF stops = {} \/ ends THEN used ELSE used - 1
<1>0. n \in Nat /\ pos \in Nat /\ pos + n <= Len(job.input) /\ Len(job.input) \in Nat /\ job \in Jobs
  BY LoopFacts DEF Visible
<1>1. stops # {} => stop \in 1 .. n
  <2>. SUFFICES ASSUME stops # {} PROVE stop \in 1 .. n
    OBVIOUS
  <2>1. stops \in SUBSET Nat /\ stops \subseteq 1 .. n
    BY <1>0
  <2>. HIDE DEF stops
  <2>2. \E x \in stops : \A y \in stops : x <= y
    BY <2>1, LeastMember
  <2>3. stop \in stops
    BY <2>2
  <2>. QED  BY <2>1, <2>3
<1>2. /\ Tinfl(n, finish).used = used
      /\ Tinfl(n, finish).bytes = FlattenSeq([k \in 1 .. good |-> BytesOf(pos + k)])
      /\ Tinfl(n, finish).status \in {"DONE", "FAILED", "NEEDS_MORE_INPUT"}
  BY DEF Tinfl
<1>. HIDE DEF stops, stop, ends
<1>3. used \in 0 .. n /\ good \in 0 .. n
  <2>1. used \in 0 .. n /\ (stops # {} => used \in 1 .. n)
    BY <1>0, <1>1
  <2>. HIDE DEF used
  <2>. QED  BY <1>0, <2>1
<1>. HIDE DEF used, good
<1>4. Run(pos, good) = [k \in 1 .. good |-> BytesOf(pos + k)]
  BY DEF Run
<1>5. good \in Nat /\ pos + good <= Len(job.input)
  BY <1>0, <1>3
<1>6. FlattenSeq(Run(pos, good)) \in Seq(Nat)
  BY <1>0, <1>5, RunBytes
<1>. QED  BY <1>2, <1>3, <1>4, <1>6

\* Copying out what fits leaves the rest pending.
LEMMA DeliverOk ==
    ASSUME NEW m, m \in MzRecord, NEW bytes, bytes \in Seq(Nat), NEW room, room \in Nat
    PROVE  /\ Deliver(m, bytes, room).mz \in MzRecord
           /\ Deliver(m, bytes, room).bytes \in Seq(Nat)
           /\ Len(Deliver(m, bytes, room).bytes) <= room
           /\ Deliver(m, bytes, room).mz.first = m.first
<1>. DEFINE n == LeastOf(Len(bytes), room)
<1>0. Len(bytes) \in Nat
  OBVIOUS
<1>1. n \in Nat /\ n <= Len(bytes) /\ n <= room
  BY <1>0 DEF LeastOf
<1>2. /\ Deliver(m, bytes, room).mz = [m EXCEPT !.pend = SubSeq(bytes, n + 1, Len(bytes))]
      /\ Deliver(m, bytes, room).bytes = SubSeq(bytes, 1, n)
  BY DEF Deliver
<1>. HIDE DEF n
<1>3. /\ SubSeq(bytes, 0 + 1, 0 + n) \in Seq(Nat) /\ Len(SubSeq(bytes, 0 + 1, 0 + n)) = n
      /\ SubSeq(bytes, n + 1, Len(bytes)) \in Seq(Nat)
  <2>1. 0 + n <= Len(bytes) /\ n + 0 <= Len(bytes)
    BY <1>0, <1>1
  <2>. QED  BY <1>1, <2>1, Slice
<1>4. 0 + 1 = 1 /\ 0 + n = n
  BY <1>1
<1>5. /\ [m EXCEPT !.pend = SubSeq(bytes, n + 1, Len(bytes))] \in MzRecord
      /\ [m EXCEPT !.pend = SubSeq(bytes, n + 1, Len(bytes))].first = m.first
  BY <1>3 DEF MzRecord
<1>. QED  BY <1>1, <1>2, <1>3, <1>4, <1>5

\* mz_inflate moves within what it is given, when it is not asked to decode
\* the whole stream in its first call.
LEMMA MzInflateOk ==
    ASSUME LoopInv, NEW m, m \in MzRecord, NEW n, Visible(n), NEW room, room \in Nat,
           NEW fl, ~(m.first /\ fl = "FINISH")
    PROVE  InflatedOk(MzInflate(m, n, room, fl), n, room)
<1>. DEFINE m0 == [m EXCEPT !.first = FALSE]
            m1 == [m EXCEPT !.first = FALSE, !.flushed = @ \/ fl = "FINISH"]
            t  == Tinfl(n, fl = "FINISH")
            m2 == [m1 EXCEPT !.done = t.status = "DONE", !.failed = t.status = "FAILED"]
            d  == Deliver(m2, t.bytes, room)
            e  == Deliver(m1, m.pend, room)
            z  == Deliver(m0, m.pend, 0)
            code1 == IF m.done /\ e.mz.pend = <<>> THEN "STREAM_END" ELSE "OK"
            code2 == CASE t.status = "FAILED" -> "DATA_ERROR"
                       [] t.status = "NEEDS_MORE_INPUT" -> IF n = 0 THEN "BUF_ERROR" ELSE "OK"
                       [] t.status = "DONE" -> IF d.mz.pend = <<>> THEN "STREAM_END"
                                               ELSE IF fl = "FINISH" THEN "BUF_ERROR"
                                               ELSE "OK"
<1>0. n \in Nat /\ 0 \in 0 .. n /\ m.pend \in Seq(Nat) /\ m.flushed \in BOOLEAN
  BY DEF Visible, MzRecord
<1>1. /\ t.used \in 0 .. n /\ t.bytes \in Seq(Nat)
      /\ t.status \in {"DONE", "FAILED", "NEEDS_MORE_INPUT"}
  BY TinflOk
<1>2. \/ MzInflate(m, n, room, fl) = Inflated(z, 0, "DATA_ERROR")
      \/ MzInflate(m, n, room, fl) = Inflated(z, 0, "STREAM_ERROR")
      \/ MzInflate(m, n, room, fl) = Inflated(e, 0, code1)
      \/ MzInflate(m, n, room, fl) = Inflated(d, t.used, code2)
  BY DEF MzInflate
<1>3. m1 \in MzRecord /\ m1.first = FALSE /\ m0 \in MzRecord /\ m0.first = FALSE
  <2>1. (m.flushed \/ fl = "FINISH") \in BOOLEAN
    OBVIOUS
  <2>. QED  BY <2>1 DEF MzRecord
<1>. HIDE DEF t, m0, m1
<1>4. m2 \in MzRecord /\ m2.first = FALSE
  <2>1. (t.status = "DONE") \in BOOLEAN /\ (t.status = "FAILED") \in BOOLEAN
    OBVIOUS
  <2>. QED  BY <1>3, <2>1 DEF MzRecord
<1>. HIDE DEF m2
<1>5. z.mz \in MzRecord /\ z.mz.first = FALSE /\ z.bytes \in Seq(Nat) /\ Len(z.bytes) <= room
  <2>1. z.mz \in MzRecord /\ z.mz.first = FALSE /\ z.bytes \in Seq(Nat) /\ Len(z.bytes) <= 0
    BY <1>0, <1>3, DeliverOk
  <2>2. Len(z.bytes) \in Nat
    BY <2>1
  <2>. HIDE DEF z
  <2>. QED  BY <2>1, <2>2
<1>6. e.mz \in MzRecord /\ e.mz.first = FALSE /\ e.bytes \in Seq(Nat) /\ Len(e.bytes) <= room
  BY <1>0, <1>3, DeliverOk
<1>7. d.mz \in MzRecord /\ d.mz.first = FALSE /\ d.bytes \in Seq(Nat) /\ Len(d.bytes) <= room
  BY <1>1, <1>4, DeliverOk
<1>8. code1 \in {"OK", "STREAM_END"} /\ code2 \in {"OK", "BUF_ERROR", "STREAM_END", "DATA_ERROR"}
  <2>. HIDE DEF d, e
  <2>. QED  BY <1>1
<1>. HIDE DEF d, e, z, code1, code2
<1>. QED  BY <1>0, <1>1, <1>2, <1>5, <1>6, <1>7, <1>8 DEF Inflated, InflatedOk

----------------------------------------------------------------------------
(***************************************************************************)
(* The codec.                                                              *)
(***************************************************************************)
DeflateRecord ==
    [state : {"HEADER", "BODY", "TRAILER", "MEMBER_END", "DONE"}, hdr : Nat, gz : HeaderRecord,
     tail : Seq(STRING \X Nat), sum : Nat, probe : BOOLEAN, called : BOOLEAN, mz : MzRecord]

DeflateInv == LoopInv /\ s \in DeflateRecord

\* A new decoder is in its type, whatever the wrapper.
LEMMA NewStateOk == \A wrap : NewState(wrap) \in DeflateRecord
<1>1. <<>> \in Seq(Nat) /\ <<>> \in Seq(STRING \X Nat)
  OBVIOUS
<1>2. FreshInflater \in MzRecord
  BY <1>1 DEF FreshInflater, MzRecord
<1>. QED  BY <1>1, <1>2, NewHeaderOk DEF NewState, DeflateRecord

\* The fields that are set one or two at a time.
LEMMA DeflateChange ==
    ASSUME s \in DeflateRecord
    PROVE  /\ \A st \in {"HEADER", "BODY", "TRAILER", "MEMBER_END", "DONE"} :
                [s EXCEPT !.state = st] \in DeflateRecord
           /\ \A g \in HeaderRecord : [s EXCEPT !.gz = g] \in DeflateRecord
           /\ [s EXCEPT !.hdr = @ + 1] \in DeflateRecord
           /\ [s EXCEPT !.probe = TRUE] \in DeflateRecord
           /\ [s EXCEPT !.state = "DONE", !.probe = FALSE] \in DeflateRecord
           /\ \A q \in Seq(STRING \X Nat) : [s EXCEPT !.tail = q] \in DeflateRecord
<1>1. s.hdr + 1 \in Nat
  BY DEF DeflateRecord
<1>. QED  BY <1>1 DEF DeflateRecord

\* A header byte.
LEMMA ByteIsNat == \A t \in STRING \X Nat : ByteOf(t) \in Nat
BY DEF ByteOf

\* The first token in front of the cursor.
LEMMA FirstAhead ==
    ASSUME LoopInv, pc = "codec", AvailIn > 0
    PROVE  /\ Ahead(1) \in STRING \X Nat /\ pos + 1 \in pos .. fed
<1>1. AvailIn \in Nat /\ 1 \in 0 .. AvailIn
  BY VisibleFacts
<1>2. [i \in 1 .. 1 |-> Ahead(i)] \in Seq(STRING \X Nat) /\ Len([i \in 1 .. 1 |-> Ahead(i)]) = 1
  BY <1>1, AheadTokens
<1>. DEFINE q == [i \in 1 .. 1 |-> Ahead(i)]
<1>3. q[1] = Ahead(1)
  OBVIOUS
<1>. HIDE DEF q
<1>4. q \in Seq(STRING \X Nat) /\ Len(q) = 1
  BY <1>2 DEF q
<1>5. q[1] \in STRING \X Nat
  BY <1>4
<1>. QED  BY <1>1, <1>3, <1>5, VisibleFacts

----------------------------------------------------------------------------
(***************************************************************************)
(* The buffers a decoder in use keeps its bytes in.                        *)
(***************************************************************************)
\* A header in use: every counter is inside the array or the field it counts,
\* and a field not reached yet is untouched.
HeaderFits(h) ==
    /\ h.state = "FIXED" => h.fixed_pos < HeaderLen /\ h.xlen_pos = 0
    /\ h.state \in {"FIXED", "EXTRA_LEN"} => h.xpos = 0
    /\ h.state = "EXTRA_LEN" => h.xlen_pos < 2
    /\ h.state = "EXTRA" => h.xpos < h.xlen
    /\ h.field_len <= MaxField
    /\ h.state \notin {"NAME", "COMMENT"} => h.field_len = 0
    /\ h.state \notin {"HCRC", "DONE"} => h.hcrc = <<>>
    /\ h.state = "HCRC" => Len(h.hcrc) < 2
    /\ Len(h.hcrc) <= 2

\* Moving on begins the next field from nothing.
LEMMA MovedOnFits ==
    ASSUME NEW h, h \in HeaderRecord, h.hcrc = <<>>, h.field_len = 0,
           NEW order, order \in Seq(HeaderStates),
           \A i \in 1 .. Len(order) : /\ order[i] \notin {"FIXED", "EXTRA"}
                                      /\ order[i] = "EXTRA_LEN" => h.xlen_pos = 0 /\ h.xpos = 0
    PROVE  HeaderFits(MovedOn(h, order).h)
<1>. DEFINE w == Wanted(h, order)
            g == [h EXCEPT !.state = w]
<1>1. w = "DONE" \/ \E i \in 1 .. Len(order) : w = order[i]
  BY WantedIs
<1>2. w \in HeaderStates /\ w \notin {"FIXED", "EXTRA"}
      /\ (w = "EXTRA_LEN" => h.xlen_pos = 0 /\ h.xpos = 0)
  BY <1>1, WantedIs
<1>. HIDE DEF w
<1>3. /\ g.state = w /\ g.hcrc = <<>> /\ g.field_len = 0 /\ g.xlen_pos = h.xlen_pos
      /\ g.xpos = h.xpos /\ g.xlen = h.xlen /\ g.fixed_pos = h.fixed_pos
  BY DEF HeaderRecord
<1>4. MovedOn(h, order).h = g
  BY DEF MovedOn, Fed, w
<1>5. Len(g.hcrc) = 0 /\ MaxField \in Nat
  BY <1>3, GzipHeaderAssumption
<1>. HIDE DEF g
<1>. QED  BY <1>2, <1>3, <1>4, <1>5 DEF HeaderFits

\* What a byte makes of a header in use: an error, or a header in use.
FedFits(r) == r.st \in Errors \/ (r.st = ZU_OK /\ HeaderFits(r.h))

\* Moving on is an answer without error.
LEMMA MovedOnFed ==
    ASSUME NEW h, NEW order, HeaderFits(MovedOn(h, order).h)
    PROVE  FedFits(MovedOn(h, order))
BY DEF FedFits, MovedOn, Fed

\* The errors of the header parser.
LEMMA HeaderErrors ==
    ZU_ERR_INVALID_DATA \in Errors /\ ZU_ERR_CHECKSUM \in Errors /\ ZU_ERR_INTERNAL \in Errors
BY DEF Errors

\* No byte takes the parser beyond its arrays (zu_int_gzip_header_feed).
LEMMA HeaderFeedFits ==
    ASSUME NEW header, header \in HeaderRecord, HeaderFits(header), NEW byte, byte \in Nat
    PROVE  FedFits(HeaderFeed(header, byte))
<1>. DEFINE h == [header EXCEPT !.crc = IF header.state = "HCRC" THEN @ ELSE @ + 1]
<1>0. MaxField \in Nat /\ HeaderLen \in Nat
  BY GzipHeaderAssumption
<1>1. /\ h \in HeaderRecord /\ HeaderFits(h)
  <2>1. header.crc \in Nat /\ header.crc + 1 \in Nat
    BY DEF HeaderRecord
  <2>2. h \in HeaderRecord
    BY <2>1 DEF HeaderRecord
  <2>3. /\ h.state = header.state /\ h.hcrc = header.hcrc /\ h.field_len = header.field_len
        /\ h.xlen_pos = header.xlen_pos /\ h.xpos = header.xpos /\ h.xlen = header.xlen
        /\ h.fixed_pos = header.fixed_pos
    BY DEF HeaderRecord
  <2>. HIDE DEF h
  <2>. QED  BY <2>2, <2>3 DEF HeaderFits
<1>2. HeaderFeed(header, byte) =
        CASE h.state = "FIXED"     -> FeedFixed(h, byte)
          [] h.state = "EXTRA_LEN" -> FeedExtraLen(h, byte)
          [] h.state = "EXTRA"     -> FeedExtra(h)
          [] h.state = "NAME"      -> FeedField(h, byte, <<"COMMENT", "HCRC">>)
          [] h.state = "COMMENT"   -> FeedField(h, byte, <<"HCRC">>)
          [] h.state = "HCRC"      -> FeedHcrc(h, byte)
          [] h.state = "DONE"      -> Fed(h, ZU_ERR_INTERNAL)
  BY DEF HeaderFeed
<1>. HIDE DEF h
<1>3. /\ h.fixed_pos \in Nat /\ h.flg \in Nat /\ h.xlen \in Nat /\ h.xlen_pos \in Nat
      /\ h.xpos \in Nat /\ h.field_len \in Nat /\ h.hcrc \in Seq(Nat) /\ h.state \in HeaderStates
  BY <1>1 DEF HeaderRecord
<1>4. ASSUME h.state = "FIXED" PROVE FedFits(FeedFixed(h, byte))
  <2>. DEFINE n == h.fixed_pos + 1
              g == [h EXCEPT !.fixed_pos = n, !.flg = IF n = 4 THEN byte ELSE @]
              e == [h EXCEPT !.fixed_pos = n]
              order == <<"EXTRA_LEN", "NAME", "COMMENT", "HCRC">>
  <2>1. /\ h.xlen_pos = 0 /\ h.xpos = 0 /\ h.field_len = 0 /\ h.hcrc = <<>>
    BY <1>1, <1>4 DEF HeaderFits
  <2>2. n \in Nat /\ (IF n = 4 THEN byte ELSE h.flg) \in Nat
    BY <1>3
  <2>3. \/ FeedFixed(h, byte) = Fed(e, ZU_ERR_INVALID_DATA)
        \/ n < HeaderLen /\ FeedFixed(h, byte) = Fed(g, ZU_OK)
        \/ FeedFixed(h, byte) = MovedOn(g, order)
    BY DEF FeedFixed
  <2>. HIDE DEF n
  <2>4. g \in HeaderRecord
    BY <1>1, <2>2 DEF HeaderRecord
  <2>5. /\ g.state = "FIXED" /\ g.hcrc = <<>> /\ g.field_len = 0 /\ g.xlen_pos = 0
        /\ g.xpos = 0 /\ g.fixed_pos = n
    BY <1>1, <1>4, <2>1 DEF HeaderRecord
  <2>. HIDE DEF g, e
  <2>6. HeaderFits(MovedOn(g, order).h)
    <3>1. order \in Seq(HeaderStates)
      BY OrdersAreSequences
    <3>2. \A i \in 1 .. Len(order) : order[i] \notin {"FIXED", "EXTRA"}
      OBVIOUS
    <3>. HIDE DEF order
    <3>. QED  BY <2>4, <2>5, <3>1, <3>2, MovedOnFits
  <2>. HIDE DEF order
  <2>7. n < HeaderLen => HeaderFits(g)
    BY <1>0, <2>5 DEF HeaderFits
  <2>. QED  BY <2>3, <2>6, <2>7, MovedOnFed, HeaderErrors DEF Fed, FedFits
<1>5. ASSUME h.state = "EXTRA_LEN" PROVE FedFits(FeedExtraLen(h, byte))
  <2>. DEFINE g == [h EXCEPT !.xlen = @ + byte * (IF h.xlen_pos = 0 THEN 1 ELSE 256),
                             !.xlen_pos = @ + 1]
              e == [g EXCEPT !.state = "EXTRA"]
              order == <<"NAME", "COMMENT", "HCRC">>
  <2>1. h.xlen_pos < 2 /\ h.xpos = 0 /\ h.field_len = 0 /\ h.hcrc = <<>>
    BY <1>1, <1>5 DEF HeaderFits
  <2>3. g \in HeaderRecord
    <3>. DEFINE m == h.xlen + byte * (IF h.xlen_pos = 0 THEN 1 ELSE 256)
                n == h.xlen_pos + 1
    <3>1. m \in Nat /\ n \in Nat
      BY <1>3
    <3>2. g = [h EXCEPT !.xlen = m, !.xlen_pos = n]
      OBVIOUS
    <3>. HIDE DEF m, n, g
    <3>. QED  BY <1>1, <3>1, <3>2 DEF HeaderRecord
  <2>4. /\ g.state = "EXTRA_LEN" /\ g.hcrc = <<>> /\ g.field_len = 0 /\ g.xpos = 0
    BY <1>1, <1>5, <2>1 DEF HeaderRecord
  <2>5. \/ g.xlen_pos < 2 /\ FeedExtraLen(h, byte) = Fed(g, ZU_OK)
        \/ g.xlen > 0 /\ FeedExtraLen(h, byte) = Fed(e, ZU_OK)
        \/ FeedExtraLen(h, byte) = MovedOn(g, order)
    BY DEF FeedExtraLen
  <2>. HIDE DEF g
  <2>6. /\ e.state = "EXTRA" /\ e.hcrc = <<>> /\ e.field_len = 0 /\ e.xpos = 0 /\ e.xlen = g.xlen
    BY <2>3, <2>4 DEF HeaderRecord
  <2>. HIDE DEF e
  <2>7. HeaderFits(MovedOn(g, order).h)
    <3>1. order \in Seq(HeaderStates)
      BY OrdersAreSequences
    <3>2. \A i \in 1 .. Len(order) : order[i] \notin {"FIXED", "EXTRA", "EXTRA_LEN"}
      OBVIOUS
    <3>. HIDE DEF order
    <3>. QED  BY <2>3, <2>4, <3>1, <3>2, MovedOnFits
  <2>. HIDE DEF order
  <2>8. (g.xlen_pos < 2 => HeaderFits(g)) /\ (g.xlen > 0 => HeaderFits(e))
    BY <1>0, <2>4, <2>6 DEF HeaderFits
  <2>. QED  BY <2>5, <2>7, <2>8, MovedOnFed DEF Fed, FedFits
<1>6. ASSUME h.state = "EXTRA" PROVE FedFits(FeedExtra(h))
  <2>. DEFINE g == [h EXCEPT !.xpos = @ + 1]
              order == <<"NAME", "COMMENT", "HCRC">>
  <2>1. h.field_len = 0 /\ h.hcrc = <<>>
    BY <1>1, <1>6 DEF HeaderFits
  <2>2. h.xpos + 1 \in Nat
    BY <1>3
  <2>3. g \in HeaderRecord
    BY <1>1, <2>2 DEF HeaderRecord
  <2>4. g.state = "EXTRA" /\ g.hcrc = <<>> /\ g.field_len = 0 /\ g.xlen = h.xlen
    BY <1>1, <1>6, <2>1 DEF HeaderRecord
  <2>5. \/ g.xpos < h.xlen /\ FeedExtra(h) = Fed(g, ZU_OK)
        \/ FeedExtra(h) = MovedOn(g, order)
    BY DEF FeedExtra
  <2>. HIDE DEF g
  <2>6. HeaderFits(MovedOn(g, order).h)
    <3>1. order \in Seq(HeaderStates)
      BY OrdersAreSequences
    <3>2. \A i \in 1 .. Len(order) : order[i] \notin {"FIXED", "EXTRA", "EXTRA_LEN"}
      OBVIOUS
    <3>. HIDE DEF order
    <3>. QED  BY <2>3, <2>4, <3>1, <3>2, MovedOnFits
  <2>. HIDE DEF order
  <2>7. g.xpos < h.xlen => HeaderFits(g)
    BY <1>0, <2>4 DEF HeaderFits
  <2>. QED  BY <2>5, <2>6, <2>7, MovedOnFed DEF Fed, FedFits
<1>7. ASSUME h.state \in {"NAME", "COMMENT"}, NEW order, order \in Seq(HeaderStates),
             \A i \in 1 .. Len(order) : order[i] \notin {"FIXED", "EXTRA", "EXTRA_LEN"}
      PROVE  FedFits(FeedField(h, byte, order))
  <2>. DEFINE g == [h EXCEPT !.field_len = @ + 1]
              e == [h EXCEPT !.field_len = 0]
  <2>1. h.hcrc = <<>>
    BY <1>1, <1>7 DEF HeaderFits
  <2>2. h.field_len + 1 \in Nat
    BY <1>3
  <2>3. g \in HeaderRecord /\ e \in HeaderRecord
    BY <1>1, <2>2 DEF HeaderRecord
  <2>4. g.state = h.state /\ g.hcrc = <<>> /\ e.hcrc = <<>> /\ e.field_len = 0
    BY <1>1, <2>1 DEF HeaderRecord
  <2>5. \/ FeedField(h, byte, order) = MovedOn(e, order)
        \/ FeedField(h, byte, order) = Fed(g, ZU_ERR_INVALID_DATA)
        \/ ~(g.field_len > MaxField) /\ FeedField(h, byte, order) = Fed(g, ZU_OK)
    BY DEF FeedField
  <2>6. g.field_len \in Nat
    BY <2>3 DEF HeaderRecord
  <2>. HIDE DEF g, e
  <2>7. HeaderFits(MovedOn(e, order).h)
    BY <1>7, <2>3, <2>4, MovedOnFits
  <2>8. ~(g.field_len > MaxField) => HeaderFits(g)
    <3>1. ~(g.field_len > MaxField) => g.field_len <= MaxField
      BY <1>0, <2>6
    <3>2. Len(g.hcrc) = 0
      BY <2>4
    <3>. QED  BY <1>7, <2>4, <3>1, <3>2 DEF HeaderFits
  <2>. QED  BY <2>5, <2>7, <2>8, MovedOnFed, HeaderErrors DEF Fed, FedFits
<1>8. ASSUME h.state = "HCRC" PROVE FedFits(FeedHcrc(h, byte))
  <2>. DEFINE g == [h EXCEPT !.hcrc = Append(@, byte)]
              e == [g EXCEPT !.state = "DONE"]
  <2>1. Len(h.hcrc) < 2 /\ h.field_len = 0
    BY <1>1, <1>8 DEF HeaderFits
  <2>2. Append(h.hcrc, byte) \in Seq(Nat) /\ Len(Append(h.hcrc, byte)) = Len(h.hcrc) + 1
        /\ Len(h.hcrc) \in Nat
    BY <1>3
  <2>3. g \in HeaderRecord
    BY <1>1, <2>2 DEF HeaderRecord
  <2>4. g.state = "HCRC" /\ g.hcrc = Append(h.hcrc, byte) /\ g.field_len = 0
    BY <1>1, <1>8, <2>1 DEF HeaderRecord
  <2>5. \/ Len(g.hcrc) < 2 /\ FeedHcrc(h, byte) = Fed(g, ZU_OK)
        \/ FeedHcrc(h, byte) = Fed(g, ZU_ERR_CHECKSUM)
        \/ FeedHcrc(h, byte) = Fed(e, ZU_OK)
    BY DEF FeedHcrc
  <2>. HIDE DEF g
  <2>6. e.state = "DONE" /\ e.hcrc = g.hcrc /\ e.field_len = 0
    BY <2>3, <2>4 DEF HeaderRecord
  <2>. HIDE DEF e
  <2>7. Len(g.hcrc) \in Nat /\ Len(g.hcrc) <= 2 /\ Len(e.hcrc) <= 2
    BY <2>1, <2>2, <2>4, <2>6
  <2>8. (Len(g.hcrc) < 2 => HeaderFits(g)) /\ HeaderFits(e)
    BY <1>0, <2>4, <2>6, <2>7 DEF HeaderFits
  <2>. QED  BY <2>5, <2>8, HeaderErrors DEF Fed, FedFits
<1>9. FedFits(Fed(h, ZU_ERR_INTERNAL))
  BY HeaderErrors DEF Fed, FedFits
<1>10. /\ h.state = "NAME" => FedFits(FeedField(h, byte, <<"COMMENT", "HCRC">>))
       /\ h.state = "COMMENT" => FedFits(FeedField(h, byte, <<"HCRC">>))
  <2>. DEFINE first == <<"COMMENT", "HCRC">>
              second == <<"HCRC">>
  <2>1. /\ \A i \in 1 .. Len(first) : first[i] \notin {"FIXED", "EXTRA", "EXTRA_LEN"}
        /\ \A i \in 1 .. Len(second) : second[i] \notin {"FIXED", "EXTRA", "EXTRA_LEN"}
    OBVIOUS
  <2>2. first \in Seq(HeaderStates) /\ second \in Seq(HeaderStates)
    BY OrdersAreSequences
  <2>. HIDE DEF first, second
  <2>3. /\ h.state = "NAME" => FedFits(FeedField(h, byte, first))
        /\ h.state = "COMMENT" => FedFits(FeedField(h, byte, second))
    BY <1>7, <2>1, <2>2
  <2>. QED  BY <2>3 DEF first, second
<1>. QED  BY <1>2, <1>3, <1>4, <1>5, <1>6, <1>8, <1>9, <1>10 DEF HeaderStates

----------------------------------------------------------------------------
(***************************************************************************)
(* The codec's turns.                                                      *)
(***************************************************************************)
\* A decoder in use has each of its arrays within bounds, the two header
\* bytes of zlib just read, a gzip header still to complete, and a held magic
\* byte only between two members.
BuffersHold ==
    pc \in {"open", "call", "codec"} =>
        /\ HeaderFits(s.gz)
        /\ s.state = "HEADER" => s.gz.state # "DONE"
        /\ job.wrap = "zlib" /\ s.state = "HEADER" => s.hdr = pos /\ s.hdr <= 2
        /\ Len(s.tail) <= TailLen
        /\ s.probe = TRUE => s.state = "MEMBER_END" /\ Concat

\* What mz_called stands for: miniz has been called since the member began,
\* so that MZ_FINISH no longer asks for the whole stream at once.
CalledHolds == s.called => s.mz.first = FALSE

\* The invariant of the decoder.
DecoderInv == DeflateInv /\ BuffersHold /\ CalledHolds

\* A turn keeps the job and leaves the cursor where it says.
LEMMA AfterTurn ==
    ASSUME NEW p, NEW o, Continue(p, o) \/ \E st \in Status : Return(st, p, o)
    PROVE  job' = job /\ pos' = p /\ Concat' = Concat /\ TailLen' = TailLen
<1>1. job' = job /\ pos' = p
  BY DEF Continue, Return
<1>. QED  BY <1>1 DEF Concat, TailLen

\* The statuses the codec returns.
LEMMA DeflateStatuses ==
    /\ ZU_OK \in Status /\ ZU_ERR_INVALID_DATA \in Status /\ ZU_ERR_CHECKSUM \in Status
    /\ ZU_ERR_UNSUPPORTED \in Status /\ ZU_ERR_TRAILING \in Status /\ ZU_STREAM_END \in Status
    /\ ZU_NEED_INPUT \in Status /\ Starved \in Status /\ Stall \in Status
    /\ \A e \in Errors : e \in Status
BY DEF Status, Progress, Errors, Starved, Stall

\* Success is no error.
LEMMA OkIsNoError == ZU_OK \notin Errors
BY DEF Errors, ZU_OK,
         ZU_ERR_INVALID_ARGUMENT, ZU_ERR_UNSUPPORTED, ZU_ERR_INVALID_DATA, ZU_ERR_TRUNCATED,
         ZU_ERR_CHECKSUM, ZU_ERR_TRAILING, ZU_ERR_MEMORY, ZU_ERR_OUTPUT_LIMIT,
         ZU_ERR_RATIO_LIMIT, ZU_ERR_INTERNAL

\* Between members the header parser starts again, with the held byte in it.
LEMMA NextMemberOk ==
    /\ NextMember \in DeflateRecord /\ HeaderFits(NextMember.gz)
    /\ NextMember.state = "HEADER" /\ NextMember.gz.state # "DONE"
    /\ NextMember.tail = <<>> /\ NextMember.probe = FALSE
<1>. DEFINE r == HeaderFeed(NewHeader, 31)
<1>1. /\ NewHeader.state = "FIXED" /\ NewHeader.fixed_pos = 0 /\ NewHeader.crc = 0
      /\ NewHeader.xlen_pos = 0 /\ NewHeader.xpos = 0 /\ NewHeader.field_len = 0
      /\ NewHeader.hcrc = <<>> /\ NewHeader.xlen = 0
  BY DEF NewHeader
<1>2. HeaderFits(NewHeader)
  <2>1. Len(NewHeader.hcrc) = 0
    BY <1>1
  <2>. QED  BY <1>1, <2>1, GzipHeaderAssumption DEF HeaderFits
<1>3. r.h.state = "FIXED" /\ r.st = ZU_OK
  <2>. DEFINE h == [NewHeader EXCEPT !.crc = IF NewHeader.state = "HCRC" THEN @ ELSE @ + 1]
              n == h.fixed_pos + 1
              e == [h EXCEPT !.fixed_pos = n, !.flg = IF n = 4 THEN 31 ELSE @]
  <2>1. h \in HeaderRecord
    BY <1>1, NewHeaderOk DEF HeaderRecord
  <2>2. h.state = "FIXED" /\ h.fixed_pos = 0
    BY <1>1, NewHeaderOk DEF HeaderRecord
  <2>3. r = FeedFixed(h, 31)
    <3>. HIDE DEF h
    <3>1. r = FeedFixed([NewHeader EXCEPT !.crc = IF NewHeader.state = "HCRC" THEN @ ELSE @ + 1], 31)
      BY <2>2 DEF HeaderFeed, h
    <3>. QED  BY <3>1 DEF h
  <2>. HIDE DEF h
  <2>4. n = 1 /\ FixedBytes[1] = 31 /\ 1 < HeaderLen
    BY <2>2, GzipHeaderAssumption DEF FixedBytes
  <2>5. FeedFixed(h, 31) = Fed(e, ZU_OK)
    BY <2>4 DEF FeedFixed
  <2>6. e.state = "FIXED"
    BY <2>1, <2>2 DEF HeaderRecord
  <2>7. r = Fed(e, ZU_OK)
    BY <2>3, <2>5
  <2>. HIDE DEF r, e
  <2>. QED  BY <2>6, <2>7 DEF Fed
<1>4. r.h \in HeaderRecord
  BY NewHeaderOk, HeaderFeedOk DEF FedOk
<1>5. FedFits(r)
  BY NewHeaderOk, <1>2, HeaderFeedFits
<1>6. ZU_OK \notin Errors
  BY OkIsNoError
<1>7. HeaderFits(r.h)
  BY <1>3, <1>5, <1>6 DEF FedFits
<1>. HIDE DEF r
<1>. DEFINE N == NewState("gzip")
            x == IF s.probe THEN r.h ELSE NewHeader
<1>8. N \in DeflateRecord
  BY NewStateOk
<1>9. N.gz = NewHeader /\ N.state = "HEADER" /\ N.tail = <<>> /\ N.probe = FALSE
  BY DEF NewState
<1>10. x \in HeaderRecord /\ HeaderFits(x) /\ x.state = "FIXED"
  BY <1>1, <1>2, <1>3, <1>4, <1>7, NewHeaderOk
<1>11. NextMember = [N EXCEPT !.gz = x]
  BY <1>9 DEF NextMember, r
<1>. HIDE DEF N, x
<1>12. [N EXCEPT !.gz = x] \in DeflateRecord
  BY <1>8, <1>10 DEF DeflateRecord
<1>13. /\ [N EXCEPT !.gz = x].gz = x /\ [N EXCEPT !.gz = x].state = N.state
       /\ [N EXCEPT !.gz = x].tail = N.tail /\ [N EXCEPT !.gz = x].probe = N.probe
  BY <1>8 DEF DeflateRecord
<1>. QED  BY <1>9, <1>10, <1>11, <1>12, <1>13

\* What a step of the codec keeps.
Kept == CodecMoves /\ s' \in DeflateRecord /\ BuffersHold'

\* Of a decoder in a call, what the steps below use.
LEMMA InCall ==
    ASSUME DecoderInv, pc = "codec"
    PROVE  /\ LoopInv /\ s \in DeflateRecord /\ HeaderFits(s.gz) /\ pos \in Nat
           /\ pos \in pos .. fed
           /\ s.state = "HEADER" => s.gz.state # "DONE"
           /\ job.wrap = "zlib" /\ s.state = "HEADER" => s.hdr = pos /\ s.hdr <= 2
           /\ Len(s.tail) <= TailLen
           /\ s.probe = TRUE => s.state = "MEMBER_END" /\ Concat
           /\ s.gz \in HeaderRecord /\ s.hdr \in Nat /\ s.tail \in Seq(STRING \X Nat)
           /\ s.probe \in BOOLEAN /\ Len(s.tail) \in Nat
<1>1. LoopInv /\ s \in DeflateRecord
  BY DEF DecoderInv, DeflateInv
<1>2. s.gz \in HeaderRecord /\ s.hdr \in Nat /\ s.tail \in Seq(STRING \X Nat) /\ s.probe \in BOOLEAN
  BY <1>1 DEF DeflateRecord
<1>3. Len(s.tail) \in Nat
  BY <1>2
<1>. QED  BY <1>1, <1>2, <1>3, VisibleFacts DEF DecoderInv, BuffersHold

\* A turn that moves only the input cursor keeps the contract.
LEMMA InputKept ==
    ASSUME DecoderInv, pc = "codec", NEW p, p \in pos .. fed,
           Continue(p, out) \/ \E st \in Status : Return(st, p, out),
           s' \in DeflateRecord, BuffersHold'
    PROVE  Kept
BY InCall, InputMoves DEF Kept

\* A turn that leaves the codec's state alone, and the cursor.
LEMMA NothingMoves ==
    ASSUME DecoderInv, pc = "codec", NEW st, st \in Status, Return(st, pos, out), s' = s
    PROVE  Kept
<1>1. job' = job /\ pos' = pos /\ Concat' = Concat /\ TailLen' = TailLen
  BY AfterTurn
<1>2. BuffersHold'
  BY <1>1, InCall DEF BuffersHold
<1>. QED  BY <1>2, InCall, InputKept

\* The steps that only report.
LEMMA StarvedSteps ==
    ASSUME DecoderInv, HeaderStarved \/ TrailerStarved
    PROVE  Kept
BY NothingMoves, DeflateStatuses DEF HeaderStarved, TrailerStarved, InState

\* A byte of a gzip header.
LEMMA GzipHeaderByteStep ==
    ASSUME DecoderInv, GzipHeaderByte
    PROVE  Kept
<1>0. /\ pc = "codec" /\ s.state = "HEADER" /\ job.wrap = "gzip" /\ AvailIn > 0
  BY DEF GzipHeaderByte, InState
<1>1. Ahead(1) \in STRING \X Nat /\ pos + 1 \in pos .. fed
  BY <1>0, InCall, FirstAhead
<1>. DEFINE r == HeaderFeed(s.gz, ByteOf(Ahead(1)))
<1>2. r.h \in HeaderRecord /\ r.st \in Status /\ FedFits(r)
  <2>1. ByteOf(Ahead(1)) \in Nat
    BY <1>1, ByteIsNat
  <2>. QED  BY <1>0, <2>1, InCall, HeaderFeedOk, HeaderFeedFits DEF FedOk
<1>3. \/ /\ r.st # ZU_OK /\ Return(r.st, pos + 1, out) /\ s' = [s EXCEPT !.gz = r.h]
      \/ /\ r.st = ZU_OK /\ Continue(pos + 1, out)
         /\ s' = [s EXCEPT !.gz = r.h, !.state = IF r.h.state = "DONE" THEN "BODY" ELSE @]
  BY DEF GzipHeaderByte
<1>. HIDE DEF r
<1>4. CASE r.st # ZU_OK /\ Return(r.st, pos + 1, out) /\ s' = [s EXCEPT !.gz = r.h]
  <2>1. r.st \in Errors
    BY <1>2, <1>4 DEF FedFits
  <2>2. pc' = "close"
    BY <1>4, <2>1, ErrorEnds
  <2>3. BuffersHold'
    BY <2>2 DEF BuffersHold
  <2>4. s' \in DeflateRecord
    BY <1>0, <1>2, <1>4, InCall, DeflateChange
  <2>. QED  BY <1>0, <1>1, <1>2, <1>4, <2>3, <2>4, InputKept
<1>5. CASE /\ r.st = ZU_OK /\ Continue(pos + 1, out)
           /\ s' = [s EXCEPT !.gz = r.h, !.state = IF r.h.state = "DONE" THEN "BODY" ELSE @]
  <2>1. HeaderFits(r.h)
    BY <1>2, <1>5, OkIsNoError DEF FedFits
  <2>2. s \in DeflateRecord
    BY <1>0, InCall
  <2>3. s' \in DeflateRecord
    BY <1>2, <1>5, <2>2 DEF DeflateRecord
  <2>4. /\ s'.gz = r.h /\ s'.state = IF r.h.state = "DONE" THEN "BODY" ELSE "HEADER"
        /\ s'.tail = s.tail /\ s'.probe = s.probe
    BY <1>0, <1>5, <2>2 DEF DeflateRecord
  <2>5. job' = job /\ Concat' = Concat /\ TailLen' = TailLen
    BY <1>5, AfterTurn
  <2>6. s.probe = FALSE
    BY <1>0, InCall
  <2>7. BuffersHold'
    BY <1>0, <2>1, <2>4, <2>5, <2>6, InCall DEF BuffersHold
  <2>. QED  BY <1>0, <1>1, <1>5, <2>3, <2>7, InputKept
<1>. QED  BY <1>3, <1>4, <1>5

\* A byte of a zlib header goes into the array of two.
LEMMA ZlibHeaderByteStep ==
    ASSUME DecoderInv, ZlibHeaderByte
    PROVE  Kept
<1>0. /\ pc = "codec" /\ s.state = "HEADER" /\ job.wrap = "zlib" /\ s.hdr < 2 /\ AvailIn > 0
      /\ Continue(pos + 1, out) /\ s' = [s EXCEPT !.hdr = @ + 1]
  BY DEF ZlibHeaderByte, InState
<1>1. pos + 1 \in pos .. fed
  BY <1>0, InCall, FirstAhead
<1>2. s \in DeflateRecord /\ s' \in DeflateRecord
  BY <1>0, InCall, DeflateChange
<1>3. /\ s'.gz = s.gz /\ s'.state = "HEADER" /\ s'.tail = s.tail /\ s'.probe = s.probe
      /\ s'.hdr = s.hdr + 1
  BY <1>0, <1>2 DEF DeflateRecord
<1>4. job' = job /\ pos' = pos + 1 /\ Concat' = Concat /\ TailLen' = TailLen
  BY <1>0, AfterTurn
<1>5. s'.hdr = pos' /\ s'.hdr <= 2
  BY <1>0, <1>3, <1>4, InCall
<1>6. BuffersHold'
  BY <1>0, <1>3, <1>4, <1>5, InCall DEF BuffersHold
<1>. QED  BY <1>0, <1>1, <1>2, <1>6, InputKept

\* A zlib header is judged once both bytes are there.
LEMMA ZlibHeaderCheckStep ==
    ASSUME DecoderInv, ZlibHeaderCheck
    PROVE  Kept
<1>. DEFINE hs == ZlibCheckHeader(job.input[pos - 1], job.input[pos])
<1>0. pc = "codec" /\ s.state = "HEADER" /\ job.wrap = "zlib" /\ s.hdr = 2
  BY DEF ZlibHeaderCheck, InState
<1>1. \/ Continue(pos, out) /\ s' = [s EXCEPT !.state = "BODY"]
      \/ Return(hs, pos, out) /\ s' = s
  BY DEF ZlibHeaderCheck
<1>2. hs \in Status
  BY DeflateStatuses DEF ZlibCheckHeader
<1>. HIDE DEF hs
<1>3. CASE Return(hs, pos, out) /\ s' = s
  BY <1>0, <1>2, <1>3, NothingMoves
<1>4. CASE Continue(pos, out) /\ s' = [s EXCEPT !.state = "BODY"]
  <2>1. s \in DeflateRecord /\ s' \in DeflateRecord
    BY <1>0, <1>4, InCall, DeflateChange
  <2>2. s'.gz = s.gz /\ s'.state = "BODY" /\ s'.tail = s.tail /\ s'.probe = s.probe
    BY <1>4, <2>1 DEF DeflateRecord
  <2>3. job' = job /\ Concat' = Concat /\ TailLen' = TailLen
    BY <1>4, AfterTurn
  <2>4. s.probe # TRUE
    BY <1>0, InCall
  <2>5. BuffersHold'
    BY <1>0, <2>2, <2>3, <2>4, InCall DEF BuffersHold
  <2>. QED  BY <1>0, <1>4, <2>1, <2>5, InCall, InputKept
<1>. QED  BY <1>1, <1>3, <1>4

\* What mz_inflate used and wrote is within what the call offered.
LEMMA InflatedMoves ==
    ASSUME LoopInv, pc = "codec", NEW r, InflatedOk(r, AvailIn, AvailOut)
    PROVE  Advance(pos + r.used, out \o r.bytes)
<1>1. /\ r.bytes \in Seq(Nat) /\ Len(r.bytes) <= AvailOut /\ r.used \in 0 .. AvailIn
  BY DEF InflatedOk
<1>2. /\ AvailOut \in Nat /\ Len(out) + AvailOut = call.out + call.allowance
      /\ \A k \in 0 .. AvailIn : pos + k \in pos .. fed
  BY VisibleFacts
<1>3. out \in Seq(Nat) /\ Len(out) \in Nat
  BY LoopFacts
<1>4. call.out \in Nat /\ call.allowance \in Nat
  BY LoopFacts DEF LoopInv, CallInProgress
<1>5. out \o r.bytes \in Seq(Nat) /\ Len(out \o r.bytes) = Len(out) + Len(r.bytes)
      /\ Len(r.bytes) \in Nat
  BY <1>1, <1>3
<1>. DEFINE a == Len(out)  b == Len(r.bytes)  n == Len(out \o r.bytes)
            c == call.out + call.allowance
<1>6. a \in Nat /\ b \in Nat /\ n = a + b /\ b <= AvailOut /\ a + AvailOut = c
  BY <1>1, <1>2, <1>3, <1>5
<1>. HIDE DEF a, b, n, c
<1>7. a <= n /\ n <= c
  BY ONLY <1>2, <1>6
<1>. QED  BY <1>1, <1>2, <1>5, <1>7 DEF Advance, a, n, c

\* MZ_FINISH is never passed on in the first call of a member.
LEMMA NoSingleShot ==
    ASSUME DecoderInv
    PROVE  ~(s.mz.first /\ MzFlush = "FINISH")
BY DEF DecoderInv, CalledHolds, MzFlush

\* A turn in the body: miniz moves both cursors, and the end of the body
\* empties the trailer's array before it is filled.
LEMMA BodyStep ==
    ASSUME DecoderInv, Body
    PROVE  Kept
<1>. DEFINE r  == MzInflate(s.mz, AvailIn, AvailOut, MzFlush)
            p  == pos + r.used
            o  == out \o r.bytes
            s1 == [s EXCEPT !.mz = r.mz, !.called = TRUE,
                            !.sum = IF job.wrap = "raw" THEN @ ELSE @ + Len(r.bytes)]
<1>0. pc = "codec" /\ s.state = "BODY"
  BY DEF Body, InState
<1>1. InflatedOk(r, AvailIn, AvailOut)
  <2>1. s.mz \in MzRecord
    BY <1>0, InCall DEF DeflateRecord
  <2>2. Visible(AvailIn) /\ AvailOut \in Nat
    BY <1>0, InCall, VisibleFacts
  <2>. QED  BY <1>0, <2>1, <2>2, NoSingleShot, InCall, MzInflateOk
<1>2. /\ Continue(p, o) \/ \E st \in Status : Return(st, p, o)
      /\ \/ s' = s1
         \/ s' = [s1 EXCEPT !.state = "DONE"]
         \/ s' = [s1 EXCEPT !.state = "TRAILER", !.tail = <<>>]
  <2>1. r.code \in {"OK", "BUF_ERROR", "STREAM_END", "DATA_ERROR", "STREAM_ERROR"}
    BY <1>1 DEF InflatedOk
  <2>2. (CASE r.code = "STREAM_END" /\ job.wrap = "raw" ->
               Return(ZU_STREAM_END, p, o) /\ s' = [s1 EXCEPT !.state = "DONE"]
          [] r.code = "STREAM_END" /\ job.wrap # "raw" ->
               Continue(p, o) /\ s' = [s1 EXCEPT !.state = "TRAILER", !.tail = <<>>]
          [] r.code \in {"DATA_ERROR", "STREAM_ERROR"} ->
               Return(ZU_ERR_INVALID_DATA, p, o) /\ s' = s1
          [] r.code \in {"OK", "BUF_ERROR"} ->
               /\ s' = s1
               /\ IF r.used = 0 /\ r.bytes = <<>> THEN Return(Stall, p, o) ELSE Continue(p, o))
    BY DEF Body
  <2>. HIDE DEF r, p, o, s1
  <2>3. CASE r.code = "STREAM_END"
    BY <2>2, <2>3, DeflateStatuses
  <2>4. CASE r.code \in {"DATA_ERROR", "STREAM_ERROR"}
    BY <2>2, <2>4, DeflateStatuses
  <2>5. CASE r.code \in {"OK", "BUF_ERROR"}
    BY <2>2, <2>5, DeflateStatuses
  <2>. QED  BY <2>1, <2>3, <2>4, <2>5
<1>3. Advance(p, o)
  BY <1>0, <1>1, InCall, InflatedMoves
<1>4. r.mz \in MzRecord /\ Len(r.bytes) \in Nat
  BY <1>1 DEF InflatedOk
<1>. HIDE DEF r
<1>5. s \in DeflateRecord /\ s.sum \in Nat
  BY <1>0, InCall DEF DeflateRecord
<1>6. s1 \in DeflateRecord
  <2>1. (IF job.wrap = "raw" THEN s.sum ELSE s.sum + Len(r.bytes)) \in Nat
    BY <1>4, <1>5
  <2>. QED  BY <1>4, <1>5, <2>1 DEF DeflateRecord
<1>7. /\ s1.state = "BODY" /\ s1.gz = s.gz /\ s1.tail = s.tail /\ s1.probe = s.probe
  BY <1>0, <1>5 DEF DeflateRecord
<1>. HIDE DEF p, o, s1
<1>8. s' \in DeflateRecord
  <2>1. <<>> \in Seq(STRING \X Nat)
    OBVIOUS
  <2>. QED  BY <1>2, <1>6, <2>1 DEF DeflateRecord
<1>9. /\ s'.gz = s.gz /\ s'.probe = s.probe /\ s'.state # "HEADER"
      /\ s'.tail = s.tail \/ s'.tail = <<>>
  BY <1>2, <1>6, <1>7 DEF DeflateRecord
<1>10. job' = job /\ Concat' = Concat /\ TailLen' = TailLen
  BY <1>2, AfterTurn
<1>11. s.probe # TRUE /\ Len(s'.tail) <= TailLen
  <2>1. Len(<<>>) = 0 /\ TailLen \in Nat /\ 0 <= TailLen
    BY DEF TailLen
  <2>. QED  BY <1>0, <1>9, <2>1, InCall
<1>12. BuffersHold'
  BY <1>0, <1>9, <1>10, <1>11, InCall DEF BuffersHold
<1>13. CodecMoves
  BY <1>0, <1>2, <1>3 DEF CodecMoves
<1>. QED  BY <1>8, <1>12, <1>13 DEF Kept

\* A byte of the trailer goes into its array.
LEMMA TrailerByteStep ==
    ASSUME DecoderInv, TrailerByte
    PROVE  Kept
<1>0. /\ pc = "codec" /\ s.state = "TRAILER" /\ Len(s.tail) < TailLen /\ AvailIn > 0
      /\ Continue(pos + 1, out) /\ s' = [s EXCEPT !.tail = Append(@, Ahead(1))]
  BY DEF TrailerByte, InState
<1>1. Ahead(1) \in STRING \X Nat /\ pos + 1 \in pos .. fed
  BY <1>0, InCall, FirstAhead
<1>2. /\ Append(s.tail, Ahead(1)) \in Seq(STRING \X Nat)
      /\ Len(Append(s.tail, Ahead(1))) = Len(s.tail) + 1
  BY <1>0, <1>1, InCall
<1>3. s \in DeflateRecord /\ s' \in DeflateRecord
  BY <1>0, <1>2, InCall, DeflateChange
<1>4. /\ s'.gz = s.gz /\ s'.state = "TRAILER" /\ s'.tail = Append(s.tail, Ahead(1))
      /\ s'.probe = s.probe
  BY <1>0, <1>3 DEF DeflateRecord
<1>5. job' = job /\ Concat' = Concat /\ TailLen' = TailLen
  BY <1>0, AfterTurn
<1>6. TailLen \in Nat
  BY DEF TailLen
<1>7. Len(s'.tail) <= TailLen
  BY <1>0, <1>2, <1>4, <1>6, InCall
<1>8. BuffersHold'
  BY <1>0, <1>4, <1>5, <1>7, InCall DEF BuffersHold
<1>. QED  BY <1>0, <1>1, <1>3, <1>8, InputKept

\* The trailer is judged once it is complete.
LEMMA TrailerCheckStep ==
    ASSUME DecoderInv, TrailerCheck
    PROVE  Kept
<1>0. /\ pc = "codec" /\ s.state = "TRAILER"
      /\ \/ Continue(pos, out) /\ s' = [s EXCEPT !.state = "MEMBER_END"]
         \/ Return(ZU_ERR_CHECKSUM, pos, out) /\ s' = s
  BY DEF TrailerCheck, InState
<1>1. CASE Return(ZU_ERR_CHECKSUM, pos, out) /\ s' = s
  BY <1>0, <1>1, NothingMoves, DeflateStatuses
<1>2. CASE Continue(pos, out) /\ s' = [s EXCEPT !.state = "MEMBER_END"]
  <2>1. s \in DeflateRecord /\ s' \in DeflateRecord
    BY <1>0, <1>2, InCall, DeflateChange
  <2>2. s'.gz = s.gz /\ s'.state = "MEMBER_END" /\ s'.tail = s.tail /\ s'.probe = s.probe
    BY <1>2, <2>1 DEF DeflateRecord
  <2>3. job' = job /\ Concat' = Concat /\ TailLen' = TailLen
    BY <1>2, AfterTurn
  <2>4. BuffersHold'
    BY <1>0, <2>2, <2>3, InCall DEF BuffersHold
  <2>. QED  BY <1>0, <1>2, <2>1, <2>4, InCall, InputKept
<1>. QED  BY <1>0, <1>1, <1>2

\* The end of the stream drops a held byte.
LEMMA FinishStep ==
    ASSUME DecoderInv, pc = "codec", NEW st, st \in Status, Finish(st)
    PROVE  Kept
<1>0. Return(st, pos, out) /\ s' = [s EXCEPT !.state = "DONE", !.probe = FALSE]
  BY DEF Finish
<1>1. s \in DeflateRecord /\ s' \in DeflateRecord
  BY <1>0, InCall, DeflateChange
<1>2. s'.gz = s.gz /\ s'.state = "DONE" /\ s'.tail = s.tail /\ s'.probe = FALSE
  BY <1>0, <1>1 DEF DeflateRecord
<1>3. job' = job /\ Concat' = Concat /\ TailLen' = TailLen
  BY <1>0, AfterTurn
<1>4. BuffersHold'
  BY <1>2, <1>3, InCall DEF BuffersHold
<1>. QED  BY <1>0, <1>1, <1>4, InCall, InputKept

\* The next member begins from a fresh decoder.
LEMMA NextMemberStep ==
    ASSUME DecoderInv, pc = "codec", Concat, Continue(pos, out), s' = NextMember
    PROVE  Kept
<1>1. job' = job /\ Concat' = Concat /\ TailLen' = TailLen
  BY AfterTurn
<1>2. job.wrap # "zlib" /\ TailLen \in Nat /\ 0 <= TailLen /\ Len(<<>>) = 0
  BY DEF Concat, TailLen
<1>3. BuffersHold'
  BY <1>1, <1>2, NextMemberOk DEF BuffersHold
<1>. QED  BY <1>3, InCall, InputKept, NextMemberOk

\* Between members: with nothing to look at, with one byte or two to look at,
\* and with the first of two held.
LEMMA MemberSteps ==
    ASSUME DecoderInv, MemberEndNoInput \/ MemberProbe \/ MemberProbeHeld
    PROVE  Kept
<1>1. CASE MemberEndNoInput
  <2>1. /\ pc = "codec"
        /\ \/ Return(ZU_NEED_INPUT, pos, out) /\ s' = s
           \/ Finish(ZU_ERR_TRAILING) \/ Finish(ZU_STREAM_END)
    BY <1>1 DEF MemberEndNoInput, InState
  <2>. QED  BY <2>1, NothingMoves, FinishStep, DeflateStatuses
<1>2. CASE MemberProbe
  <2>1. /\ pc = "codec" /\ Concat /\ s.state = "MEMBER_END" /\ AvailIn > 0
    BY <1>2 DEF MemberProbe, InState
  <2>2. AvailIn \in Nat /\ (AvailIn >= 2 \/ AvailIn = 1)
    <3>1. AvailIn \in Nat
      BY <2>1, InCall, VisibleFacts
    <3>. QED  BY <2>1, <3>1
  <2>3. \/ Finish(ZU_STREAM_END)
        \/ Continue(pos, out) /\ s' = NextMember
        \/ Return(ZU_NEED_INPUT, pos + 1, out) /\ s' = [s EXCEPT !.probe = TRUE]
    BY <1>2, <2>2 DEF MemberProbe
  <2>4. ASSUME Return(ZU_NEED_INPUT, pos + 1, out), s' = [s EXCEPT !.probe = TRUE]
        PROVE  Kept
    <3>1. s \in DeflateRecord /\ s' \in DeflateRecord
      BY <2>1, <2>4, InCall, DeflateChange
    <3>2. s'.gz = s.gz /\ s'.state = "MEMBER_END" /\ s'.tail = s.tail
      BY <2>1, <2>4, <3>1 DEF DeflateRecord
    <3>3. job' = job /\ Concat' = Concat /\ TailLen' = TailLen
      BY <2>4, AfterTurn, DeflateStatuses
    <3>4. BuffersHold'
      BY <2>1, <3>2, <3>3, InCall DEF BuffersHold
    <3>5. pos + 1 \in pos .. fed
      BY <2>1, InCall, FirstAhead
    <3>. QED  BY <2>1, <2>4, <3>1, <3>4, <3>5, InputKept, DeflateStatuses
  <2>. QED  BY <2>1, <2>3, <2>4, FinishStep, NextMemberStep, DeflateStatuses
<1>3. CASE MemberProbeHeld
  <2>1. /\ pc = "codec" /\ Concat
        /\ Finish(ZU_STREAM_END) \/ (Continue(pos, out) /\ s' = NextMember)
    BY <1>3 DEF MemberProbeHeld, InState
  <2>. QED  BY <2>1, FinishStep, NextMemberStep, DeflateStatuses
<1>. QED  BY <1>1, <1>2, <1>3

----------------------------------------------------------------------------
(***************************************************************************)
(* The theorems.                                                           *)
(***************************************************************************)
\* At the start.
LEMMA DecoderInitInv == Init => DecoderInv
<1>. SUFFICES ASSUME Init PROVE DecoderInv
  OBVIOUS
<1>1. LoopInv /\ s = NewState(job.wrap) /\ pos = 0
  BY LoopInitInv DEF Init, LoopInit
<1>2. s \in DeflateRecord
  BY <1>1, NewStateOk
<1>3. /\ s.gz = NewHeader /\ s.hdr = 0 /\ s.tail = <<>> /\ s.probe = FALSE
  BY <1>1 DEF NewState
<1>4. HeaderFits(NewHeader) /\ NewHeader.state # "DONE"
  <2>1. /\ NewHeader.state = "FIXED" /\ NewHeader.fixed_pos = 0
        /\ NewHeader.xlen_pos = 0 /\ NewHeader.xpos = 0 /\ NewHeader.field_len = 0
        /\ NewHeader.hcrc = <<>>
    BY DEF NewHeader
  <2>2. Len(NewHeader.hcrc) = 0
    BY <2>1
  <2>. QED  BY <2>1, <2>2, GzipHeaderAssumption DEF HeaderFits
<1>5. Len(<<>>) <= TailLen
  BY DEF TailLen
<1>6. BuffersHold
  BY <1>1, <1>3, <1>4, <1>5 DEF BuffersHold
<1>7. s.called = FALSE
  BY <1>1 DEF NewState
<1>. QED  BY <1>1, <1>2, <1>6, <1>7 DEF DecoderInv, DeflateInv, CalledHolds

\* A turn in the body is a call of miniz; every other turn leaves it alone or
\* starts a member with a new one.
LEMMA CalledStep ==
    ASSUME DecoderInv, CodecStep
    PROVE  CalledHolds'
<1>0. s \in DeflateRecord /\ CalledHolds
  BY DEF DecoderInv, DeflateInv
<1>1. (s'.mz = s.mz /\ s'.called = s.called) => CalledHolds'
  BY <1>0 DEF CalledHolds
<1>2. CASE Body
  <2>. DEFINE r  == MzInflate(s.mz, AvailIn, AvailOut, MzFlush)
              s1 == [s EXCEPT !.mz = r.mz, !.called = TRUE,
                              !.sum = IF job.wrap = "raw" THEN @ ELSE @ + Len(r.bytes)]
  <2>1. InflatedOk(r, AvailIn, AvailOut)
    <3>1. pc = "codec" /\ s.mz \in MzRecord
      BY <1>0, <1>2 DEF Body, InState, DeflateRecord
    <3>2. Visible(AvailIn) /\ AvailOut \in Nat
      BY <3>1, InCall, VisibleFacts
    <3>. QED  BY <3>1, <3>2, NoSingleShot, InCall, MzInflateOk
  <2>2. \/ s' = s1 \/ s' = [s1 EXCEPT !.state = "DONE"]
        \/ s' = [s1 EXCEPT !.state = "TRAILER", !.tail = <<>>]
    <3>1. r.code \in {"OK", "BUF_ERROR", "STREAM_END", "DATA_ERROR", "STREAM_ERROR"}
      BY <2>1 DEF InflatedOk
    <3>. QED  BY <1>2, <3>1 DEF Body
  <2>3. r.mz.first = FALSE
    BY <2>1 DEF InflatedOk
  <2>. HIDE DEF r
  <2>4. s'.mz = r.mz
    BY <1>0, <2>2 DEF DeflateRecord
  <2>. QED  BY <2>3, <2>4 DEF CalledHolds
<1>3. CASE s' = NextMember
  <2>1. NewState("gzip").called = FALSE
    BY DEF NewState
  <2>2. NewState("gzip") \in DeflateRecord
    BY NewStateOk
  <2>3. NextMember.called = FALSE
    BY <2>1, <2>2 DEF NextMember, DeflateRecord
  <2>. QED  BY <1>3, <2>3 DEF CalledHolds
<1>4. CASE HeaderStarved \/ GzipHeaderByte \/ ZlibHeaderByte \/ ZlibHeaderCheck
  BY <1>0, <1>1, <1>4
  DEF HeaderStarved, GzipHeaderByte, ZlibHeaderByte, ZlibHeaderCheck, DeflateRecord
<1>5. CASE TrailerStarved \/ TrailerByte \/ TrailerCheck
  BY <1>0, <1>1, <1>5 DEF TrailerStarved, TrailerByte, TrailerCheck, DeflateRecord
<1>6. CASE MemberEndNoInput \/ MemberProbe \/ MemberProbeHeld
  <2>1. \/ s' = NextMember \/ s' = s \/ s' = [s EXCEPT !.probe = TRUE]
        \/ s' = [s EXCEPT !.state = "DONE", !.probe = FALSE]
    <3>1. CASE MemberEndNoInput
      BY <3>1 DEF MemberEndNoInput, Finish
    <3>2. CASE MemberProbe
      <4>1. AvailIn \in Nat /\ AvailIn > 0
        BY <3>2, InCall, VisibleFacts DEF MemberProbe, InState
      <4>2. AvailIn >= 2 \/ AvailIn = 1
        BY <4>1
      <4>. QED  BY <3>2, <4>2 DEF MemberProbe, Finish
    <3>3. CASE MemberProbeHeld
      BY <3>3 DEF MemberProbeHeld, Finish
    <3>. QED  BY <1>6, <3>1, <3>2, <3>3
  <2>2. s' = NextMember \/ (s'.mz = s.mz /\ s'.called = s.called)
    BY <1>0, <2>1 DEF DeflateRecord
  <2>. QED  BY <1>1, <1>3, <2>2
<1>. QED  BY <1>2, <1>4, <1>5, <1>6 DEF CodecStep

\* Every step keeps the invariant and is a step of the handle, or none.
LEMMA DecoderNextInv ==
    ASSUME DecoderInv, [Next]_vars
    PROVE  DecoderInv' /\ [Handle!Next]_(Handle!vars)
<1>0. LoopInv /\ s \in DeflateRecord /\ BuffersHold /\ CalledHolds
  BY DEF DecoderInv, DeflateInv
<1>1. CASE LoopStep /\ UNCHANGED s
  <2>1. LoopInv' /\ [Handle!Next]_(Handle!vars)
    BY <1>0, <1>1, LoopStepInv, LoopStepIsHandles
  <2>2. /\ job' = job /\ pos' = pos
        /\ pc' \in {"open", "call", "codec"} => pc \in {"open", "call", "codec"}
    BY <1>1 DEF LoopStep, Open, CallCodec, ReserveFails, Close
  <2>3. Concat' = Concat /\ TailLen' = TailLen
    BY <2>2 DEF Concat, TailLen
  <2>4. BuffersHold'
    BY <1>0, <1>1, <2>2, <2>3 DEF BuffersHold
  <2>. QED  BY <1>0, <1>1, <2>1, <2>4 DEF DecoderInv, DeflateInv, CalledHolds
<1>2. CASE CodecStep
  <2>1. Kept
    BY <1>2, StarvedSteps, GzipHeaderByteStep, ZlibHeaderByteStep, ZlibHeaderCheckStep, BodyStep,
       TrailerByteStep, TrailerCheckStep, MemberSteps DEF CodecStep
  <2>2. LoopInv' /\ [Handle!Next]_(Handle!vars)
    BY <1>0, <2>1, CodecMovesAreHandles DEF Kept
  <2>. QED  BY <1>2, <2>1, <2>2, CalledStep DEF Kept, DecoderInv, DeflateInv
<1>3. CASE UNCHANGED vars
  <2>1. UNCHANGED loopVars /\ s' = s
    BY <1>3 DEF vars
  <2>2. UNCHANGED <<job, pc, pos, finished, total_in, total_out, last>>
    BY <2>1 DEF loopVars
  <2>3. BuffersHold'
    BY <1>0, <2>1, <2>2 DEF BuffersHold, Concat, TailLen
  <2>4. LiveHandle' = LiveHandle
    BY <2>2 DEF LiveHandle
  <2>5. UNCHANGED Handle!vars
    BY <2>2, <2>4, HandleStutters
  <2>. QED  BY <1>0, <2>1, <2>3, <2>5, LoopStutterInv DEF DecoderInv, DeflateInv, CalledHolds
<1>4. CASE Returned /\ UNCHANGED s
  <2>1. UNCHANGED vars
    BY <1>4 DEF Returned, vars
  <2>. QED  BY <1>3, <2>1
<1>. QED  BY <1>1, <1>2, <1>3, <1>4 DEF Next

\* For every input, slicing and limit, a DEFLATE-family decoder that is in
\* use stays inside its arrays (hdr, tail, the gzip header's fixed and hcrc)
\* and its counted fields, never feeds a byte to a completed header, and
\* holds a magic byte only between two members it may join.
THEOREM DecoderStaysInItsBuffers == Spec => []DecoderInv
<1>1. Init => DecoderInv
  BY DecoderInitInv
<1>2. DecoderInv /\ [Next]_vars => DecoderInv'
  BY DecoderNextInv
<1>. QED  BY <1>1, <1>2, PTL DEF Spec

\* The loop with the DEFLATE-family decoder implements the decoder handle:
\* the engine keeps the cursor contract ZuDecoder assumes of an arbitrary
\* codec, so the handle's theorems hold of gzip, zlib and raw DEFLATE.
THEOREM DeflateImplementsTheHandle == Spec => ImplementsHandle
<1>1. Init => Handle!Init
  BY LoopInitIsHandles DEF Init
<1>2. DecoderInv /\ [Next]_vars => [Handle!Next]_(Handle!vars)
  BY DecoderNextInv
<1>. QED  BY <1>1, <1>2, DecoderStaysInItsBuffers, PTL DEF Spec, ImplementsHandle, Handle!Spec

----------------------------------------------------------------------------
(***************************************************************************)
(* The reference decoder, token by token.                                  *)
(***************************************************************************)
\* What is known of a stream after some of its tokens.
RefPhases == {"header", "cmf", "flg", "body", "sum", "isize", "isize-bad", "between", "tail"}

RefRecord == [phase : RefPhases, start : Nat, member : Nat, out : Seq(Nat), end : Nat,
              err : Status]

\* The ways a token changes a reading.
RefAt(r, ph) == [r EXCEPT !.phase = ph]

RefErr(r, e) == [r EXCEPT !.err = e]

RefBody(r, e) == [r EXCEPT !.phase = "body", !.err = e]

RefOpen(r, i) == [r EXCEPT !.phase = "header", !.start = i, !.member = 0]

\* What a token of the body adds to the reading.
Taken(j, r, i) == [r EXCEPT !.out = @ \o BytesAt(j.input, i), !.member = @ + j.input[i][2]]

\* Does a member begin at token i?
StartsMember(j, i) ==
    /\ j.wrap = "gzip" /\ j.opts.concat
    /\ i < Len(j.input)
    /\ j.input[i] = magic1 /\ j.input[i + 1] = magic2

\* The tokens from h on.
From(j, h) == SubSeq(j.input, h, Len(j.input))

\* After an error, and in a tail, nothing is read.
LEMMA RefStopped ==
    ASSUME NEW j, NEW r, NEW i, r.err # ZU_OK \/ r.phase = "tail"
    PROVE  RefStep(j, r, i) = r
BY Zenon DEF RefStep

\* In a header.
LEMMA RefInHeader ==
    ASSUME NEW j, NEW r, NEW i, r.err = ZU_OK, r.phase = "header"
    PROVE  RefStep(j, r, i) =
             IF i < r.start + RefHeader(From(j, r.start)).len - 1 THEN r
             ELSE RefBody(r, RefHeader(From(j, r.start)).err)
BY DEF RefStep, From, RefBody

\* The two bytes of a zlib header.
LEMMA RefInCmf ==
    ASSUME NEW j, NEW r, NEW i, r.err = ZU_OK, r.phase = "cmf"
    PROVE  RefStep(j, r, i) = RefAt(r, "flg")
BY DEF RefStep, RefAt

\* The second byte of a zlib header judges it.
LEMMA RefInFlg ==
    ASSUME NEW j, NEW r, NEW i, r.err = ZU_OK, r.phase = "flg"
    PROVE  RefStep(j, r, i) =
             IF j.input[i - 1] = <<"cmf", 0>> /\ j.input[i] = <<"flg", 0>>
               THEN RefAt(r, "body")
             ELSE RefErr(r, ZlibCheckHeader(j.input[i - 1], j.input[i]))
BY DEF RefStep, ZlibCheckHeader, RefAt, RefErr

\* In the body: bytes, the end, corrupt data.
LEMMA RefInBody ==
    ASSUME NEW j, NEW r, NEW i, r.err = ZU_OK, r.phase = "body"
    PROVE  /\ j.input[i][1] = "lit" => RefStep(j, r, i) = Taken(j, r, i)
           /\ j.input[i][1] = "end" =>
                RefStep(j, r, i) = IF j.wrap = "raw" THEN RefMemberDone(Taken(j, r, i), i)
                                   ELSE RefAt(Taken(j, r, i), "sum")
           /\ j.input[i][1] \notin {"lit", "end"} =>
                RefStep(j, r, i) = RefErr(r, ZU_ERR_INVALID_DATA)
BY DEF RefStep, Taken, RefAt, RefErr

\* At the checksum.
LEMMA RefAtSum ==
    ASSUME NEW j, NEW r, NEW i, r.err = ZU_OK, r.phase = "sum"
    PROVE  RefStep(j, r, i) =
             IF j.wrap = "gzip"
               THEN RefAt(r, IF j.input[i] = <<"sum", r.member>> THEN "isize" ELSE "isize-bad")
             ELSE IF j.input[i] = <<"sum", r.member>> THEN RefMemberDone(r, i)
             ELSE RefErr(r, ZU_ERR_CHECKSUM)
BY DEF RefStep, RefAt, RefErr

\* At gzip's length field.
LEMMA RefAtSize ==
    ASSUME NEW j, NEW r, NEW i, r.err = ZU_OK, r.phase \in {"isize", "isize-bad"}
    PROVE  RefStep(j, r, i) =
             IF r.phase = "isize" /\ j.input[i] = <<"isize", r.member % ISizeMod>>
               THEN RefMemberDone(r, i)
               ELSE RefErr(r, ZU_ERR_CHECKSUM)
BY DEF RefStep, RefAt, RefErr

\* After a member.
LEMMA RefAfterMember ==
    ASSUME NEW j, NEW r, NEW i, r.err = ZU_OK, r.phase = "between"
    PROVE  RefStep(j, r, i) =
             IF StartsMember(j, i) THEN RefOpen(r, i)
             ELSE RefAt(r, "tail")
BY DEF RefStep, StartsMember, RefAt, RefOpen

\* A reading of job j's stream is of its type, and no output is taken back.
Grown(r, q) == q \in RefRecord /\ \E u \in Seq(Nat) : q.out = r.out \o u

\* A reading with the same output has grown by nothing.
LEMMA GrownBy ==
    ASSUME NEW r, r \in RefRecord, NEW q, q \in RefRecord, q.out = r.out
    PROVE  Grown(r, q)
<1>1. <<>> \in Seq(Nat) /\ r.out \o <<>> = r.out
  BY DEF RefRecord
<1>. QED  BY <1>1 DEF Grown

\* The verdict on a header is a status.
LEMMA RefHeaderErr == \A v : RefHeader(v).err \in Status
<1>. SUFFICES ASSUME NEW v PROVE RefHeader(v).err \in Status
  OBVIOUS
<1>1. RefHeader(v).err \in {ZU_ERR_INVALID_DATA, ZU_ERR_TRUNCATED, ZU_ERR_CHECKSUM, ZU_OK}
  BY DEF RefHeader
<1>. QED  BY <1>1 DEF Status, Progress, Errors

\* What a token of the body adds.
LEMMA TakenIs ==
    ASSUME NEW j \in Jobs, NEW i \in 1 .. Len(j.input), NEW r, r \in RefRecord
    PROVE  /\ Taken(j, r, i) \in RefRecord
           /\ Taken(j, r, i).out = r.out \o BytesAt(j.input, i)
           /\ Taken(j, r, i).member = r.member + j.input[i][2]
           /\ Taken(j, r, i).phase = r.phase /\ Taken(j, r, i).err = r.err
           /\ Taken(j, r, i).end = r.end /\ Taken(j, r, i).start = r.start
<1>. DEFINE o == r.out \o BytesAt(j.input, i)
            n == r.member + j.input[i][2]
<1>1. j.input[i][2] \in Nat /\ BytesAt(j.input, i) \in Seq(Nat)
  BY TokenBytesAt
<1>2. r.out \in Seq(Nat) /\ r.member \in Nat
  BY DEF RefRecord
<1>3. o \in Seq(Nat)
  BY <1>1, <1>2
<1>4. n \in Nat
  BY <1>1, <1>2
<1>5. Taken(j, r, i) = [r EXCEPT !.out = o, !.member = n]
  BY DEF Taken
<1>. HIDE DEF o, n
<1>6. [r EXCEPT !.out = o, !.member = n] \in RefRecord
  BY <1>3, <1>4 DEF RefRecord
<1>7. /\ [r EXCEPT !.out = o, !.member = n].out = o /\ [r EXCEPT !.out = o, !.member = n].member = n
      /\ [r EXCEPT !.out = o, !.member = n].phase = r.phase
      /\ [r EXCEPT !.out = o, !.member = n].err = r.err
      /\ [r EXCEPT !.out = o, !.member = n].end = r.end
      /\ [r EXCEPT !.out = o, !.member = n].start = r.start
  BY DEF RefRecord
<1>. QED  BY <1>5, <1>6, <1>7 DEF o, n

\* What each change leaves.
LEMMA RefAtIs ==
    ASSUME NEW r, r \in RefRecord, NEW ph \in RefPhases
    PROVE  /\ RefAt(r, ph) \in RefRecord /\ RefAt(r, ph).phase = ph
           /\ RefAt(r, ph).out = r.out /\ RefAt(r, ph).err = r.err /\ RefAt(r, ph).end = r.end
           /\ RefAt(r, ph).member = r.member /\ RefAt(r, ph).start = r.start
<1>. HIDE DEF RefPhases
<1>. QED  BY DEF RefRecord, RefAt

\* What an error leaves of a reading.
LEMMA RefErrIs ==
    ASSUME NEW r, r \in RefRecord, NEW e \in Status
    PROVE  /\ RefErr(r, e) \in RefRecord /\ RefErr(r, e).err = e
           /\ RefErr(r, e).out = r.out /\ RefErr(r, e).phase = r.phase
BY DEF RefRecord, RefErr

\* A reading at the start of a body.
LEMMA RefBodyIs ==
    ASSUME NEW r, r \in RefRecord, NEW e \in Status
    PROVE  /\ RefBody(r, e) \in RefRecord /\ RefBody(r, e).err = e
           /\ RefBody(r, e).out = r.out /\ RefBody(r, e).phase = "body"
           /\ RefBody(r, e).member = r.member
BY DEF RefRecord, RefBody, RefPhases

\* A reading at the end of a member.
LEMMA RefMemberDoneIs ==
    ASSUME NEW r, r \in RefRecord, NEW i \in Nat
    PROVE  /\ RefMemberDone(r, i) \in RefRecord /\ RefMemberDone(r, i).phase = "between"
           /\ RefMemberDone(r, i).out = r.out /\ RefMemberDone(r, i).err = r.err
           /\ RefMemberDone(r, i).end = i /\ RefMemberDone(r, i).member = r.member
BY DEF RefRecord, RefMemberDone, RefPhases

\* A reading at the start of a member.
LEMMA RefOpenIs ==
    ASSUME NEW r, r \in RefRecord, NEW i \in Nat
    PROVE  /\ RefOpen(r, i) \in RefRecord /\ RefOpen(r, i).phase = "header"
           /\ RefOpen(r, i).out = r.out /\ RefOpen(r, i).err = r.err
           /\ RefOpen(r, i).start = i /\ RefOpen(r, i).member = 0
BY DEF RefRecord, RefOpen, RefPhases

\* A token only ever adds to the output.
LEMMA RefStepGrows ==
    ASSUME NEW j \in Jobs, NEW i \in 1 .. Len(j.input), NEW r, r \in RefRecord
    PROVE  Grown(r, RefStep(j, r, i))
<1>0. i \in Nat
  BY JobTypes
<1>1. CASE r.err # ZU_OK \/ r.phase = "tail"
  BY <1>1, RefStopped, GrownBy
<1>2. CASE r.err = ZU_OK /\ r.phase = "header"
  <2>. DEFINE h == RefHeader(From(j, r.start))
              q == RefBody(r, h.err)
  <2>1. RefStep(j, r, i) = r \/ RefStep(j, r, i) = q
    BY <1>2, RefInHeader
  <2>2. h.err \in Status /\ "body" \in RefPhases
    BY RefHeaderErr DEF RefPhases
  <2>. HIDE DEF h
  <2>3. q \in RefRecord /\ q.out = r.out
    BY <2>2, RefBodyIs
  <2>. HIDE DEF q
  <2>. QED  BY <2>1, <2>3, GrownBy
<1>3. CASE r.err = ZU_OK /\ r.phase = "cmf"
  <2>1. RefStep(j, r, i) = RefAt(r, "flg") /\ "flg" \in RefPhases
    BY <1>3, RefInCmf DEF RefPhases
  <2>. QED  BY <2>1, RefAtIs, GrownBy
<1>4. CASE r.err = ZU_OK /\ r.phase = "flg"
  <2>. DEFINE e == ZlibCheckHeader(j.input[i - 1], j.input[i])
  <2>1. RefStep(j, r, i) = RefAt(r, "body") \/ RefStep(j, r, i) = RefErr(r, e)
    BY <1>4, RefInFlg
  <2>2. e \in Status /\ "body" \in RefPhases
    BY DEF ZlibCheckHeader, RefPhases, Status, Progress, Errors
  <2>. HIDE DEF e
  <2>. QED  BY <2>1, <2>2, RefAtIs, RefErrIs, GrownBy
<1>5. CASE r.err = ZU_OK /\ r.phase = "body"
  <2>1. Grown(r, Taken(j, r, i))
    BY TakenIs, TokenBytesAt DEF Grown
  <2>. DEFINE t == Taken(j, r, i)
              d == RefMemberDone(t, i)
              m == RefAt(t, "sum")
              e == RefErr(r, ZU_ERR_INVALID_DATA)
  <2>2. t \in RefRecord /\ t.out = r.out \o BytesAt(j.input, i)
    BY TakenIs
  <2>3. RefStep(j, r, i) \in {t, d, m, e}
    BY <1>5, RefInBody
  <2>. HIDE DEF t
  <2>4. "sum" \in RefPhases /\ ZU_ERR_INVALID_DATA \in Status
    BY DEF RefPhases, Status, Errors
  <2>5. /\ d \in RefRecord /\ d.out = t.out /\ m \in RefRecord /\ m.out = t.out
        /\ e \in RefRecord /\ e.out = r.out
    BY <1>0, <2>2, <2>4, RefAtIs, RefErrIs, RefMemberDoneIs
  <2>. HIDE DEF d, m, e
  <2>6. Grown(r, e)
    BY <2>5, GrownBy
  <2>7. Grown(r, d) /\ Grown(r, m) /\ Grown(r, t)
    BY <2>2, <2>5, TokenBytesAt DEF Grown
  <2>. QED  BY <2>3, <2>6, <2>7
<1>6. CASE r.err = ZU_OK /\ r.phase \in {"sum", "isize", "isize-bad"}
  <2>1. RefStep(j, r, i) \in {RefAt(r, "isize"), RefAt(r, "isize-bad"), RefMemberDone(r, i),
                              RefErr(r, ZU_ERR_CHECKSUM)}
    BY <1>6, RefAtSum, RefAtSize
  <2>2. ZU_ERR_CHECKSUM \in Status /\ "isize" \in RefPhases /\ "isize-bad" \in RefPhases
    BY DEF RefPhases, Status, Errors
  <2>3. Grown(r, RefAt(r, "isize")) /\ Grown(r, RefAt(r, "isize-bad"))
    BY <2>2, RefAtIs, GrownBy
  <2>4. Grown(r, RefMemberDone(r, i))
    BY <1>0, RefMemberDoneIs, GrownBy
  <2>5. Grown(r, RefErr(r, ZU_ERR_CHECKSUM))
    BY <2>2, RefErrIs, GrownBy
  <2>. QED  BY <2>1, <2>3, <2>4, <2>5
<1>7. CASE r.err = ZU_OK /\ r.phase = "between"
  <2>1. RefStep(j, r, i) \in {RefOpen(r, i), RefAt(r, "tail")}
    BY <1>7, RefAfterMember
  <2>2. "tail" \in RefPhases
    BY DEF RefPhases
  <2>3. Grown(r, RefOpen(r, i))
    BY <1>0, RefOpenIs, GrownBy
  <2>4. Grown(r, RefAt(r, "tail"))
    BY <2>2, RefAtIs, GrownBy
  <2>. QED  BY <2>1, <2>3, <2>4
<1>8. r.phase \in RefPhases
  BY DEF RefRecord
<1>. QED  BY <1>1, <1>2, <1>3, <1>4, <1>5, <1>6, <1>7, <1>8 DEF RefPhases

\* Before the first token.
LEMMA RefInitOk ==
    ASSUME NEW wrap, wrap \in {"raw", "zlib", "gzip"}
    PROVE  /\ RefInit(wrap) \in RefRecord /\ RefInit(wrap).err = ZU_OK
           /\ RefInit(wrap).start = 1 /\ RefInit(wrap).member = 0
           /\ RefInit(wrap).out = <<>> /\ RefInit(wrap).end = 0
           /\ wrap = "raw" => RefInit(wrap).phase = "body"
           /\ wrap = "zlib" => RefInit(wrap).phase = "cmf"
           /\ wrap = "gzip" => RefInit(wrap).phase = "header"
<1>. DEFINE ph == CASE wrap = "raw" -> "body" [] wrap = "zlib" -> "cmf" [] wrap = "gzip" -> "header"
<1>1. /\ wrap = "raw" => ph = "body"
      /\ wrap = "zlib" => ph = "cmf"
      /\ wrap = "gzip" => ph = "header"
  OBVIOUS
<1>2. RefInit(wrap) = [phase |-> ph, start |-> 1, member |-> 0, out |-> <<>>, end |-> 0,
                       err |-> ZU_OK]
  BY Zenon DEF RefInit
<1>. HIDE DEF ph
<1>3. <<>> \in Seq(Nat) /\ ZU_OK \in Status /\ ph \in RefPhases
  BY <1>1 DEF Status, Progress, RefPhases
<1>. QED  BY <1>1, <1>2, <1>3 DEF RefRecord

\* The readings exist: each is what the next token makes of the one before.
LEMMA ReadingsAre ==
    ASSUME NEW j \in Jobs
    PROVE  /\ Readings(j)[0] = RefInit(j.wrap)
           /\ \A i \in 1 .. Len(j.input) : Readings(j)[i] = RefStep(j, Readings(j)[i - 1], i)
           /\ \A i \in 0 .. Len(j.input) : Readings(j)[i] \in RefRecord
<1>. DEFINE N     == Len(j.input)
            first == RefInit(j.wrap)
            step  == [k \in 1 .. N |-> [r \in RefRecord |-> RefStep(j, r, k)]]
            Body1(h, k) == IF k = 0 THEN first ELSE RefStep(j, h[k - 1], k)
            upto  == CHOOSE h : h = [k \in 0 .. N |-> Body1(h, k)]
<1>0. N \in Nat
  BY JobTypes
<1>1. first \in RefRecord
  BY WrapAssumption, RefInitOk
<1>2. \A k \in 1 .. N : \A r \in RefRecord :
        step[k][r] = RefStep(j, r, k) /\ RefStep(j, r, k) \in RefRecord
  <2>1. \A k \in 1 .. N : \A r \in RefRecord : RefStep(j, r, k) \in RefRecord
    BY RefStepGrows DEF Grown
  <2>. QED  BY <2>1
<1>3. Readings(j) = upto
  BY DEF Readings
<1>. HIDE DEF first, step, N
<1>4. StaysIn(RefRecord, N, step)
  BY <1>2 DEF StaysIn
<1>5. PICK g : Iterates(g, N, first, step) /\ \A k \in 0 .. N : g[k] \in RefRecord
  BY <1>0, <1>1, <1>4, IteratesExist
<1>6. g = [k \in 0 .. N |-> Body1(g, k)]
  <2>1. \A k \in 0 .. N : Body1(g, k) = IF k = 0 THEN first ELSE step[k][g[k - 1]]
    <3>. SUFFICES ASSUME NEW k \in 0 .. N, k # 0
                  PROVE  RefStep(j, g[k - 1], k) = step[k][g[k - 1]]
      OBVIOUS
    <3>1. k - 1 \in 0 .. N /\ k \in 1 .. N
      BY <1>0
    <3>. QED  BY <1>2, <1>5, <3>1
  <2>. HIDE DEF Body1
  <2>. QED  BY <1>5, <2>1 DEF Iterates
<1>7. upto = [k \in 0 .. N |-> Body1(upto, k)]
  <2>. HIDE DEF Body1
  <2>. QED  BY <1>6
<1>. HIDE DEF upto
<1>8. \A k \in 0 .. N : upto[k] = Body1(upto, k)
  <2>. HIDE DEF Body1
  <2>. QED  BY <1>7
<1>9. upto[0] = first /\ \A k \in 1 .. N : upto[k] = RefStep(j, upto[k - 1], k)
  <2>1. 0 \in 0 .. N /\ \A k \in 1 .. N : k \in 0 .. N /\ k # 0
    BY <1>0
  <2>. QED  BY <1>8, <2>1
<1>. DEFINE P == {k \in 0 .. N : upto[k] \in RefRecord}
<1>10. 0 \in P
  BY <1>0, <1>1, <1>9
<1>11. \A k \in 0 .. N : k \in P /\ k < N => k + 1 \in P
  <2>. SUFFICES ASSUME NEW k \in 0 .. N, k \in P, k < N PROVE k + 1 \in P
    OBVIOUS
  <2>1. k + 1 \in 1 .. N /\ k + 1 \in 0 .. N /\ (k + 1) - 1 = k
    BY <1>0
  <2>2. upto[k + 1] = RefStep(j, upto[k], k + 1)
    BY <1>9, <2>1
  <2>3. upto[k] \in RefRecord
    OBVIOUS
  <2>. QED  BY <1>2, <2>1, <2>2, <2>3
<1>12. \A k \in 0 .. N : k \in P
  <2>. HIDE DEF P
  <2>. QED  BY ONLY <1>0, <1>10, <1>11, UpTo
<1>. QED  BY <1>3, <1>9, <1>12 DEF first, N

\* A reading and the next.
LEMMA ReadNext ==
    ASSUME NEW j \in Jobs, NEW p \in Nat, p < Len(j.input)
    PROVE  /\ Readings(j)[p] \in RefRecord /\ Readings(j)[p + 1] \in RefRecord
           /\ Readings(j)[p + 1] = RefStep(j, Readings(j)[p], p + 1)
           /\ p + 1 \in 1 .. Len(j.input)
           /\ Grown(Readings(j)[p], Readings(j)[p + 1])
<1>1. Len(j.input) \in Nat
  BY JobTypes
<1>2. p + 1 \in 1 .. Len(j.input) /\ p + 1 \in 0 .. Len(j.input) /\ p \in 0 .. Len(j.input)
      /\ (p + 1) - 1 = p
  BY <1>1
<1>3. /\ Readings(j)[p] \in RefRecord /\ Readings(j)[p + 1] \in RefRecord
      /\ Readings(j)[p + 1] = RefStep(j, Readings(j)[p], p + 1)
  BY <1>2, ReadingsAre
<1>. QED  BY <1>2, <1>3, RefStepGrows

\* What is read is never taken back.
LEMMA ReadingsGrow ==
    ASSUME NEW j \in Jobs, NEW p \in 0 .. Len(j.input), NEW q \in p .. Len(j.input)
    PROVE  Grown(Readings(j)[p], Readings(j)[q])
<1>. DEFINE N == Len(j.input)
            P == {i \in p .. N : Grown(Readings(j)[p], Readings(j)[i])}
<1>0. N \in Nat /\ p \in Nat /\ p \in p .. N
  BY JobTypes
<1>1. p \in P
  BY <1>0, ReadingsAre, GrownBy
<1>2. ASSUME NEW i \in p .. N, i \in P, i < N
      PROVE  i + 1 \in P
  <2>1. i \in Nat /\ i + 1 \in p .. N
    BY <1>0, <1>2
  <2>2. Grown(Readings(j)[p], Readings(j)[i]) /\ Grown(Readings(j)[i], Readings(j)[i + 1])
    BY <1>2, <2>1, ReadNext
  <2>. DEFINE a == Readings(j)[p].out
              b == Readings(j)[i].out
              c == Readings(j)[i + 1].out
  <2>3. PICK u \in Seq(Nat) : b = a \o u
    BY <2>2 DEF Grown
  <2>4. PICK v \in Seq(Nat) : c = b \o v
    BY <2>2 DEF Grown
  <2>5. a \in Seq(Nat)
    BY <1>0, ReadingsAre DEF RefRecord
  <2>. HIDE DEF a, b, c
  <2>6. c = a \o (u \o v) /\ u \o v \in Seq(Nat)
    BY <2>3, <2>4, <2>5, JoinedAgain, Joined
  <2>7. Grown(Readings(j)[p], Readings(j)[i + 1])
    BY <2>2, <2>6 DEF Grown, a, c
  <2>. QED  BY <2>1, <2>7
<1>3. \A i \in p .. N : i \in P
  <2>. HIDE DEF P
  <2>1. \A i \in p .. N : i \in P /\ i < N => i + 1 \in P
    BY <1>2
  <2>2. p \in 0 .. N
    OBVIOUS
  <2>. HIDE DEF N
  <2>. QED  BY ONLY <1>0, <1>1, <2>1, <2>2, FromOn
<1>. QED  BY <1>3

\* After an error or a tail nothing changes.
LEMMA ReadingsStop ==
    ASSUME NEW j \in Jobs, NEW p \in 0 .. Len(j.input), NEW q \in p .. Len(j.input),
           Readings(j)[p].err # ZU_OK \/ Readings(j)[p].phase = "tail"
    PROVE  Readings(j)[q] = Readings(j)[p]
<1>. DEFINE N == Len(j.input)
            P == {i \in p .. N : Readings(j)[i] = Readings(j)[p]}
<1>0. N \in Nat /\ p \in Nat /\ p \in p .. N
  BY JobTypes
<1>1. p \in P
  BY <1>0
<1>2. ASSUME NEW i \in p .. N, i \in P, i < N
      PROVE  i + 1 \in P
  <2>1. i \in Nat /\ i + 1 \in p .. N
    BY <1>0, <1>2
  <2>2. Readings(j)[i + 1] = RefStep(j, Readings(j)[p], i + 1)
    BY <1>2, <2>1, ReadNext
  <2>. QED  BY <2>1, <2>2, RefStopped
<1>3. \A i \in p .. N : i \in P
  <2>. HIDE DEF P
  <2>1. \A i \in p .. N : i \in P /\ i < N => i + 1 \in P
    BY <1>2
  <2>2. p \in 0 .. N
    OBVIOUS
  <2>. HIDE DEF N
  <2>. QED  BY ONLY <1>0, <1>1, <2>1, <2>2, FromOn
<1>. QED  BY <1>3

----------------------------------------------------------------------------
(***************************************************************************)
(* The body: what miniz hands over is what the reference decoder reads.    *)
(***************************************************************************)
\* A sequence of bytes is its first n and the rest.
LEMMA CutBytes ==
    ASSUME NEW q \in Seq(Nat), NEW n \in 0 .. Len(q)
    PROVE  /\ SubSeq(q, 1, n) \in Seq(Nat) /\ Len(SubSeq(q, 1, n)) = n
           /\ SubSeq(q, n + 1, Len(q)) \in Seq(Nat)
           /\ Len(SubSeq(q, n + 1, Len(q))) = Len(q) - n
           /\ SubSeq(q, 1, n) \o SubSeq(q, n + 1, Len(q)) = q
<1>0. Len(q) \in Nat /\ n \in Nat /\ n <= Len(q)
  OBVIOUS
<1>1. /\ SubSeq(q, 0 + 1, 0 + n) \in Seq(Nat) /\ Len(SubSeq(q, 0 + 1, 0 + n)) = n
  BY <1>0, Slice
<1>2. /\ SubSeq(q, n + 1, Len(q)) \in Seq(Nat)
      /\ Len(SubSeq(q, n + 1, Len(q))) = Len(q) - n
  <2>1. n + 0 <= Len(q)
    BY <1>0
  <2>. QED  BY <1>0, <2>1, Slice
<1>3. 0 + 1 = 1 /\ 0 + n = n
  BY <1>0
<1>4. SubSeq(q, 1, n) \o SubSeq(q, n + 1, Len(q)) = q
  <2>1. 1 \in 1 .. Len(q) + 1 /\ n \in 1 - 1 .. Len(q) /\ Len(q) \in n .. Len(q)
    BY <1>0
  <2>2. SubSeq(q, 1, n) \o SubSeq(q, n + 1, Len(q)) = SubSeq(q, 1, Len(q))
    BY <2>1, ConcatAdjacentSubSeq
  <2>. QED  BY <2>2, SubSeqFull
<1>. QED  BY <1>1, <1>2, <1>3, <1>4

\* Tokens that only add bytes.
LEMMA LitsRead ==
    ASSUME NEW j \in Jobs, job = j, NEW p \in Nat, NEW n \in Nat, p + n <= Len(j.input),
           Readings(j)[p].err = ZU_OK, Readings(j)[p].phase = "body",
           \A k \in 1 .. n : j.input[p + k][1] = "lit"
    PROVE  /\ Readings(j)[p + n] \in RefRecord /\ Readings(j)[p] \in RefRecord
           /\ Readings(j)[p + n].err = ZU_OK /\ Readings(j)[p + n].phase = "body"
           /\ Readings(j)[p + n].out = Readings(j)[p].out \o FlattenSeq(Run(p, n))
           /\ Readings(j)[p + n].member = Readings(j)[p].member + Len(FlattenSeq(Run(p, n)))
<1>. DEFINE R == Readings(j)
            N == Len(j.input)
            Read(k) == /\ R[p + k].err = ZU_OK /\ R[p + k].phase = "body"
                       /\ R[p + k].out = R[p].out \o FlattenSeq(Run(p, k))
                       /\ R[p + k].member = R[p].member + Len(FlattenSeq(Run(p, k)))
            P == {k \in 0 .. n : Read(k)}
<1>0. N \in Nat /\ \A k \in 0 .. n : k \in Nat /\ p + k \in 0 .. N /\ p + k <= N
  BY JobTypes
<1>1. \A k \in 0 .. n : R[p + k] \in RefRecord
  BY <1>0, ReadingsAre
<1>2. R[p] \in RefRecord /\ R[p].out \in Seq(Nat) /\ R[p].member \in Nat /\ p + 0 = p
  <2>1. p + 0 = p /\ 0 \in 0 .. n
    OBVIOUS
  <2>2. R[p] \in RefRecord
    BY <1>1, <2>1
  <2>. QED  BY <2>1, <2>2 DEF RefRecord
<1>3. 0 \in P
  <2>1. FlattenSeq(Run(p, 0)) = <<>> /\ Len(<<>>) = 0
    BY RunEmpty
  <2>2. R[p].out \o <<>> = R[p].out
    BY <1>2, NothingJoined
  <2>3. R[p].member + 0 = R[p].member
    BY <1>2
  <2>. HIDE DEF R
  <2>4. Read(0)
    BY <1>2, <2>1, <2>2, <2>3 DEF R
  <2>. QED  BY <2>4
<1>4. ASSUME NEW k \in 0 .. n, k \in P, k < n
      PROVE  k + 1 \in P
  <2>0. /\ k \in Nat /\ p + k \in Nat /\ p + k < N /\ p + k + 1 = (p + k) + 1
        /\ p + (k + 1) = (p + k) + 1 /\ k + 1 \in 1 .. n /\ k + 1 \in 0 .. n
    <3>1. p + n <= N /\ k \in 0 .. n /\ k < n /\ N \in Nat
      BY <1>0, <1>4
    <3>. HIDE DEF N
    <3>. QED  BY ONLY p \in Nat, n \in Nat, <3>1
  <2>. DEFINE i == (p + k) + 1
              x == FlattenSeq(Run(p, k))
              y == BytesAt(j.input, i)
              r == R[p + k]
  <2>1. Read(k) /\ r \in RefRecord
    BY <1>1, <1>4
  <2>2. R[i] = RefStep(j, r, i) /\ i \in 1 .. N
    BY <2>0, ReadNext
  <2>3. j.input[i][1] = "lit"
    BY <2>0
  <2>4. R[i] = Taken(j, r, i)
    BY <2>1, <2>2, <2>3, RefInBody
  <2>5. /\ R[i].out = r.out \o y /\ R[i].member = r.member + j.input[i][2]
        /\ R[i].phase = "body" /\ R[i].err = ZU_OK
    <3>1. r \in RefRecord /\ r.phase = "body" /\ r.err = ZU_OK /\ i \in 1 .. Len(j.input)
      BY <2>1, <2>2
    <3>2. R[i] = Taken(j, r, i)
      BY <2>4
    <3>. HIDE DEF R, i, r
    <3>3. j \in Jobs
      OBVIOUS
    <3>4. /\ Taken(j, r, i).out = r.out \o BytesAt(j.input, i)
          /\ Taken(j, r, i).member = r.member + j.input[i][2]
          /\ Taken(j, r, i).phase = r.phase /\ Taken(j, r, i).err = r.err
      BY ONLY <3>1, <3>3, TakenIs
    <3>. QED  BY <3>1, <3>2, <3>4, Zenon DEF y
  <2>6. y \in Seq(Nat) /\ Len(y) = j.input[i][2] /\ j.input[i][2] \in Nat
    BY <2>2, TokenBytesAt
  <2>7. x \in Seq(Nat) /\ Len(x) \in Nat
    BY <1>0, <2>0, RunBytes
  <2>8. FlattenSeq(Run(p, k + 1)) = x \o y
    <3>1. p + k + 1 <= Len(j.input)
      BY <2>0
    <3>2. FlattenSeq(Run(p, k + 1)) = x \o BytesOf(p + k + 1)
      BY <2>0, <3>1, RunNext
    <3>3. BytesOf(p + k + 1) = y
      BY <2>0 DEF BytesOf
    <3>. QED  BY <3>2, <3>3
  <2>9. r.out = R[p].out \o x /\ r.member = R[p].member + Len(x)
    BY <2>1
  <2>. HIDE DEF i, x, y, r, R
  <2>10. R[i].out = R[p].out \o (x \o y) /\ Len(x \o y) = Len(x) + Len(y)
    <3>1. R[p].out \in Seq(Nat) /\ x \in Seq(Nat) /\ y \in Seq(Nat)
      BY <1>2, <2>6, <2>7
    <3>2. (R[p].out \o x) \o y = R[p].out \o (x \o y)
      BY <3>1, JoinedAgain
    <3>. QED  BY <2>5, <2>9, <3>1, <3>2, Joined
  <2>11. R[i].member = R[p].member + Len(x \o y)
    <3>1. r.member = R[p].member + Len(x) /\ R[i].member = r.member + Len(y)
      BY <2>5, <2>6, <2>9
    <3>2. Len(x) \in Nat /\ Len(y) \in Nat /\ R[p].member \in Nat
      BY <1>2, <2>6, <2>7
    <3>. QED  BY <2>10, <3>1, <3>2
  <2>12. Read(k + 1)
    BY <2>0, <2>5, <2>8, <2>10, <2>11 DEF i
  <2>. QED  BY <2>0, <2>12
<1>5. \A k \in 0 .. n : k \in P
  <2>. HIDE DEF P
  <2>1. \A k \in 0 .. n : k \in P /\ k < n => k + 1 \in P
    BY <1>4
  <2>. QED  BY ONLY n \in Nat, <1>3, <2>1, UpTo
<1>6. n \in 0 .. n
  OBVIOUS
<1>7. Read(n)
  BY <1>5, <1>6
<1>. QED  BY <1>1, <1>2, <1>6, <1>7

----------------------------------------------------------------------------
(***************************************************************************)
(* The gzip header: the parser, byte by byte, against the layout.          *)
(***************************************************************************)
\* The first k bytes keep to the fixed part.
FixedRight(v, k) ==
    /\ \A i \in 1 .. 3 : i <= k => HeaderByte(v, i) = FixedBytes[i]
    /\ k >= 4 => HeaderByte(v, 4) < GZ_RESERVED

\* The name and the comment are no longer than a field may be.
NameRight(v) == Announces(v, GZ_FNAME) => NameEnd(v) <= ExtraEnd(v) + MaxField + 1

CommentRight(v) == Announces(v, GZ_FCOMMENT) => CommentEnd(v) <= NameEnd(v) + MaxField + 1

\* The parser stands where the layout says after k bytes of v.
Parsed(v, k, g) ==
    /\ k \in 0 .. Len(v) /\ FixedRight(v, k)
    /\ g.state # "HCRC" => g.crc = k
    /\ g.state = "FIXED" =>
         /\ k < HeaderLen /\ g.fixed_pos = k /\ g.xlen = 0
         /\ k >= 4 => g.flg = HeaderByte(v, 4)
    /\ g.state # "FIXED" => k >= HeaderLen /\ g.flg = HeaderByte(v, 4)
    /\ g.state = "EXTRA_LEN" =>
         /\ Announces(v, GZ_FEXTRA) /\ k = HeaderLen + g.xlen_pos
         /\ g.xlen = IF g.xlen_pos = 0 THEN 0 ELSE HeaderByte(v, HeaderLen + 1)
    /\ g.state = "EXTRA" =>
         /\ Announces(v, GZ_FEXTRA) /\ k = HeaderLen + 2 + g.xpos
         /\ g.xlen = HeaderByte(v, HeaderLen + 1) + 256 * HeaderByte(v, HeaderLen + 2)
    /\ g.state = "NAME" =>
         /\ Announces(v, GZ_FNAME) /\ k = ExtraEnd(v) + g.field_len
         /\ \A i \in ExtraEnd(v) + 1 .. k : HeaderByte(v, i) # 0
    /\ g.state = "COMMENT" =>
         /\ Announces(v, GZ_FCOMMENT) /\ k = NameEnd(v) + g.field_len /\ NameRight(v)
         /\ \A i \in NameEnd(v) + 1 .. k : HeaderByte(v, i) # 0
    /\ g.state = "HCRC" =>
         /\ Announces(v, GZ_FHCRC) /\ k = CommentEnd(v) + Len(g.hcrc) /\ g.crc = CommentEnd(v)
         /\ NameRight(v) /\ CommentRight(v)
         /\ Len(g.hcrc) = 1 => g.hcrc[1] = HeaderByte(v, CommentEnd(v) + 1)

----------------------------------------------------------------------------
(***************************************************************************)
(* The decoder along its stream.                                           *)
(***************************************************************************)
\* The body is complete after p tokens.
Complete(j, r, p) ==
    IF j.wrap = "raw" THEN r.phase = "between" /\ r.end = p ELSE r.phase = "sum"

\* The inflater m after p tokens, with o handed over: what it holds back is
\* what the reading has and o has not.
BodyAt(j, p, o, m, sum) ==
    LET r == Readings(j)[p]
    IN  /\ r.err = ZU_OK /\ r.out = o \o m.pend /\ ~m.failed
        /\ IF m.done THEN m.pend # <<>> /\ Complete(j, r, p) ELSE r.phase = "body"
        /\ j.wrap # "raw" => sum + Len(m.pend) = r.member

\* A gzip member's header opened at token h, reading m.
HeaderAt(j, m, h, p, o, st) ==
    LET r == Readings(j)[m]
    IN  /\ r.err = ZU_OK /\ r.phase = "header" /\ r.start = h /\ r.out = o /\ r.member = 0
        /\ (m = 0 /\ h = 1) \/ (m = h /\ j.input[h] = magic1)
        /\ h - 1 <= p
        /\ Parsed(From(j, h), p - h + 1, st.gz) /\ st.gz.state # "DONE"

InHeader(j, p, o, st) ==
    /\ j.wrap # "raw" /\ st.mz = FreshInflater /\ st.sum = 0 /\ ~st.called
    /\ j.wrap = "gzip" => \E m \in 0 .. Len(j.input), h \in 1 .. Len(j.input) + 1 : HeaderAt(j, m, h, p, o, st)
    /\ j.wrap = "zlib" => o = <<>> /\ p = st.hdr /\ p <= 2

InBody(j, fedTo, p, o, st) ==
    /\ BodyAt(j, p, o, st.mz, st.sum)
    /\ st.mz.flushed => st.called /\ fedTo = Len(j.input)

InTrailer(j, p, o, st) ==
    /\ j.wrap # "raw" /\ Len(st.tail) <= p
    /\ LET q == p - Len(st.tail)
           r == Readings(j)[q]
       IN  /\ r.err = ZU_OK /\ r.phase = "sum" /\ r.out = o /\ r.member = st.sum
           /\ \A k \in 1 .. Len(st.tail) : st.tail[k] = j.input[q + k]

\* q: where the member ended.
MemberEnded(j, q, o) ==
    LET r == Readings(j)[q]
    IN  r.err = ZU_OK /\ r.phase = "between" /\ r.end = q /\ r.out = o

Joins(j) == j.wrap = "gzip" /\ j.opts.concat

InBetween(j, p, o, st) ==
    /\ j.wrap # "raw"
    /\ \E q \in 0 .. Len(j.input) :
         /\ MemberEnded(j, q, o)
         /\ IF st.probe THEN p = q + 1 /\ j.input[p] = magic1 /\ p < Len(j.input) /\ Joins(j)
            ELSE p = q

\* Where the decoder stands in the stream.
Along(j, fedTo, p, o, st) ==
    /\ st.state = "HEADER" => InHeader(j, p, o, st)
    /\ st.state = "BODY" => InBody(j, fedTo, p, o, st)
    /\ st.state = "TRAILER" => InTrailer(j, p, o, st)
    /\ st.state = "MEMBER_END" => InBetween(j, p, o, st)
    /\ st.state # "DONE"

\* The decode of the stream ends after p tokens.
EndsAt(j, p, o) ==
    LET r == ReferenceOf(j)
    IN  /\ r.err = ZU_OK /\ r.out = o
        /\ \/ p = r.end /\ r.phase = IF p = Len(j.input) THEN "between" ELSE "tail"
           \/ /\ p = r.end + 1 /\ p < Len(j.input) /\ j.input[p] = magic1 /\ Joins(j)
              /\ r.phase = "tail"

\* What the codec's answer says of the stream.
Judged(j, fedTo, fl, room, st, p, o) ==
    /\ st = ZU_STREAM_END => EndsAt(j, p, o) /\ (Joins(j) => fedTo > p \/ p = Len(j.input))
    /\ st \in Errors => VerdictOn(j, ReferenceOf(j)) = st /\ st # ZU_ERR_MEMORY
    /\ st = ZU_NEED_INPUT => fl # ZU_FINISH
    /\ st = ZU_NEED_OUTPUT =>
         /\ Len(o) = room
         /\ \/ Len(ReferenceOf(j).out) > Len(o)
            \/ fl = ZU_FINISH => VerdictOn(j, ReferenceOf(j)) # ZU_STREAM_END
    /\ st # ZU_OK

\* What tinfl reads of the body, and what the reference decoder reads of the
\* same tokens.
Inflates(t, n, finish, a, q) ==
    /\ t.used \in 0 .. n /\ t.bytes \in Seq(Nat)
    /\ t.used = 0 => n = 0
    /\ t.status \in {"DONE", "FAILED", "NEEDS_MORE_INPUT"}
    /\ q \in RefRecord /\ q.out = a.out \o t.bytes
    /\ t.status # "FAILED" => q.err = ZU_OK /\ q.member = a.member + Len(t.bytes)
    /\ t.status = "DONE" => t.used > 0 /\ Complete(job, q, pos + t.used)
    /\ t.status = "NEEDS_MORE_INPUT" => t.used = n /\ ~finish /\ q.phase = "body"
    /\ t.status = "FAILED" =>
         \/ q.err = ZU_ERR_INVALID_DATA
         \/ t.used = n /\ finish /\ q.err = ZU_OK /\ q.phase = "body"

\* tinfl reads what the reference decoder reads.
LEMMA TinflReads ==
    ASSUME LoopInv, NEW n, Visible(n), NEW finish \in BOOLEAN,
           Readings(job)[pos].err = ZU_OK, Readings(job)[pos].phase = "body"
    PROVE  Inflates(Tinfl(n, finish), n, finish, Readings(job)[pos],
                    Readings(job)[pos + Tinfl(n, finish).used])
<1>. DEFINE stops == {k \in 1 .. n : Ahead(k)[1] # "lit"}
            stop  == CHOOSE k \in stops : \A j \in stops : k <= j
            ends  == stops # {} /\ Ahead(stop)[1] = "end"
            used  == IF stops = {} THEN n ELSE stop
            good  == IF stops = {} \/ ends THEN used ELSE used - 1
            t     == Tinfl(n, finish)
            R     == Readings(job)
            N     == Len(job.input)
<1>0. /\ n \in Nat /\ pos \in Nat /\ pos + n <= N /\ N \in Nat /\ job \in Jobs
      /\ \A k \in 0 .. n : k \in Nat /\ pos + k <= N /\ pos + k \in 0 .. N
  BY LoopFacts DEF Visible
<1>1. stops # {} => stop \in stops /\ stop \in 1 .. n /\ \A j \in stops : stop <= j
  <2>1. stops \in SUBSET Nat
    OBVIOUS
  <2>. HIDE DEF stops
  <2>2. stops # {} => \E k \in stops : \A j \in stops : k <= j
    BY <2>1, LeastMember
  <2>3. stops # {} => stop \in stops /\ \A j \in stops : stop <= j
    BY <2>2
  <2>. QED  BY <2>3 DEF stops
<1>2. /\ t.used = used /\ t.bytes = FlattenSeq([k \in 1 .. good |-> BytesOf(pos + k)])
      /\ t.status = IF ends THEN "DONE" ELSE IF stops # {} \/ finish THEN "FAILED"
                                        ELSE "NEEDS_MORE_INPUT"
  BY DEF Tinfl
<1>3. \A k \in 1 .. n : (\A j \in stops : k < j) => Ahead(k)[1] = "lit"
  <2>1. \A k \in 1 .. n : k < k => FALSE
    OBVIOUS
  <2>. QED  BY <2>1
<1>4. t.bytes = FlattenSeq(Run(pos, good))
  BY <1>2 DEF Run
<1>. HIDE DEF t
<1>5. CASE stops = {}
  <2>1. used = n /\ good = n /\ ~ends
    BY <1>5
  <2>2. \A k \in 1 .. n : job.input[pos + k][1] = "lit"
    BY <1>3, <1>5 DEF Ahead
  <2>3. /\ R[pos + n] \in RefRecord /\ R[pos + n].err = ZU_OK /\ R[pos + n].phase = "body"
        /\ R[pos + n].out = R[pos].out \o FlattenSeq(Run(pos, n))
        /\ R[pos + n].member = R[pos].member + Len(FlattenSeq(Run(pos, n)))
    BY <1>0, <2>2, LitsRead
  <2>4. FlattenSeq(Run(pos, n)) \in Seq(Nat)
    BY <1>0, RunBytes
  <2>5. t.status = IF finish THEN "FAILED" ELSE "NEEDS_MORE_INPUT"
    BY <1>2, <1>5, <2>1
  <2>6. t.used = n /\ t.bytes = FlattenSeq(Run(pos, n))
    BY <1>2, <1>4, <2>1
  <2>7. n \in 0 .. n
    BY <1>0
  <2>. HIDE DEF R, stops, stop
  <2>. QED  BY <2>3, <2>4, <2>5, <2>6, <2>7 DEF Inflates, t, R
<1>6. CASE stops # {}
  <2>. DEFINE c == stop - 1
              i == pos + stop
              r == R[pos + c]
              x == FlattenSeq(Run(pos, c))
              y == BytesAt(job.input, i)
  <2>1. /\ stop \in Nat /\ stop >= 1 /\ stop <= n /\ c \in 0 .. n /\ c \in Nat /\ c + 1 = stop
        /\ pos + c \in Nat /\ pos + c < N /\ pos + c + 1 = i /\ (pos + c) + 1 = i
        /\ i \in 1 .. N /\ stop \in 0 .. n /\ pos + c <= N /\ pos + stop <= N
    <3>1. stop \in 1 .. n
      BY <1>1, <1>6
    <3>. HIDE DEF stop, N
    <3>. QED  BY <1>0, <3>1
  <2>2. \A k \in 1 .. c : job.input[pos + k][1] = "lit"
    <3>1. \A j \in stops : stop <= j /\ j \in Nat
      BY <1>1, <1>6
    <3>2. ASSUME NEW k \in 1 .. c PROVE Ahead(k)[1] = "lit"
      <4>1. k \in 1 .. n /\ k < stop /\ k \in Nat
        <5>1. stop \in Nat /\ stop >= 1 /\ stop <= n /\ n \in Nat /\ k \in 1 .. stop - 1
          BY <1>0, <2>1
        <5>. QED  BY ONLY <5>1
      <4>2. \A j \in stops : k < j
        <5>. HIDE DEF stop, stops
        <5>. QED  BY <2>1, <3>1, <4>1
      <4>. QED  BY <1>3, <4>1, <4>2
    <3>. QED  BY <3>2 DEF Ahead
  <2>3. job.input[i][1] # "lit" /\ (ends <=> job.input[i][1] = "end")
    BY <1>1, <1>6 DEF Ahead
  <2>4. used = stop /\ good = IF ends THEN stop ELSE c
    BY <1>6
  <2>5. /\ t.used = stop /\ t.bytes = FlattenSeq(Run(pos, IF ends THEN stop ELSE c))
        /\ t.status = IF ends THEN "DONE" ELSE "FAILED"
    <3>. HIDE DEF stop, stops, ends, c
    <3>. QED  BY <1>2, <1>4, <1>6, <2>4
  <2>. HIDE DEF stop, stops, ends, c, used, good
  <2>6. /\ r \in RefRecord /\ r.err = ZU_OK /\ r.phase = "body"
        /\ r.out = R[pos].out \o x /\ r.member = R[pos].member + Len(x)
        /\ R[pos] \in RefRecord
    <3>1. /\ job \in Jobs /\ pos \in Nat /\ c \in Nat /\ pos + c <= Len(job.input)
          /\ Readings(job)[pos].err = ZU_OK /\ Readings(job)[pos].phase = "body"
      BY <1>0, <2>1
    <3>. HIDE DEF c
    <3>. QED  BY ONLY <2>2, <3>1, LitsRead DEF r, x, R
  <2>7. R[i] = RefStep(job, r, i) /\ R[i] \in RefRecord
    BY <1>0, <2>1, ReadNext
  <2>8. x \in Seq(Nat)
    BY <1>0, <2>1, RunBytes
  <2>. HIDE DEF R, N, i
  <2>9. CASE ends
    <3>. DEFINE k == Taken(job, r, i)
    <3>1. R[i] = IF job.wrap = "raw" THEN RefMemberDone(k, i) ELSE RefAt(k, "sum")
      BY <2>3, <2>6, <2>7, <2>9, RefInBody
    <3>2. /\ k \in RefRecord /\ k.out = r.out \o y /\ k.member = r.member + job.input[i][2]
          /\ k.err = r.err
      <4>1. job \in Jobs /\ i \in 1 .. Len(job.input) /\ r \in RefRecord
        BY <1>0, <2>1, <2>6 DEF N
      <4>. QED  BY ONLY <4>1, TakenIs DEF k, y
    <3>3. y \in Seq(Nat) /\ Len(y) = job.input[i][2]
      BY <1>0, <2>1, TokenBytesAt DEF N
    <3>4. /\ R[i].err = ZU_OK /\ R[i].out = k.out /\ R[i].member = k.member
          /\ Complete(job, R[i], i)
      <4>1. i \in Nat /\ "sum" \in RefPhases
        BY <1>0, <2>1 DEF RefPhases
      <4>. HIDE DEF k
      <4>a. /\ RefMemberDone(k, i).phase = "between" /\ RefMemberDone(k, i).out = k.out
            /\ RefMemberDone(k, i).err = k.err /\ RefMemberDone(k, i).end = i
            /\ RefMemberDone(k, i).member = k.member
        BY ONLY <3>2, <4>1, RefMemberDoneIs
      <4>b. /\ RefAt(k, "sum").phase = "sum" /\ RefAt(k, "sum").out = k.out
            /\ RefAt(k, "sum").err = k.err /\ RefAt(k, "sum").member = k.member
        BY ONLY <3>2, <4>1, RefAtIs
      <4>2. job.wrap = "raw" => /\ R[i].phase = "between" /\ R[i].out = k.out /\ R[i].err = k.err
                                /\ R[i].end = i /\ R[i].member = k.member
        BY Zenon, <3>1, <4>a
      <4>3. job.wrap # "raw" => /\ R[i].phase = "sum" /\ R[i].out = k.out /\ R[i].err = k.err
                                /\ R[i].member = k.member
        BY Zenon, <3>1, <4>b
      <4>. QED  BY <2>6, <3>2, <4>2, <4>3 DEF Complete
    <3>5. FlattenSeq(Run(pos, stop)) = x \o y
      <4>1. job \in Jobs /\ pos \in Nat /\ c \in Nat /\ pos + c + 1 <= Len(job.input)
        BY <1>0, <2>1 DEF N, i
      <4>2. FlattenSeq(Run(pos, c + 1)) = FlattenSeq(Run(pos, c)) \o BytesOf(pos + c + 1)
        BY <4>1, RunNext
      <4>. QED  BY <2>1, <4>2 DEF BytesOf
    <3>6. t.bytes = x \o y /\ t.status = "DONE"
      BY <2>5, <2>9, <3>5
    <3>7. R[pos].out \in Seq(Nat) /\ R[pos].member \in Nat
      BY <2>6 DEF RefRecord
    <3>8. x \o y \in Seq(Nat) /\ Len(x \o y) = Len(x) + Len(y) /\ Len(x) \in Nat /\ Len(y) \in Nat
      BY <2>8, <3>3, Joined
    <3>9. R[i].out = R[pos].out \o (x \o y)
      <4>1. R[i].out = (R[pos].out \o x) \o y
        BY <2>6, <3>2, <3>4
      <4>2. (R[pos].out \o x) \o y = R[pos].out \o (x \o y)
        <5>. DEFINE z == R[pos].out
        <5>1. z \in Seq(Nat) /\ x \in Seq(Nat) /\ y \in Seq(Nat)
          BY <2>8, <3>3, <3>7
        <5>. HIDE DEF x, y, z
        <5>. QED  BY ONLY <5>1, JoinedAgain DEF z
      <4>. QED  BY <4>1, <4>2
    <3>. HIDE DEF x, y, k
    <3>10. R[i].member = R[pos].member + Len(x \o y)
      BY <2>6, <3>2, <3>3, <3>4, <3>7, <3>8
    <3>11. t.used \in 0 .. n /\ t.used > 0 /\ pos + t.used = i
      BY <2>1, <2>5 DEF i
    <3>. DEFINE a == R[pos]  q == R[i]  u == x \o y
    <3>. HIDE DEF a, q, u
    <3>12. /\ q \in RefRecord /\ q.err = ZU_OK /\ Complete(job, q, i) /\ q.out = a.out \o u
           /\ q.member = a.member + Len(u) /\ u \in Seq(Nat) /\ t.bytes = u
      BY <2>7, <3>4, <3>6, <3>8, <3>9, <3>10 DEF a, q, u
    <3>13. Inflates(t, n, finish, a, q)
      BY ONLY <3>6, <3>11, <3>12, <1>0 DEF Inflates
    <3>. QED  BY <3>11, <3>13 DEF t, R, a, q
  <2>10. CASE ~ends
    <3>. DEFINE e == RefErr(r, ZU_ERR_INVALID_DATA)
    <3>1. R[i] = e
      BY <2>3, <2>6, <2>7, <2>10, RefInBody
    <3>2. e.err = ZU_ERR_INVALID_DATA /\ e.out = r.out
      <4>1. ZU_ERR_INVALID_DATA \in Status
        BY DEF Status, Errors
      <4>. QED  BY <2>6, <4>1, RefErrIs
    <3>3. t.bytes = x /\ t.status = "FAILED"
      BY <2>5, <2>10
    <3>4. t.used \in 0 .. n /\ t.used > 0 /\ pos + t.used = i
      BY <2>1, <2>5 DEF i
    <3>. HIDE DEF e, x
    <3>. DEFINE a == R[pos]  q == R[i]
    <3>. HIDE DEF a, q
    <3>5. /\ q \in RefRecord /\ q.err = ZU_ERR_INVALID_DATA /\ q.out = a.out \o x /\ x \in Seq(Nat)
      BY <2>6, <2>7, <2>8, <3>1, <3>2 DEF a, q, x
    <3>6. Inflates(t, n, finish, a, q)
      BY ONLY <3>3, <3>4, <3>5, <1>0 DEF Inflates
    <3>. QED  BY <3>4, <3>6 DEF t, R, a, q
  <2>. QED  BY <2>9, <2>10
<1>. QED  BY <1>5, <1>6

\* What mz_inflate delivers, and what it holds back.
Delivers(d, m, bytes, room) ==
    /\ d.mz \in MzRecord /\ d.bytes \in Seq(Nat) /\ Len(d.bytes) <= room
    /\ d.mz.done = m.done /\ d.mz.failed = m.failed /\ d.mz.flushed = m.flushed
    /\ d.mz.pend \in Seq(Nat) /\ d.bytes \o d.mz.pend = bytes
    /\ d.bytes = <<>> => d.mz.pend = bytes /\ (bytes = <<>> \/ room = 0)

\* Deliver gives what fits, and keeps the rest.
LEMMA DeliverGives ==
    ASSUME NEW m, m \in MzRecord, NEW bytes, bytes \in Seq(Nat), NEW room, room \in Nat
    PROVE  Delivers(Deliver(m, bytes, room), m, bytes, room)
<1>. DEFINE n == LeastOf(Len(bytes), room)
            a == SubSeq(bytes, 1, n)
            b == SubSeq(bytes, n + 1, Len(bytes))
            d == Deliver(m, bytes, room)
<1>0. Len(bytes) \in Nat
  OBVIOUS
<1>1. n \in 0 .. Len(bytes) /\ n <= room /\ (n = Len(bytes) \/ n = room)
  BY <1>0 DEF LeastOf
<1>2. d = [mz |-> [m EXCEPT !.pend = b], bytes |-> a]
  BY DEF Deliver
<1>. HIDE DEF n
<1>3. /\ a \in Seq(Nat) /\ Len(a) = n /\ b \in Seq(Nat) /\ a \o b = bytes
  BY <1>1, CutBytes
<1>. HIDE DEF a, b
<1>4. /\ d.mz = [m EXCEPT !.pend = b] /\ d.bytes = a
  BY <1>2
<1>5. /\ [m EXCEPT !.pend = b] \in MzRecord /\ [m EXCEPT !.pend = b].pend = b
      /\ [m EXCEPT !.pend = b].done = m.done /\ [m EXCEPT !.pend = b].failed = m.failed
      /\ [m EXCEPT !.pend = b].flushed = m.flushed
  BY <1>3 DEF MzRecord
<1>6. ASSUME a = <<>> PROVE b = bytes /\ (bytes = <<>> \/ room = 0)
  <2>1. n = 0
    BY <1>3, <1>6
  <2>2. <<>> \o b = b
    BY <1>3, ConcatEmptySeq
  <2>3. Len(bytes) = 0 => bytes = <<>>
    OBVIOUS
  <2>. QED  BY <1>1, <1>3, <1>6, <2>1, <2>2, <2>3
<1>. HIDE DEF d
<1>7. Len(a) <= room
  BY <1>1, <1>3
<1>8. /\ d.mz \in MzRecord /\ d.bytes \in Seq(Nat) /\ Len(d.bytes) <= room
      /\ d.mz.done = m.done /\ d.mz.failed = m.failed /\ d.mz.flushed = m.flushed
      /\ d.mz.pend \in Seq(Nat) /\ d.bytes \o d.mz.pend = bytes
      /\ d.bytes = <<>> => d.mz.pend = bytes /\ (bytes = <<>> \/ room = 0)
  BY <1>3, <1>4, <1>5, <1>6, <1>7
<1>. QED  BY <1>8 DEF d, Delivers

\* The answers of mz_inflate to a call that keeps its rules: what is pending
\* goes first.
MzAnswers(m, n, room, fl, m1, m2, t, d, e, r) ==
    /\ r = MzInflate(m, n, room, fl) /\ t = Tinfl(n, fl = "FINISH")
    /\ m1 = [m EXCEPT !.first = FALSE, !.flushed = @ \/ fl = "FINISH"]
    /\ m2 = [m1 EXCEPT !.done = t.status = "DONE", !.failed = t.status = "FAILED"]
    /\ d = Deliver(m2, t.bytes, room) /\ e = Deliver(m1, m.pend, room)
    /\ m.pend # <<>> =>
         /\ r.mz = e.mz /\ r.bytes = e.bytes /\ r.used = 0
         /\ r.code = IF m.done /\ e.mz.pend = <<>> THEN "STREAM_END" ELSE "OK"
    /\ m.pend = <<>> =>
         /\ r.mz = d.mz /\ r.bytes = d.bytes /\ r.used = t.used
         /\ t.status = "FAILED" => r.code = "DATA_ERROR"
         /\ t.status = "NEEDS_MORE_INPUT" => r.code \in {"OK", "BUF_ERROR"}
         /\ t.status = "DONE" =>
              IF d.mz.pend = <<>> THEN r.code = "STREAM_END" ELSE r.code \in {"OK", "BUF_ERROR"}

\* The parts of a call of mz_inflate.
LEMMA MzInflateIs ==
    ASSUME NEW m, m \in MzRecord, NEW n, NEW room, NEW fl, ~m.failed, m.flushed => fl = "FINISH",
           ~(m.first /\ fl = "FINISH")
    PROVE  \E m1, m2, t, d, e, r : MzAnswers(m, n, room, fl, m1, m2, t, d, e, r)
<1>. DEFINE m1 == [m EXCEPT !.first = FALSE, !.flushed = @ \/ fl = "FINISH"]
            t  == Tinfl(n, fl = "FINISH")
            m2 == [m1 EXCEPT !.done = t.status = "DONE", !.failed = t.status = "FAILED"]
            d  == Deliver(m2, t.bytes, room)
            e  == Deliver(m1, m.pend, room)
            r  == MzInflate(m, n, room, fl)
            code1 == IF m.done /\ e.mz.pend = <<>> THEN "STREAM_END" ELSE "OK"
            code2 == CASE t.status = "FAILED" -> "DATA_ERROR"
                       [] t.status = "NEEDS_MORE_INPUT" -> IF n = 0 THEN "BUF_ERROR" ELSE "OK"
                       [] t.status = "DONE" -> IF d.mz.pend = <<>> THEN "STREAM_END"
                                               ELSE IF fl = "FINISH" THEN "BUF_ERROR"
                                               ELSE "OK"
<1>1. r = IF m.pend # <<>> THEN Inflated(e, 0, code1) ELSE Inflated(d, t.used, code2)
  BY Zenon DEF MzInflate
<1>. HIDE DEF t, m1, m2, d, e, r
<1>2. /\ t.status = "FAILED" => code2 = "DATA_ERROR"
      /\ t.status = "NEEDS_MORE_INPUT" => code2 \in {"OK", "BUF_ERROR"}
      /\ t.status = "DONE" => IF d.mz.pend = <<>> THEN code2 = "STREAM_END"
                              ELSE code2 \in {"OK", "BUF_ERROR"}
  OBVIOUS
<1>. HIDE DEF code2
<1>3. \A x, u, c : /\ Inflated(x, u, c).mz = x.mz /\ Inflated(x, u, c).bytes = x.bytes
                   /\ Inflated(x, u, c).used = u /\ Inflated(x, u, c).code = c
  BY DEF Inflated
<1>4. m.pend # <<>> =>
                  /\ r.mz = e.mz /\ r.bytes = e.bytes /\ r.used = 0
                  /\ r.code = IF m.done /\ e.mz.pend = <<>> THEN "STREAM_END" ELSE "OK"
  BY <1>1, <1>3
<1>5. m.pend = <<>> =>
                  /\ r.mz = d.mz /\ r.bytes = d.bytes /\ r.used = t.used /\ r.code = code2
  BY <1>1, <1>3
<1>6. /\ r = MzInflate(m, n, room, fl) /\ t = Tinfl(n, fl = "FINISH")
      /\ m1 = [m EXCEPT !.first = FALSE, !.flushed = @ \/ fl = "FINISH"]
      /\ m2 = [m1 EXCEPT !.done = t.status = "DONE", !.failed = t.status = "FAILED"]
      /\ d = Deliver(m2, t.bytes, room) /\ e = Deliver(m1, m.pend, room)
  BY DEF t, m1, m2, d, e, r
<1>7. m.pend = <<>> =>
                  /\ r.mz = d.mz /\ r.bytes = d.bytes /\ r.used = t.used
                  /\ t.status = "FAILED" => r.code = "DATA_ERROR"
                  /\ t.status = "NEEDS_MORE_INPUT" => r.code \in {"OK", "BUF_ERROR"}
                  /\ t.status = "DONE" =>
                       IF d.mz.pend = <<>> THEN r.code = "STREAM_END"
                       ELSE r.code \in {"OK", "BUF_ERROR"}
  BY <1>2, <1>5
<1>8. MzAnswers(m, n, room, fl, m1, m2, t, d, e, r)
  BY ONLY <1>4, <1>6, <1>7 DEF MzAnswers
<1>. QED  BY <1>8

\* The reading after the last token, and the verdict, when the reading ends.
LEMMA ReferenceGrows ==
    ASSUME NEW j \in Jobs, NEW p \in 0 .. Len(j.input)
    PROVE  /\ Readings(j)[p] \in RefRecord /\ ReferenceOf(j) \in RefRecord
           /\ Grown(Readings(j)[p], ReferenceOf(j))
           /\ p = Len(j.input) => ReferenceOf(j) = Readings(j)[p]
           /\ (Readings(j)[p].err # ZU_OK \/ Readings(j)[p].phase = "tail") =>
                ReferenceOf(j) = Readings(j)[p]
<1>1. Len(j.input) \in Nat
  BY JobTypes
<1>2. Len(j.input) \in p .. Len(j.input)
  BY <1>1
<1>3. Readings(j)[p] \in RefRecord
  BY ReadingsAre
<1>4. Grown(Readings(j)[p], Readings(j)[Len(j.input)])
  BY <1>2, ReadingsGrow
<1>5. (Readings(j)[p].err # ZU_OK \/ Readings(j)[p].phase = "tail") =>
        Readings(j)[Len(j.input)] = Readings(j)[p]
  BY <1>2, ReadingsStop
<1>. QED  BY <1>3, <1>4, <1>5 DEF ReferenceOf, Grown

\* The verdict is the error met, and corrupt data when the body is cut off.
LEMMA VerdictIs ==
    ASSUME NEW j, NEW r
    PROVE  /\ r.err # ZU_OK => VerdictOn(j, r) = r.err
           /\ r.err = ZU_OK /\ r.phase = "body" => VerdictOn(j, r) = ZU_ERR_INVALID_DATA
           /\ r.err = ZU_OK /\ r.phase = "between" => VerdictOn(j, r) = ZU_STREAM_END
           /\ r.err = ZU_OK /\ r.phase = "tail" =>
                VerdictOn(j, r) = IF j.opts.reject THEN ZU_ERR_TRAILING ELSE ZU_STREAM_END
           /\ r.err = ZU_OK /\ r.phase \in {"header", "cmf", "flg", "sum", "isize", "isize-bad"} =>
                VerdictOn(j, r) = ZU_ERR_TRUNCATED
<1>1. r.err # ZU_OK => VerdictOn(j, r) = r.err
  BY DEF VerdictOn
<1>2. r.err = ZU_OK /\ r.phase = "body" => VerdictOn(j, r) = ZU_ERR_INVALID_DATA
  BY DEF VerdictOn
<1>3. r.err = ZU_OK /\ r.phase = "between" => VerdictOn(j, r) = ZU_STREAM_END
  BY DEF VerdictOn
<1>4. r.err = ZU_OK /\ r.phase = "tail" =>
                VerdictOn(j, r) = IF j.opts.reject THEN ZU_ERR_TRAILING ELSE ZU_STREAM_END
  BY DEF VerdictOn
<1>5. r.err = ZU_OK /\ r.phase \in {"header", "cmf", "flg", "sum", "isize", "isize-bad"} =>
                VerdictOn(j, r) = ZU_ERR_TRUNCATED
  BY DEF VerdictOn
<1>. QED  BY <1>1, <1>2, <1>3, <1>4, <1>5

\* What is handed over begins what the reading has.
Held(q, o) == \E u \in Seq(Nat) : q.out = o \o u

\* A call of miniz answers r and leaves the decoder at p, with o handed over
\* and sum counted.
MzRight(r, p, o, sum) ==
    LET q == Readings(job)[p]
    IN  /\ r.code \in {"OK", "BUF_ERROR", "STREAM_END", "DATA_ERROR"}
        /\ r.code = "STREAM_END" =>
             /\ q.err = ZU_OK /\ q.out = o /\ Complete(job, q, p)
             /\ job.wrap # "raw" => sum = q.member
        /\ r.code = "DATA_ERROR" => VerdictOn(job, ReferenceOf(job)) = ZU_ERR_INVALID_DATA
        /\ r.code \in {"OK", "BUF_ERROR"} =>
             /\ BodyAt(job, p, o, r.mz, sum)
             /\ r.used = 0 /\ r.bytes = <<>> =>
                  \/ AvailOut = 0 /\ r.mz.pend # <<>>
                  \/ AvailIn = 0 /\ r.mz.pend = <<>> /\ q.phase = "body"
        /\ r.mz.flushed => fed = Len(job.input)
        /\ Held(q, o)

\* What is counted goes with what is handed over.
Counted(sum, bytes) == IF job.wrap = "raw" THEN sum ELSE sum + Len(bytes)

\* miniz with bytes pending.
LEMMA MzPending ==
    ASSUME LoopInv, pc = "codec", s.mz \in MzRecord, s.sum \in Nat,
           BodyAt(job, pos, out, s.mz, s.sum), s.mz.pend # <<>>,
           s.mz.flushed => fed = Len(job.input),
           NEW fl, fl = "FINISH" => fed = Len(job.input),
           NEW m1, NEW m2, NEW t, NEW d, NEW e, NEW r,
           MzAnswers(s.mz, AvailIn, AvailOut, fl, m1, m2, t, d, e, r)
    PROVE  MzRight(r, pos + r.used, out \o r.bytes, Counted(s.sum, r.bytes))
<1>. DEFINE m == s.mz  q == Readings(job)[pos]
<1>0. m \in MzRecord /\ m.pend \in Seq(Nat) /\ out \in Seq(Nat) /\ AvailOut \in Nat
      /\ pos + 0 = pos /\ q \in RefRecord
  <2>1. pos \in 0 .. Len(job.input) /\ job \in Jobs /\ pos + 0 = pos
    BY LoopFacts
  <2>2. q \in RefRecord
    BY <2>1, ReadingsAre
  <2>. QED  BY <2>1, <2>2, LoopFacts, VisibleFacts DEF MzRecord
<1>1. /\ q.err = ZU_OK /\ q.out = out \o m.pend /\ ~m.failed
      /\ IF m.done THEN m.pend # <<>> /\ Complete(job, q, pos) ELSE q.phase = "body"
      /\ job.wrap # "raw" => s.sum + Len(m.pend) = q.member
  BY DEF BodyAt
<1>2. m1 \in MzRecord /\ m1.failed = m.failed /\ m1.done = m.done
      /\ (m1.flushed => m.flushed \/ fl = "FINISH")
  <2>1. m1 = [m EXCEPT !.first = FALSE, !.flushed = m.flushed \/ fl = "FINISH"]
    BY DEF MzAnswers
  <2>2. (m.flushed \/ fl = "FINISH") \in BOOLEAN
    BY <1>0
  <2>. QED  BY <1>0, <2>1, <2>2 DEF MzRecord
<1>3. /\ e.mz \in MzRecord /\ e.bytes \in Seq(Nat)
      /\ e.mz.done = m1.done /\ e.mz.failed = m1.failed /\ e.mz.flushed = m1.flushed
      /\ e.mz.pend \in Seq(Nat) /\ e.bytes \o e.mz.pend = m.pend
      /\ e.bytes = <<>> => e.mz.pend = m.pend /\ (m.pend = <<>> \/ AvailOut = 0)
  <2>1. e = Deliver(m1, m.pend, AvailOut)
    BY DEF MzAnswers
  <2>. HIDE DEF m, q
  <2>2. Delivers(Deliver(m1, m.pend, AvailOut), m1, m.pend, AvailOut)
    BY ONLY <1>0, <1>2, DeliverGives
  <2>. QED  BY ONLY <2>1, <2>2 DEF Delivers
<1>4. /\ r.mz = e.mz /\ r.bytes = e.bytes /\ r.used = 0
      /\ r.code = IF m.done /\ e.mz.pend = <<>> THEN "STREAM_END" ELSE "OK"
  BY DEF MzAnswers
<1>. DEFINE o == out \o e.bytes  sum == Counted(s.sum, e.bytes)
<1>5. o \o e.mz.pend = q.out
  <2>1. (out \o e.bytes) \o e.mz.pend = out \o (e.bytes \o e.mz.pend)
    BY <1>0, <1>3, JoinedAgain
  <2>. QED  BY <1>1, <1>3, <2>1
<1>5a. Held(q, o)
  <2>. HIDE DEF o, q
  <2>. QED  BY <1>3, <1>5 DEF Held
<1>6. o \in Seq(Nat) /\ (e.mz.pend = <<>> => q.out = o)
  <2>1. o \in Seq(Nat)
    BY <1>0, <1>3, Joined
  <2>. HIDE DEF o
  <2>2. e.mz.pend = <<>> => o \o e.mz.pend = o
    BY <2>1, NothingJoined
  <2>. QED  BY <1>5, <2>1, <2>2
<1>7. job.wrap # "raw" => sum + Len(e.mz.pend) = q.member /\ (e.mz.pend = <<>> => sum = q.member)
  <2>1. Len(m.pend) = Len(e.bytes) + Len(e.mz.pend) /\ Len(e.bytes) \in Nat /\ Len(e.mz.pend) \in Nat
    BY <1>3, Joined
  <2>2. e.mz.pend = <<>> => Len(e.mz.pend) = 0
    OBVIOUS
  <2>3. job.wrap # "raw" => sum = s.sum + Len(e.bytes)
    BY DEF Counted
  <2>4. s.sum \in Nat /\ q.member \in Nat
    BY <1>0 DEF RefRecord
  <2>. DEFINE x == Len(m.pend)  y == Len(e.bytes)  z == Len(e.mz.pend)
  <2>. HIDE DEF sum, m, q, x, y, z
  <2>5. /\ job.wrap # "raw" => s.sum + x = q.member /\ sum = s.sum + y
        /\ x = y + z /\ y \in Nat /\ z \in Nat /\ (e.mz.pend = <<>> => z = 0)
    BY <1>1, <2>1, <2>2, <2>3 DEF x, y, z
  <2>6. job.wrap # "raw" => sum + z = q.member /\ (e.mz.pend = <<>> => sum = q.member)
    BY ONLY <2>4, <2>5
  <2>. QED  BY <2>6 DEF z
<1>8. pos + r.used = pos
  BY <1>0, <1>4
<1>. HIDE DEF o, sum, q, m
<1>9. /\ r.code = "STREAM_END" => e.mz.pend = <<>> /\ m.done
      /\ r.code \in {"OK", "STREAM_END"}
      /\ r.code = "OK" => (e.mz.done => e.mz.pend # <<>>)
  BY <1>2, <1>3, <1>4
<1>10. BodyAt(job, pos, o, e.mz, sum) \/ r.code = "STREAM_END"
  <2>1. r.code = "OK" => (IF e.mz.done THEN e.mz.pend # <<>> /\ Complete(job, q, pos)
                                       ELSE q.phase = "body")
    BY <1>1, <1>2, <1>3, <1>9
  <2>. QED  BY <1>1, <1>2, <1>3, <1>5, <1>7, <1>9, <2>1 DEF BodyAt, q
<1>11. e.bytes = <<>> => AvailOut = 0 /\ e.mz.pend # <<>>
  BY <1>3 DEF m
<1>12. e.mz.flushed => fed = Len(job.input)
  BY <1>2, <1>3 DEF m
<1>13. MzRight(r, pos, o, sum)
  <2>1. r.code = "STREAM_END" =>
             /\ q.err = ZU_OK /\ q.out = o /\ Complete(job, q, pos)
             /\ job.wrap # "raw" => sum = q.member
    BY <1>1, <1>6, <1>7, <1>9
  <2>. QED  BY <1>4, <1>5a, <1>9, <1>10, <1>11, <1>12, <2>1 DEF MzRight, q
<1>. QED  BY <1>4, <1>8, <1>13 DEF o, sum

\* miniz with nothing pending.
LEMMA MzReading ==
    ASSUME LoopInv, pc = "codec", s.mz \in MzRecord, s.sum \in Nat,
           BodyAt(job, pos, out, s.mz, s.sum), s.mz.pend = <<>>,
           s.mz.flushed => fed = Len(job.input),
           NEW fl, fl = "FINISH" => fed = Len(job.input),
           NEW m1, NEW m2, NEW t, NEW d, NEW e, NEW r,
           MzAnswers(s.mz, AvailIn, AvailOut, fl, m1, m2, t, d, e, r)
    PROVE  MzRight(r, pos + r.used, out \o r.bytes, Counted(s.sum, r.bytes))
<1>. DEFINE m == s.mz  a == Readings(job)[pos]  p == pos + t.used  q == Readings(job)[p]
            N == Len(job.input)
<1>0. /\ m \in MzRecord /\ out \in Seq(Nat) /\ AvailOut \in Nat /\ a \in RefRecord
      /\ AvailIn \in Nat /\ AvailIn = fed - pos /\ Visible(AvailIn) /\ pos \in Nat /\ fed \in Nat
      /\ job \in Jobs /\ N \in Nat /\ fed <= N
  <2>1. pos \in 0 .. Len(job.input) /\ job \in Jobs
    BY LoopFacts
  <2>2. a \in RefRecord
    BY <2>1, ReadingsAre
  <2>. QED  BY <2>1, <2>2, LoopFacts, VisibleFacts
<1>1. /\ a.err = ZU_OK /\ a.out = out \o <<>> /\ ~m.failed /\ a.phase = "body"
      /\ job.wrap # "raw" => s.sum + Len(<<>>) = a.member
  BY DEF BodyAt
<1>1a. a.out = out /\ (job.wrap # "raw" => s.sum = a.member)
  <2>1. out \o <<>> = out /\ Len(<<>>) = 0
    BY <1>0, NothingJoined
  <2>2. a.member \in Nat
    BY <1>0 DEF RefRecord
  <2>. QED  BY <1>1, <2>1, <2>2
<1>2. m1 \in MzRecord /\ m1.failed = m.failed /\ m1.done = m.done
      /\ (m1.flushed => m.flushed \/ fl = "FINISH")
  <2>1. m1 = [m EXCEPT !.first = FALSE, !.flushed = m.flushed \/ fl = "FINISH"]
    BY DEF MzAnswers
  <2>2. (m.flushed \/ fl = "FINISH") \in BOOLEAN
    BY <1>0
  <2>. QED  BY <1>0, <2>1, <2>2 DEF MzRecord
<1>3. Inflates(t, AvailIn, fl = "FINISH", a, q)
  <2>1. t = Tinfl(AvailIn, fl = "FINISH")
    BY DEF MzAnswers
  <2>2. (fl = "FINISH") \in BOOLEAN
    OBVIOUS
  <2>. QED  BY <1>0, <1>1, <2>1, <2>2, TinflReads
<1>. HIDE DEF m, a, q
<1>4. /\ t.used \in 0 .. AvailIn /\ t.bytes \in Seq(Nat)
      /\ t.used = 0 => AvailIn = 0
      /\ t.status \in {"DONE", "FAILED", "NEEDS_MORE_INPUT"}
      /\ q \in RefRecord /\ q.out = out \o t.bytes
      /\ t.status # "FAILED" => q.err = ZU_OK /\ q.member = a.member + Len(t.bytes)
      /\ t.status = "DONE" => t.used > 0 /\ Complete(job, q, p)
      /\ t.status = "NEEDS_MORE_INPUT" => q.phase = "body"
      /\ t.status = "FAILED" =>
           \/ q.err = ZU_ERR_INVALID_DATA
           \/ t.used = AvailIn /\ fl = "FINISH" /\ q.err = ZU_OK /\ q.phase = "body"
  BY <1>1a, <1>3 DEF Inflates
<1>5. /\ m2 \in MzRecord /\ m2.flushed = m1.flushed
      /\ m2.done = (t.status = "DONE") /\ m2.failed = (t.status = "FAILED")
  <2>1. m2 = [m1 EXCEPT !.done = t.status = "DONE", !.failed = t.status = "FAILED"]
    BY DEF MzAnswers
  <2>2. (t.status = "DONE") \in BOOLEAN /\ (t.status = "FAILED") \in BOOLEAN
    OBVIOUS
  <2>. QED  BY <1>2, <2>1, <2>2 DEF MzRecord
<1>6. /\ d.mz \in MzRecord /\ d.bytes \in Seq(Nat)
      /\ d.mz.done = m2.done /\ d.mz.failed = m2.failed /\ d.mz.flushed = m2.flushed
      /\ d.mz.pend \in Seq(Nat) /\ d.bytes \o d.mz.pend = t.bytes
      /\ d.bytes = <<>> => d.mz.pend = t.bytes /\ (t.bytes = <<>> \/ AvailOut = 0)
  <2>1. d = Deliver(m2, t.bytes, AvailOut)
    BY DEF MzAnswers
  <2>2. Delivers(Deliver(m2, t.bytes, AvailOut), m2, t.bytes, AvailOut)
    BY ONLY <1>0, <1>4, <1>5, DeliverGives
  <2>. QED  BY ONLY <2>1, <2>2 DEF Delivers
<1>7. /\ r.mz = d.mz /\ r.bytes = d.bytes /\ r.used = t.used
      /\ t.status = "FAILED" => r.code = "DATA_ERROR"
      /\ t.status = "NEEDS_MORE_INPUT" => r.code \in {"OK", "BUF_ERROR"}
      /\ t.status = "DONE" =>
           IF d.mz.pend = <<>> THEN r.code = "STREAM_END" ELSE r.code \in {"OK", "BUF_ERROR"}
  BY DEF MzAnswers
<1>. DEFINE o == out \o d.bytes  sum == Counted(s.sum, d.bytes)
<1>8. o \o d.mz.pend = q.out
  <2>1. (out \o d.bytes) \o d.mz.pend = out \o (d.bytes \o d.mz.pend)
    BY <1>0, <1>6, JoinedAgain
  <2>. QED  BY <1>4, <1>6, <2>1
<1>8a. Held(q, o)
  <2>. HIDE DEF o
  <2>. QED  BY <1>6, <1>8 DEF Held
<1>9. o \in Seq(Nat) /\ (d.mz.pend = <<>> => q.out = o)
  <2>1. o \in Seq(Nat)
    BY <1>0, <1>6, Joined
  <2>. HIDE DEF o
  <2>2. d.mz.pend = <<>> => o \o d.mz.pend = o
    BY <2>1, NothingJoined
  <2>. QED  BY <1>8, <2>1, <2>2
<1>10. job.wrap # "raw" /\ t.status # "FAILED" =>
         sum + Len(d.mz.pend) = q.member /\ (d.mz.pend = <<>> => sum = q.member)
  <2>1. Len(t.bytes) = Len(d.bytes) + Len(d.mz.pend) /\ Len(d.bytes) \in Nat /\ Len(d.mz.pend) \in Nat
    BY <1>6, Joined
  <2>2. d.mz.pend = <<>> => Len(d.mz.pend) = 0
    OBVIOUS
  <2>3. job.wrap # "raw" => sum = s.sum + Len(d.bytes)
    BY DEF Counted
  <2>4. s.sum \in Nat /\ q.member \in Nat
    BY <1>4 DEF RefRecord
  <2>. DEFINE x == Len(t.bytes)  y == Len(d.bytes)  z == Len(d.mz.pend)
  <2>. HIDE DEF sum, x, y, z
  <2>5. /\ job.wrap # "raw" /\ t.status # "FAILED" => s.sum + x = q.member /\ sum = s.sum + y
        /\ x = y + z /\ y \in Nat /\ z \in Nat /\ (d.mz.pend = <<>> => z = 0)
    BY <1>1a, <1>4, <2>1, <2>2, <2>3 DEF x, y, z
  <2>6. job.wrap # "raw" /\ t.status # "FAILED" =>
          sum + z = q.member /\ (d.mz.pend = <<>> => sum = q.member)
    BY ONLY <2>4, <2>5
  <2>. QED  BY <2>6 DEF z
<1>. HIDE DEF o, sum
<1>11. p \in 0 .. N /\ (t.used = AvailIn => p = fed)
  BY <1>0, <1>4
<1>12. r.code = "DATA_ERROR" => VerdictOn(job, ReferenceOf(job)) = ZU_ERR_INVALID_DATA
  <2>1. t.status = "FAILED" => VerdictOn(job, ReferenceOf(job)) = ZU_ERR_INVALID_DATA
    <3>1. ZU_ERR_INVALID_DATA # ZU_OK
      BY DEF ZU_OK, ZU_ERR_INVALID_DATA
    <3>2. /\ q.err # ZU_OK => ReferenceOf(job) = q
          /\ p = N => ReferenceOf(job) = q
      BY <1>0, <1>11, ReferenceGrows DEF q
    <3>3. t.status = "FAILED" => ReferenceOf(job) = q
      BY <1>4, <1>11, <3>1, <3>2
    <3>. QED  BY <1>4, <3>1, <3>3, VerdictIs
  <2>2. r.code = "DATA_ERROR" => t.status = "FAILED"
    BY <1>4, <1>7
  <2>. QED  BY <2>1, <2>2
<1>13. r.code = "STREAM_END" => t.status = "DONE" /\ d.mz.pend = <<>>
  BY <1>4, <1>7
<1>14. r.code \in {"OK", "BUF_ERROR"} =>
         \/ t.status = "NEEDS_MORE_INPUT"
         \/ t.status = "DONE" /\ d.mz.pend # <<>>
  BY <1>4, <1>7
<1>15. r.code \in {"OK", "BUF_ERROR"} => BodyAt(job, p, o, d.mz, sum)
  <2>. SUFFICES ASSUME r.code \in {"OK", "BUF_ERROR"}
                PROVE  BodyAt(job, p, o, d.mz, sum)
    OBVIOUS
  <2>1. /\ q.err = ZU_OK /\ q.out = o \o d.mz.pend /\ ~d.mz.failed
        /\ job.wrap # "raw" => sum + Len(d.mz.pend) = q.member
    BY <1>4, <1>5, <1>6, <1>8, <1>10, <1>14
  <2>2. IF d.mz.done THEN d.mz.pend # <<>> /\ Complete(job, q, p) ELSE q.phase = "body"
    BY <1>4, <1>5, <1>6, <1>14
  <2>. QED  BY <2>1, <2>2 DEF BodyAt, q
<1>16. r.code \in {"OK", "BUF_ERROR"} /\ t.used = 0 /\ d.bytes = <<>> =>
         \/ AvailOut = 0 /\ d.mz.pend # <<>>
         \/ AvailIn = 0 /\ d.mz.pend = <<>> /\ q.phase = "body"
  BY <1>4, <1>6, <1>14
<1>17. d.mz.flushed => fed = N
  BY <1>2, <1>5, <1>6 DEF m
<1>18. r.code = "STREAM_END" =>
             /\ q.err = ZU_OK /\ q.out = o /\ Complete(job, q, p)
             /\ job.wrap # "raw" => sum = q.member
  BY <1>4, <1>9, <1>10, <1>13
<1>19. r.code \in {"OK", "BUF_ERROR", "STREAM_END", "DATA_ERROR"}
  BY <1>4, <1>7
<1>20. MzRight(r, p, o, sum)
  BY <1>7, <1>8a, <1>12, <1>15, <1>16, <1>17, <1>18, <1>19 DEF MzRight, q
<1>. QED  BY <1>7, <1>20 DEF o, sum

\* A header's bytes.
LEMMA HeaderByteType ==
    ASSUME NEW v, v \in Seq(STRING \X Nat)
    PROVE  Len(v) \in Nat /\ \A k \in 1 .. Len(v) : HeaderByte(v, k) \in Nat
<1>1. Len(v) \in Nat /\ \A k \in 1 .. Len(v) : v[k] \in STRING \X Nat
  OBVIOUS
<1>. QED  BY <1>1, ByteIsNat DEF HeaderByte

\* Where the first NUL after k is.
LEMMA HNulIs ==
    ASSUME NEW v, v \in Seq(STRING \X Nat), NEW k \in Nat
    PROVE  /\ NulAfter(v, k) \in Nat /\ NulAfter(v, k) <= Len(v) + 1
           /\ NulAfter(v, k) > k \/ NulAfter(v, k) = Len(v) + 1
           /\ \A c \in k .. Len(v) :
                (\A i \in k + 1 .. c : HeaderByte(v, i) # 0) =>
                  /\ NulAfter(v, k) > c
                  /\ c < Len(v) /\ HeaderByte(v, c + 1) = 0 => NulAfter(v, k) = c + 1
<1>. DEFINE n == Len(v)
            T == {j \in k + 1 .. n : HeaderByte(v, j) = 0} \cup {n + 1}
            m == NulAfter(v, k)
<1>0. n \in Nat
  BY HeaderByteType
<1>. HIDE DEF n
<1>1. T \in SUBSET Nat /\ T # {} /\ n + 1 \in T
  BY <1>0
<1>2. m = Min(T)
  BY DEF NulAfter, n
<1>. HIDE DEF T, m
<1>3. \E x \in T : \A y \in T : x <= y
  BY <1>1, LeastMember
<1>4. m \in T /\ \A y \in T : m <= y
  BY <1>2, <1>3 DEF Min
<1>5. m \in Nat /\ m <= n + 1 /\ (m = n + 1 \/ (m \in k + 1 .. n /\ HeaderByte(v, m) = 0))
  BY <1>0, <1>1, <1>4 DEF T
<1>6. ASSUME NEW c \in k .. n, \A i \in k + 1 .. c : HeaderByte(v, i) # 0
      PROVE  /\ m > c
             /\ c < n /\ HeaderByte(v, c + 1) = 0 => m = c + 1
  <2>1. c \in Nat /\ m > c
    <3>1. m \in k + 1 .. c => HeaderByte(v, m) # 0
      BY <1>6
    <3>. QED  BY ONLY <1>0, <1>5, <3>1, k \in Nat, c \in k .. n
  <2>2. ASSUME c < n, HeaderByte(v, c + 1) = 0 PROVE m = c + 1
    <3>1. c + 1 \in T
      BY <1>0, <2>1, <2>2 DEF T
    <3>. QED  BY <1>4, <1>5, <2>1, <3>1
  <2>. QED  BY <2>1, <2>2
<1>7. m > k \/ m = n + 1
  BY <1>5
<1>. QED  BY <1>5, <1>6, <1>7 DEF m, n

\* The fields follow one another.
LEMMA FieldsInOrder ==
    ASSUME NEW v, v \in Seq(STRING \X Nat)
    PROVE  /\ ExtraEnd(v) \in Nat /\ NameEnd(v) \in Nat /\ CommentEnd(v) \in Nat
           /\ \A k \in 0 .. Len(v) : /\ k < HeaderLen => ExtraEnd(v) > k
                                     /\ ExtraEnd(v) > k => NameEnd(v) > k
                                     /\ NameEnd(v) > k => CommentEnd(v) > k
           /\ Announces(v, GZ_FNAME) => NameEnd(v) <= Len(v) + 1
           /\ Announces(v, GZ_FCOMMENT) => CommentEnd(v) <= Len(v) + 1
<1>0. Len(v) \in Nat /\ HeaderLen \in Nat /\ \A k \in 1 .. Len(v) : HeaderByte(v, k) \in Nat
  BY HeaderByteType, GzipHeaderAssumption
<1>1. ExtraEnd(v) \in Nat /\ \A k \in 0 .. Len(v) : k < HeaderLen => ExtraEnd(v) > k
  <2>1. CASE ~Announces(v, GZ_FEXTRA)
    BY <1>0, <2>1 DEF ExtraEnd
  <2>2. CASE Announces(v, GZ_FEXTRA) /\ Len(v) < HeaderLen + 2
    BY <1>0, <2>2 DEF ExtraEnd
  <2>3. CASE Announces(v, GZ_FEXTRA) /\ ~(Len(v) < HeaderLen + 2)
    <3>1. HeaderByte(v, HeaderLen + 1) \in Nat /\ HeaderByte(v, HeaderLen + 2) \in Nat
      BY <1>0, <2>3
    <3>2. ExtraEnd(v) = HeaderLen + 2 + HeaderByte(v, HeaderLen + 1) + 256 * HeaderByte(v, HeaderLen + 2)
      BY <2>3 DEF ExtraEnd
    <3>. QED  BY <1>0, <3>1, <3>2
  <2>. QED  BY <2>1, <2>2, <2>3
<1>. DEFINE e == ExtraEnd(v)  n == Len(v)
<1>2. ASSUME NEW x \in Nat
      PROVE  NulAfter(v, x) \in Nat /\ NulAfter(v, x) <= n + 1 /\ \A k \in 0 .. n : x > k => NulAfter(v, x) > k
  <2>1. NulAfter(v, x) \in Nat /\ NulAfter(v, x) <= n + 1 /\ (NulAfter(v, x) > x \/ NulAfter(v, x) = n + 1)
    BY HNulIs
  <2>. QED  BY <1>0, <2>1
<1>3. NameEnd(v) \in Nat /\ (\A k \in 0 .. n : ExtraEnd(v) > k => NameEnd(v) > k)
      /\ (Announces(v, GZ_FNAME) => NameEnd(v) <= n + 1)
  <2>1. NameEnd(v) = IF Announces(v, GZ_FNAME) THEN NulAfter(v, ExtraEnd(v)) ELSE ExtraEnd(v)
    BY DEF NameEnd
  <2>. QED  BY <1>1, <1>2, <2>1
<1>4. CommentEnd(v) \in Nat /\ (\A k \in 0 .. n : NameEnd(v) > k => CommentEnd(v) > k)
      /\ (Announces(v, GZ_FCOMMENT) => CommentEnd(v) <= n + 1)
  <2>1. CommentEnd(v) = IF Announces(v, GZ_FCOMMENT) THEN NulAfter(v, NameEnd(v)) ELSE NameEnd(v)
    BY DEF CommentEnd
  <2>. QED  BY <1>2, <1>3, <2>1
<1>. QED  BY <1>1, <1>3, <1>4

\* The first wrong byte.
LEMMA FirstWrong ==
    ASSUME NEW v, NEW w \in WrongBytes(v), w \in Nat, \A x \in WrongBytes(v) : x \in Nat /\ w <= x
    PROVE  RefHeader(v) = [len |-> w, err |-> ZU_ERR_INVALID_DATA]
<1>1. Min(WrongBytes(v)) \in WrongBytes(v) /\ \A x \in WrongBytes(v) : Min(WrongBytes(v)) <= x
  <2>. DEFINE S == WrongBytes(v)
  <2>1. w \in S /\ \A x \in S : w <= x
    OBVIOUS
  <2>. HIDE DEF S
  <2>2. Min(S) \in S /\ \A x \in S : Min(S) <= x
    BY <2>1 DEF Min
  <2>. QED  BY <2>2 DEF S
<1>2. Min(WrongBytes(v)) = w
  <2>1. Min(WrongBytes(v)) <= w /\ w <= Min(WrongBytes(v)) /\ Min(WrongBytes(v)) \in Nat
    BY <1>1
  <2>. DEFINE m == Min(WrongBytes(v))
  <2>. HIDE DEF m
  <2>2. m <= w /\ w <= m /\ m \in Nat
    BY <2>1 DEF m
  <2>3. m = w
    BY ONLY <2>2, w \in Nat
  <2>. QED  BY <2>3 DEF m
<1>3. WrongBytes(v) # {}
  OBVIOUS
<1>4. RefHeader(v) = [len |-> Min(WrongBytes(v)), err |-> ZU_ERR_INVALID_DATA]
  BY <1>3 DEF RefHeader
<1>. QED  BY Zenon, <1>2, <1>4

\* What may be wrong, and where.
LEMMA WrongIs ==
    ASSUME NEW v, v \in Seq(STRING \X Nat)
    PROVE  \A x : x \in WrongBytes(v) <=>
             \/ x \in 1 .. 3 /\ x <= Len(v) /\ HeaderByte(v, x) # FixedBytes[x]
             \/ x = 4 /\ Len(v) >= 4 /\ HeaderByte(v, 4) >= GZ_RESERVED
             \/ x = ExtraEnd(v) + MaxField + 1 /\ Announces(v, GZ_FNAME) /\ x < NameEnd(v)
             \/ x = NameEnd(v) + MaxField + 1 /\ Announces(v, GZ_FCOMMENT) /\ x < CommentEnd(v)
<1>1. Len(v) \in Nat
  OBVIOUS
<1>2. 1 .. LeastOf(Len(v), 3) = {x \in 1 .. 3 : x <= Len(v)}
  BY <1>1 DEF LeastOf
<1>. QED  BY <1>1, <1>2 DEF WrongBytes

\* A sound fixed part and fields that end in time leave nothing wrong.
LEMMA NothingWrong ==
    ASSUME NEW v, v \in Seq(STRING \X Nat), Len(v) >= 4, FixedRight(v, 4), NameRight(v), CommentRight(v)
    PROVE  WrongBytes(v) = {}
<1>0. /\ ExtraEnd(v) \in Nat /\ NameEnd(v) \in Nat /\ CommentEnd(v) \in Nat /\ MaxField \in Nat
      /\ HeaderByte(v, 4) \in Nat
  BY FieldsInOrder, GzipHeaderAssumption, HeaderByteType
<1>. SUFFICES ASSUME NEW x \in WrongBytes(v) PROVE FALSE
  OBVIOUS
<1>. DEFINE e == ExtraEnd(v)  m == NameEnd(v)  c == CommentEnd(v)
<1>1. \/ x \in 1 .. 3 /\ HeaderByte(v, x) # FixedBytes[x]
      \/ HeaderByte(v, 4) >= GZ_RESERVED
      \/ x = e + MaxField + 1 /\ Announces(v, GZ_FNAME) /\ x < m
      \/ x = m + MaxField + 1 /\ Announces(v, GZ_FCOMMENT) /\ x < c
  BY Zenon, WrongIs
<1>2. /\ \A i \in 1 .. 3 : HeaderByte(v, i) = FixedBytes[i]
      /\ HeaderByte(v, 4) < GZ_RESERVED
  BY DEF FixedRight
<1>3. /\ Announces(v, GZ_FNAME) => m <= e + MaxField + 1
      /\ Announces(v, GZ_FCOMMENT) => c <= m + MaxField + 1
  BY DEF NameRight, CommentRight
<1>. HIDE DEF e, m, c
<1>4. GZ_RESERVED \in Nat /\ e \in Nat /\ m \in Nat /\ c \in Nat
  BY <1>0 DEF GZ_RESERVED, e, m, c
<1>. QED  BY <1>0, <1>1, <1>2, <1>3, <1>4

\* The flag that announces a field, and whether it is set.
Asks(h, field) ==
    HasFlag(h.flg, [EXTRA_LEN |-> GZ_FEXTRA, NAME |-> GZ_FNAME,
                    COMMENT |-> GZ_FCOMMENT, HCRC |-> GZ_FHCRC][field])

\* The first field that is announced is the next.
LEMMA WantedAt ==
    ASSUME NEW h, NEW order, Len(order) \in Nat, NEW i \in 1 .. Len(order), Asks(h, order[i]),
           \A j \in 1 .. Len(order) : j < i => ~Asks(h, order[j])
    PROVE  Wanted(h, order) = order[i]
<1>. DEFINE wanted == {j \in 1 .. Len(order) : Asks(h, order[j])}
<1>1. Wanted(h, order) = IF wanted = {} THEN "DONE" ELSE order[Min(wanted)]
  BY DEF Wanted, Asks
<1>2. i \in wanted /\ i \in Nat /\ \A j \in wanted : j \in Nat /\ i <= j
  OBVIOUS
<1>. HIDE DEF wanted
<1>3. Min(wanted) \in wanted /\ \A j \in wanted : Min(wanted) <= j
  BY <1>2 DEF Min
<1>4. Min(wanted) = i
  <2>. DEFINE m == Min(wanted)
  <2>. HIDE DEF m
  <2>1. m \in Nat /\ i <= m /\ m <= i
    BY <1>2, <1>3 DEF m
  <2>2. m = i
    BY ONLY <1>2, <2>1
  <2>. QED  BY <2>2 DEF m
<1>. QED  BY <1>1, <1>2, <1>4

\* With none announced the header is complete.
LEMMA WantedNone ==
    ASSUME NEW h, NEW order, \A j \in 1 .. Len(order) : ~Asks(h, order[j])
    PROVE  Wanted(h, order) = "DONE"
BY DEF Wanted, Asks

\* The orders of the fields, one by one.
LEMMA WantedFirst ==
    ASSUME NEW h
    PROVE  /\ Wanted(h, <<"HCRC">>) = IF Asks(h, "HCRC") THEN "HCRC" ELSE "DONE"
           /\ Wanted(h, <<"COMMENT", "HCRC">>) =
                IF Asks(h, "COMMENT") THEN "COMMENT" ELSE Wanted(h, <<"HCRC">>)
           /\ Wanted(h, <<"NAME", "COMMENT", "HCRC">>) =
                IF Asks(h, "NAME") THEN "NAME" ELSE Wanted(h, <<"COMMENT", "HCRC">>)
           /\ Wanted(h, <<"EXTRA_LEN", "NAME", "COMMENT", "HCRC">>) =
                IF Asks(h, "EXTRA_LEN") THEN "EXTRA_LEN"
                ELSE Wanted(h, <<"NAME", "COMMENT", "HCRC">>)
<1>. DEFINE a == <<"HCRC">>  b == <<"COMMENT", "HCRC">>  c == <<"NAME", "COMMENT", "HCRC">>
            d == <<"EXTRA_LEN", "NAME", "COMMENT", "HCRC">>
<1>1. /\ Len(a) = 1 /\ a[1] = "HCRC"
      /\ Len(b) = 2 /\ b[1] = "COMMENT" /\ b[2] = "HCRC"
      /\ Len(c) = 3 /\ c[1] = "NAME" /\ c[2] = "COMMENT" /\ c[3] = "HCRC"
      /\ Len(d) = 4 /\ d[1] = "EXTRA_LEN" /\ d[2] = "NAME" /\ d[3] = "COMMENT" /\ d[4] = "HCRC"
  OBVIOUS
<1>. HIDE DEF a, b, c, d
<1>2. ASSUME NEW o, NEW n \in 1 .. 4, Len(o) = n,
             NEW i \in 1 .. n, Asks(h, o[i]), \A k \in 1 .. n : k < i => ~Asks(h, o[k])
      PROVE  Wanted(h, o) = o[i]
  <2>1. Len(o) \in Nat /\ i \in 1 .. Len(o) /\ \A k \in 1 .. Len(o) : k < i => ~Asks(h, o[k])
    BY <1>2
  <2>. QED  BY ONLY <1>2, <2>1, WantedAt
<1>3. Wanted(h, a) = IF Asks(h, "HCRC") THEN "HCRC" ELSE "DONE"
  <2>1. Asks(h, "HCRC") => Wanted(h, a) = a[1]
    <3>1. \A k \in 1 .. 1 : ~(k < 1)
      OBVIOUS
    <3>. QED  BY <1>1, <1>2, <3>1
  <2>2. ~Asks(h, "HCRC") => Wanted(h, a) = "DONE"
    <3>1. ~Asks(h, "HCRC") => \A k \in 1 .. Len(a) : ~Asks(h, a[k])
      BY <1>1
    <3>. QED  BY <3>1, WantedNone
  <2>. QED  BY <1>1, <2>1, <2>2
<1>4. Wanted(h, b) = IF Asks(h, "COMMENT") THEN "COMMENT" ELSE Wanted(h, a)
  <2>1. Asks(h, "COMMENT") => Wanted(h, b) = b[1]
    <3>1. \A k \in 1 .. 2 : ~(k < 1)
      OBVIOUS
    <3>. QED  BY <1>1, <1>2, <3>1
  <2>2. ~Asks(h, "COMMENT") /\ Asks(h, "HCRC") => Wanted(h, b) = b[2]
    <3>1. \A k \in 1 .. 2 : k < 2 => k = 1
      OBVIOUS
    <3>2. ~Asks(h, "COMMENT") => \A k \in 1 .. 2 : k < 2 => ~Asks(h, b[k])
      BY <1>1, <3>1
    <3>. QED  BY <1>1, <1>2, <3>2
  <2>3. ~Asks(h, "COMMENT") /\ ~Asks(h, "HCRC") => Wanted(h, b) = "DONE"
    <3>1. ~Asks(h, "COMMENT") /\ ~Asks(h, "HCRC") => \A k \in 1 .. Len(b) : ~Asks(h, b[k])
      BY <1>1
    <3>. QED  BY <3>1, WantedNone
  <2>. QED  BY <1>1, <1>3, <2>1, <2>2, <2>3
<1>5. Wanted(h, c) = IF Asks(h, "NAME") THEN "NAME" ELSE Wanted(h, b)
  <2>1. Asks(h, "NAME") => Wanted(h, c) = c[1]
    <3>1. \A k \in 1 .. 3 : ~(k < 1)
      OBVIOUS
    <3>. QED  BY <1>1, <1>2, <3>1
  <2>2. ~Asks(h, "NAME") /\ Asks(h, "COMMENT") => Wanted(h, c) = c[2]
    <3>1. \A k \in 1 .. 3 : k < 2 => k = 1
      OBVIOUS
    <3>2. ~Asks(h, "NAME") => \A k \in 1 .. 3 : k < 2 => ~Asks(h, c[k])
      BY <1>1, <3>1
    <3>. QED  BY <1>1, <1>2, <3>2
  <2>3. ~Asks(h, "NAME") /\ ~Asks(h, "COMMENT") /\ Asks(h, "HCRC") => Wanted(h, c) = c[3]
    <3>1. \A k \in 1 .. 3 : k < 3 => k = 1 \/ k = 2
      OBVIOUS
    <3>2. ~Asks(h, "NAME") /\ ~Asks(h, "COMMENT") => \A k \in 1 .. 3 : k < 3 => ~Asks(h, c[k])
      BY <1>1, <3>1
    <3>. QED  BY <1>1, <1>2, <3>2
  <2>4. ~Asks(h, "NAME") /\ ~Asks(h, "COMMENT") /\ ~Asks(h, "HCRC") => Wanted(h, c) = "DONE"
    <3>1. ~Asks(h, "NAME") /\ ~Asks(h, "COMMENT") /\ ~Asks(h, "HCRC") =>
            \A k \in 1 .. Len(c) : ~Asks(h, c[k])
      BY <1>1
    <3>. QED  BY <3>1, WantedNone
  <2>. QED  BY <1>1, <1>3, <1>4, <2>1, <2>2, <2>3, <2>4
<1>6. Wanted(h, d) = IF Asks(h, "EXTRA_LEN") THEN "EXTRA_LEN" ELSE Wanted(h, c)
  <2>1. Asks(h, "EXTRA_LEN") => Wanted(h, d) = d[1]
    <3>1. \A k \in 1 .. 4 : ~(k < 1)
      OBVIOUS
    <3>. QED  BY <1>1, <1>2, <3>1
  <2>2. ~Asks(h, "EXTRA_LEN") /\ Asks(h, "NAME") => Wanted(h, d) = d[2]
    <3>1. \A k \in 1 .. 4 : k < 2 => k = 1
      OBVIOUS
    <3>2. ~Asks(h, "EXTRA_LEN") => \A k \in 1 .. 4 : k < 2 => ~Asks(h, d[k])
      BY <1>1, <3>1
    <3>. QED  BY <1>1, <1>2, <3>2
  <2>3. ~Asks(h, "EXTRA_LEN") /\ ~Asks(h, "NAME") /\ Asks(h, "COMMENT") => Wanted(h, d) = d[3]
    <3>1. \A k \in 1 .. 4 : k < 3 => k = 1 \/ k = 2
      OBVIOUS
    <3>2. ~Asks(h, "EXTRA_LEN") /\ ~Asks(h, "NAME") =>
            \A k \in 1 .. 4 : k < 3 => ~Asks(h, d[k])
      BY <1>1, <3>1
    <3>. QED  BY <1>1, <1>2, <3>2
  <2>4. ~Asks(h, "EXTRA_LEN") /\ ~Asks(h, "NAME") /\ ~Asks(h, "COMMENT") /\ Asks(h, "HCRC") =>
          Wanted(h, d) = d[4]
    <3>1. \A k \in 1 .. 4 : k < 4 => k = 1 \/ k = 2 \/ k = 3
      OBVIOUS
    <3>2. ~Asks(h, "EXTRA_LEN") /\ ~Asks(h, "NAME") /\ ~Asks(h, "COMMENT") =>
            \A k \in 1 .. 4 : k < 4 => ~Asks(h, d[k])
      BY <1>1, <3>1
    <3>. QED  BY <1>1, <1>2, <3>2
  <2>5. ~Asks(h, "EXTRA_LEN") /\ ~Asks(h, "NAME") /\ ~Asks(h, "COMMENT") /\ ~Asks(h, "HCRC") =>
          Wanted(h, d) = "DONE"
    <3>1. ~Asks(h, "EXTRA_LEN") /\ ~Asks(h, "NAME") /\ ~Asks(h, "COMMENT") /\ ~Asks(h, "HCRC") =>
            \A k \in 1 .. Len(d) : ~Asks(h, d[k])
      BY <1>1
    <3>. QED  BY <3>1, WantedNone
  <2>. QED  BY <1>1, <1>3, <1>4, <1>5, <2>1, <2>2, <2>3, <2>4, <2>5
<1>. QED  BY <1>3, <1>4, <1>5, <1>6 DEF a, b, c, d

\* Feeding has taken k bytes of v: the parser stands where the layout says,
\* the header is complete, or it is refused, as the layout has it.
FeedRight(v, k, r) ==
    \/ r.st = ZU_OK /\ r.h.state # "DONE" /\ Parsed(v, k, r.h)
    \/ r.st = ZU_OK /\ r.h.state = "DONE" /\ RefHeader(v) = [len |-> k, err |-> ZU_OK]
    \/ r.st # ZU_OK /\ RefHeader(v) = [len |-> k, err |-> r.st]

\* The parser is about to choose the next field.
Choosing(v, k, h) ==
    /\ v \in Seq(STRING \X Nat) /\ k \in 0 .. Len(v) /\ k >= HeaderLen
    /\ FixedRight(v, k) /\ h \in HeaderRecord
    /\ h.flg = HeaderByte(v, 4) /\ h.crc = k /\ h.hcrc = <<>> /\ h.field_len = 0

\* Moving on only changes the state.
LEMMA MovedIs ==
    ASSUME NEW h, h \in HeaderRecord, NEW order
    PROVE  LET r == MovedOn(h, order)
           IN  /\ r.st = ZU_OK /\ r.h.state = Wanted(h, order)
               /\ r.h.flg = h.flg /\ r.h.crc = h.crc /\ r.h.hcrc = h.hcrc
               /\ r.h.field_len = h.field_len /\ r.h.xlen = h.xlen /\ r.h.xlen_pos = h.xlen_pos
               /\ r.h.xpos = h.xpos /\ r.h.fixed_pos = h.fixed_pos
<1>. DEFINE w == Wanted(h, order)
<1>1. MovedOn(h, order).h = [h EXCEPT !.state = w] /\ MovedOn(h, order).st = ZU_OK
  BY DEF MovedOn, Fed
<1>. HIDE DEF w
<1>2. LET g == [h EXCEPT !.state = w]
      IN  /\ g.state = w
               /\ g.flg = h.flg /\ g.crc = h.crc /\ g.hcrc = h.hcrc
               /\ g.field_len = h.field_len /\ g.xlen = h.xlen /\ g.xlen_pos = h.xlen_pos
               /\ g.xpos = h.xpos /\ g.fixed_pos = h.fixed_pos
  BY DEF HeaderRecord
<1>. QED  BY <1>1, <1>2 DEF w

\* What the flags announce.
LEMMA AsksIs ==
    ASSUME NEW v, Len(v) >= 4, NEW h, h.flg = HeaderByte(v, 4)
    PROVE  /\ Asks(h, "EXTRA_LEN") = Announces(v, GZ_FEXTRA)
           /\ Asks(h, "NAME") = Announces(v, GZ_FNAME)
           /\ Asks(h, "COMMENT") = Announces(v, GZ_FCOMMENT)
           /\ Asks(h, "HCRC") = Announces(v, GZ_FHCRC)
<1>. DEFINE flag == [EXTRA_LEN |-> GZ_FEXTRA, NAME |-> GZ_FNAME,
                     COMMENT |-> GZ_FCOMMENT, HCRC |-> GZ_FHCRC]
<1>1. /\ flag["EXTRA_LEN"] = GZ_FEXTRA /\ flag["NAME"] = GZ_FNAME
      /\ flag["COMMENT"] = GZ_FCOMMENT /\ flag["HCRC"] = GZ_FHCRC
  OBVIOUS
<1>2. \A field : Asks(h, field) = HasFlag(h.flg, flag[field])
  BY DEF Asks
<1>. HIDE DEF flag
<1>3. \A bit : Announces(v, bit) = HasFlag(h.flg, bit)
  BY DEF Announces, HasFlag
<1>. QED  BY <1>1, <1>2, <1>3

\* Of a header that is about to choose, what the steps below use.
LEMMA ChoosingFacts ==
    ASSUME NEW v, NEW k, NEW h, Choosing(v, k, h)
    PROVE  /\ k \in Nat /\ Len(v) \in Nat /\ k <= Len(v) /\ Len(v) >= 4 /\ k >= 4
           /\ FixedRight(v, 4) /\ Len(h.hcrc) = 0
           /\ Asks(h, "EXTRA_LEN") = Announces(v, GZ_FEXTRA)
           /\ Asks(h, "NAME") = Announces(v, GZ_FNAME)
           /\ Asks(h, "COMMENT") = Announces(v, GZ_FCOMMENT)
           /\ Asks(h, "HCRC") = Announces(v, GZ_FHCRC)
<1>1. k \in Nat /\ Len(v) \in Nat /\ k <= Len(v) /\ Len(v) >= 4 /\ k >= 4
  BY GzipHeaderAssumption, HeaderByteType DEF Choosing
<1>2. FixedRight(v, 4)
  <2>1. FixedRight(v, k)
    BY DEF Choosing
  <2>. QED  BY <1>1, <2>1 DEF FixedRight
<1>3. Len(h.hcrc) = 0 /\ h.flg = HeaderByte(v, 4)
  BY DEF Choosing
<1>. QED  BY <1>1, <1>2, <1>3, AsksIs

\* After the comment: the checksum, or the end.
LEMMA AfterComment ==
    ASSUME NEW v, NEW k, NEW h, Choosing(v, k, h), k = CommentEnd(v), NameRight(v), CommentRight(v)
    PROVE  FeedRight(v, k, MovedOn(h, <<"HCRC">>))
<1>. DEFINE r == MovedOn(h, <<"HCRC">>)
<1>1. /\ r.st = ZU_OK /\ r.h.state = IF Announces(v, GZ_FHCRC) THEN "HCRC" ELSE "DONE"
      /\ r.h.flg = h.flg /\ r.h.crc = h.crc /\ r.h.hcrc = h.hcrc
  <2>1. Wanted(h, <<"HCRC">>) = IF Asks(h, "HCRC") THEN "HCRC" ELSE "DONE"
    BY WantedFirst
  <2>. QED  BY <2>1, MovedIs, ChoosingFacts DEF Choosing
<1>. HIDE DEF r
<1>2. CASE Announces(v, GZ_FHCRC)
  <2>1. k = CommentEnd(v) + Len(r.h.hcrc) /\ r.h.state = "HCRC"
    BY <1>1, <1>2, ChoosingFacts
  <2>2. Parsed(v, k, r.h)
    BY <1>1, <1>2, <2>1, ChoosingFacts DEF Parsed, Choosing
  <2>. QED  BY <1>1, <2>1, <2>2 DEF FeedRight, r
<1>3. CASE ~Announces(v, GZ_FHCRC)
  <2>1. WrongBytes(v) = {} /\ HeaderEnd(v) = k /\ ~(k > Len(v))
    BY <1>3, ChoosingFacts, NothingWrong DEF HeaderEnd, Choosing
  <2>2. RefHeader(v) = [len |-> k, err |-> ZU_OK]
    BY <1>3, <2>1 DEF RefHeader
  <2>. QED  BY <1>1, <1>3, <2>2 DEF FeedRight, r
<1>. QED  BY <1>2, <1>3

\* After the name: the comment, or what follows it.
LEMMA AfterName ==
    ASSUME NEW v, NEW k, NEW h, Choosing(v, k, h), k = NameEnd(v), NameRight(v)
    PROVE  FeedRight(v, k, MovedOn(h, <<"COMMENT", "HCRC">>))
<1>. DEFINE r == MovedOn(h, <<"COMMENT", "HCRC">>)
<1>1. /\ r.st = ZU_OK /\ r.h.state = Wanted(h, <<"COMMENT", "HCRC">>)
      /\ r.h.flg = h.flg /\ r.h.crc = h.crc /\ r.h.field_len = h.field_len
  BY MovedIs DEF Choosing
<1>2. CASE Announces(v, GZ_FCOMMENT)
  <2>1. r.h.state = "COMMENT"
    BY <1>1, <1>2, WantedFirst, ChoosingFacts
  <2>. HIDE DEF r
  <2>2. k = NameEnd(v) + r.h.field_len /\ \A i \in NameEnd(v) + 1 .. k : FALSE
    BY <1>1, ChoosingFacts DEF Choosing
  <2>3. Parsed(v, k, r.h)
    BY <1>1, <1>2, <2>1, <2>2, ChoosingFacts DEF Parsed, Choosing
  <2>. QED  BY <1>1, <2>1, <2>3 DEF FeedRight, r
<1>3. CASE ~Announces(v, GZ_FCOMMENT)
  <2>1. Wanted(h, <<"COMMENT", "HCRC">>) = Wanted(h, <<"HCRC">>)
    BY <1>3, WantedFirst, ChoosingFacts
  <2>2. r = MovedOn(h, <<"HCRC">>)
    BY <2>1 DEF MovedOn
  <2>3. k = CommentEnd(v) /\ CommentRight(v)
    BY <1>3 DEF CommentEnd, CommentRight
  <2>. QED  BY <2>2, <2>3, AfterComment
<1>. QED  BY <1>2, <1>3

\* After the extra field: the name, or what follows it.
LEMMA AfterExtra ==
    ASSUME NEW v, NEW k, NEW h, Choosing(v, k, h), k = ExtraEnd(v)
    PROVE  FeedRight(v, k, MovedOn(h, <<"NAME", "COMMENT", "HCRC">>))
<1>. DEFINE r == MovedOn(h, <<"NAME", "COMMENT", "HCRC">>)
<1>1. /\ r.st = ZU_OK /\ r.h.state = Wanted(h, <<"NAME", "COMMENT", "HCRC">>)
      /\ r.h.flg = h.flg /\ r.h.crc = h.crc /\ r.h.field_len = h.field_len
  BY MovedIs DEF Choosing
<1>2. CASE Announces(v, GZ_FNAME)
  <2>1. r.h.state = "NAME"
    BY <1>1, <1>2, WantedFirst, ChoosingFacts
  <2>. HIDE DEF r
  <2>2. k = ExtraEnd(v) + r.h.field_len /\ \A i \in ExtraEnd(v) + 1 .. k : FALSE
    BY <1>1, ChoosingFacts DEF Choosing
  <2>3. Parsed(v, k, r.h)
    BY <1>1, <1>2, <2>1, <2>2, ChoosingFacts DEF Parsed, Choosing
  <2>. QED  BY <1>1, <2>1, <2>3 DEF FeedRight, r
<1>3. CASE ~Announces(v, GZ_FNAME)
  <2>1. Wanted(h, <<"NAME", "COMMENT", "HCRC">>) = Wanted(h, <<"COMMENT", "HCRC">>)
    BY <1>3, WantedFirst, ChoosingFacts
  <2>2. r = MovedOn(h, <<"COMMENT", "HCRC">>)
    BY <2>1 DEF MovedOn
  <2>3. k = NameEnd(v) /\ NameRight(v)
    BY <1>3 DEF NameEnd, NameRight
  <2>. QED  BY <2>2, <2>3, AfterName
<1>. QED  BY <1>2, <1>3

\* After the fixed part: the extra field's length, or what follows it.
LEMMA AfterFixed ==
    ASSUME NEW v, NEW k, NEW h, Choosing(v, k, h), k = HeaderLen, h.xlen = 0, h.xlen_pos = 0
    PROVE  FeedRight(v, k, MovedOn(h, <<"EXTRA_LEN", "NAME", "COMMENT", "HCRC">>))
<1>. DEFINE r == MovedOn(h, <<"EXTRA_LEN", "NAME", "COMMENT", "HCRC">>)
<1>1. /\ r.st = ZU_OK /\ r.h.state = Wanted(h, <<"EXTRA_LEN", "NAME", "COMMENT", "HCRC">>)
      /\ r.h.flg = h.flg /\ r.h.crc = h.crc /\ r.h.xlen = h.xlen /\ r.h.xlen_pos = h.xlen_pos
  BY MovedIs DEF Choosing
<1>2. CASE Announces(v, GZ_FEXTRA)
  <2>1. r.h.state = "EXTRA_LEN"
    BY <1>1, <1>2, WantedFirst, ChoosingFacts
  <2>. HIDE DEF r
  <2>2. k = HeaderLen + r.h.xlen_pos
    BY <1>1, ChoosingFacts
  <2>3. Parsed(v, k, r.h)
    BY <1>1, <1>2, <2>1, <2>2, ChoosingFacts DEF Parsed, Choosing
  <2>. QED  BY <1>1, <2>1, <2>3 DEF FeedRight, r
<1>3. CASE ~Announces(v, GZ_FEXTRA)
  <2>1. Wanted(h, <<"EXTRA_LEN", "NAME", "COMMENT", "HCRC">>) =
          Wanted(h, <<"NAME", "COMMENT", "HCRC">>)
    BY <1>3, WantedFirst, ChoosingFacts
  <2>2. r = MovedOn(h, <<"NAME", "COMMENT", "HCRC">>)
    BY <2>1 DEF MovedOn
  <2>3. k = ExtraEnd(v)
    BY <1>3 DEF ExtraEnd
  <2>. QED  BY <2>2, <2>3, AfterExtra
<1>. QED  BY <1>2, <1>3

\* A header byte is counted, until its checksum begins.
CountedByte(g) == [g EXCEPT !.crc = IF g.state = "HCRC" THEN @ ELSE @ + 1]

\* Counting a byte changes nothing else of the header.
LEMMA CountedByteIs ==
    ASSUME NEW g, g \in HeaderRecord
    PROVE  LET h == CountedByte(g)
           IN  /\ h \in HeaderRecord
               /\ h.state = g.state /\ h.fixed_pos = g.fixed_pos /\ h.flg = g.flg
               /\ h.xlen = g.xlen /\ h.xlen_pos = g.xlen_pos /\ h.xpos = g.xpos
               /\ h.field_len = g.field_len /\ h.hcrc = g.hcrc
               /\ h.crc = IF g.state = "HCRC" THEN g.crc ELSE g.crc + 1
<1>. DEFINE n == IF g.state = "HCRC" THEN g.crc ELSE g.crc + 1
<1>1. n \in Nat
  BY DEF HeaderRecord
<1>2. CountedByte(g) = [g EXCEPT !.crc = n]
  BY DEF CountedByte
<1>. HIDE DEF n
<1>3. LET h == [g EXCEPT !.crc = n]
      IN  /\ h \in HeaderRecord
               /\ h.state = g.state /\ h.fixed_pos = g.fixed_pos /\ h.flg = g.flg
               /\ h.xlen = g.xlen /\ h.xlen_pos = g.xlen_pos /\ h.xpos = g.xpos
               /\ h.field_len = g.field_len /\ h.hcrc = g.hcrc
               /\ h.crc = n
  BY <1>1 DEF HeaderRecord
<1>. QED  BY <1>2, <1>3 DEF n

\* The field the parser is in takes the byte.
LEMMA HeaderFeedIs ==
    ASSUME NEW g, g \in HeaderRecord, NEW byte
    PROVE  /\ g.state = "FIXED" => HeaderFeed(g, byte) = FeedFixed(CountedByte(g), byte)
           /\ g.state = "EXTRA_LEN" => HeaderFeed(g, byte) = FeedExtraLen(CountedByte(g), byte)
           /\ g.state = "EXTRA" => HeaderFeed(g, byte) = FeedExtra(CountedByte(g))
           /\ g.state = "NAME" =>
                HeaderFeed(g, byte) = FeedField(CountedByte(g), byte, <<"COMMENT", "HCRC">>)
           /\ g.state = "COMMENT" =>
                HeaderFeed(g, byte) = FeedField(CountedByte(g), byte, <<"HCRC">>)
           /\ g.state = "HCRC" => HeaderFeed(g, byte) = FeedHcrc(CountedByte(g), byte)
<1>. DEFINE h == CountedByte(g)
<1>1. h.state = g.state
  BY CountedByteIs
<1>2. HeaderFeed(g, byte) =
        CASE h.state = "FIXED"     -> FeedFixed(h, byte)
          [] h.state = "EXTRA_LEN" -> FeedExtraLen(h, byte)
          [] h.state = "EXTRA"     -> FeedExtra(h)
          [] h.state = "NAME"      -> FeedField(h, byte, <<"COMMENT", "HCRC">>)
          [] h.state = "COMMENT"   -> FeedField(h, byte, <<"HCRC">>)
          [] h.state = "HCRC"      -> FeedHcrc(h, byte)
          [] h.state = "DONE"      -> Fed(h, ZU_ERR_INTERNAL)
  BY Zenon DEF HeaderFeed, CountedByte
<1>. HIDE DEF h
<1>. DEFINE f == HeaderFeed(g, byte)
<1>. HIDE DEF f
<1>3. f =
        CASE h.state = "FIXED"     -> FeedFixed(h, byte)
          [] h.state = "EXTRA_LEN" -> FeedExtraLen(h, byte)
          [] h.state = "EXTRA"     -> FeedExtra(h)
          [] h.state = "NAME"      -> FeedField(h, byte, <<"COMMENT", "HCRC">>)
          [] h.state = "COMMENT"   -> FeedField(h, byte, <<"HCRC">>)
          [] h.state = "HCRC"      -> FeedHcrc(h, byte)
          [] h.state = "DONE"      -> Fed(h, ZU_ERR_INTERNAL)
  BY <1>2 DEF f
<1>4. h.state = "FIXED" => f = FeedFixed(h, byte)
  BY <1>3
<1>5. h.state = "EXTRA_LEN" => f = FeedExtraLen(h, byte)
  BY <1>3
<1>6. h.state = "EXTRA" => f = FeedExtra(h)
  BY <1>3
<1>7. h.state = "NAME" => f = FeedField(h, byte, <<"COMMENT", "HCRC">>)
  BY <1>3
<1>8. h.state = "COMMENT" => f = FeedField(h, byte, <<"HCRC">>)
  BY <1>3
<1>9. h.state = "HCRC" => f = FeedHcrc(h, byte)
  BY <1>3
<1>. QED  BY <1>1, <1>4, <1>5, <1>6, <1>7, <1>8, <1>9 DEF f, h

\* A byte that is wrong, with none before it.
LEMMA WrongHere ==
    ASSUME NEW v, v \in Seq(STRING \X Nat), NEW k \in Nat, k + 1 \in WrongBytes(v),
           \A x \in WrongBytes(v) : ~(x <= k)
    PROVE  RefHeader(v) = [len |-> k + 1, err |-> ZU_ERR_INVALID_DATA]
<1>1. MaxField \in Nat /\ ExtraEnd(v) \in Nat /\ NameEnd(v) \in Nat
  BY FieldsInOrder, GzipHeaderAssumption
<1>. DEFINE e == ExtraEnd(v)  m == NameEnd(v)
<1>2. ASSUME NEW x \in WrongBytes(v) PROVE x \in Nat
  <2>1. x \in 1 .. 3 \/ x = 4 \/ x = e + MaxField + 1 \/ x = m + MaxField + 1
    BY Zenon, WrongIs
  <2>. HIDE DEF e, m
  <2>. QED  BY <1>1, <2>1 DEF e, m
<1>. DEFINE W == WrongBytes(v)  w == k + 1
<1>3. \A x \in W : x \in Nat /\ w <= x
  BY <1>2
<1>4. w \in W /\ w \in Nat
  OBVIOUS
<1>. HIDE DEF w, W
<1>5. RefHeader(v) = [len |-> w, err |-> ZU_ERR_INVALID_DATA]
  BY <1>3, <1>4, FirstWrong DEF W
<1>. QED  BY <1>5 DEF w

\* In the fixed part.
LEMMA FixedFed ==
    ASSUME NEW v, v \in Seq(STRING \X Nat), NEW k \in Nat, k < Len(v),
           NEW g, g \in HeaderRecord, HeaderFits(g), Parsed(v, k, g), g.state = "FIXED"
    PROVE  FeedRight(v, k + 1, HeaderFeed(g, HeaderByte(v, k + 1)))
<1>. DEFINE h == CountedByte(g)
            byte == HeaderByte(v, k + 1)
            n == h.fixed_pos + 1
            f == [h EXCEPT !.fixed_pos = n, !.flg = IF n = 4 THEN byte ELSE @]
            r == HeaderFeed(g, byte)
            order == <<"EXTRA_LEN", "NAME", "COMMENT", "HCRC">>
<1>0. /\ Len(v) \in Nat /\ HeaderLen \in Nat /\ HeaderLen >= 4 /\ MaxField \in Nat /\ byte \in Nat
      /\ GZ_RESERVED = 32
  BY HeaderByteType, GzipHeaderAssumption DEF GZ_RESERVED
<1>1. /\ k < HeaderLen /\ g.fixed_pos = k /\ g.xlen = 0 /\ g.crc = k /\ FixedRight(v, k)
      /\ k >= 4 => g.flg = HeaderByte(v, 4)
      /\ g.xlen_pos = 0 /\ g.field_len = 0 /\ g.hcrc = <<>>
  BY DEF Parsed, HeaderFits
<1>2. /\ h \in HeaderRecord /\ h.state = "FIXED" /\ h.fixed_pos = k /\ h.flg = g.flg
      /\ h.xlen = 0 /\ h.xlen_pos = 0 /\ h.field_len = 0 /\ h.hcrc = <<>> /\ h.crc = k + 1
  BY <1>1, CountedByteIs
<1>3. r = FeedFixed(h, byte)
  BY HeaderFeedIs
<1>. HIDE DEF h, r
<1>4. n = k + 1
  BY <1>2
<1>5. CASE (n <= 3 /\ byte # FixedBytes[n]) \/ (n = 4 /\ byte >= GZ_RESERVED)
  <2>1. r.st = ZU_ERR_INVALID_DATA
    BY <1>3, <1>5 DEF FeedFixed, Fed
  <2>2. k + 1 \in WrongBytes(v)
    <3>1. \/ k + 1 \in 1 .. 3 /\ k + 1 <= Len(v) /\ HeaderByte(v, k + 1) # FixedBytes[k + 1]
          \/ k + 1 = 4 /\ Len(v) >= 4 /\ HeaderByte(v, 4) >= GZ_RESERVED
      BY <1>0, <1>4, <1>5
    <3>. DEFINE x == k + 1
    <3>. HIDE DEF x
    <3>2. \/ x \in 1 .. 3 /\ x <= Len(v) /\ HeaderByte(v, x) # FixedBytes[x]
          \/ x = 4 /\ Len(v) >= 4 /\ HeaderByte(v, 4) >= GZ_RESERVED
      BY <3>1 DEF x
    <3>. QED  BY Zenon, <3>2, WrongIs DEF x
  <2>3. ASSUME NEW x \in WrongBytes(v) PROVE ~(x <= k)
    <3>. DEFINE e == ExtraEnd(v)  m == NameEnd(v)
    <3>1. \/ x \in 1 .. 3 /\ HeaderByte(v, x) # FixedBytes[x]
          \/ x = 4 /\ HeaderByte(v, 4) >= GZ_RESERVED
          \/ x = e + MaxField + 1
          \/ x = m + MaxField + 1
      BY Zenon, WrongIs
    <3>2. e \in Nat /\ m \in Nat /\ e > k /\ m > k
      <4>1. k \in 0 .. Len(v)
        BY <1>0
      <4>. QED  BY <1>1, <4>1, FieldsInOrder
    <3>3. \A i \in 1 .. 3 : i <= k => HeaderByte(v, i) = FixedBytes[i]
      BY <1>1 DEF FixedRight
    <3>4. x = 4 => k < 4
      BY <1>4, <1>5
    <3>. HIDE DEF e, m, n
    <3>. QED  BY <1>0, <3>1, <3>2, <3>3, <3>4
  <2>4. RefHeader(v) = [len |-> k + 1, err |-> ZU_ERR_INVALID_DATA]
    BY <2>2, <2>3, WrongHere
  <2>5. ZU_ERR_INVALID_DATA # ZU_OK
    BY DEF ZU_OK, ZU_ERR_INVALID_DATA
  <2>. QED  BY <2>1, <2>4, <2>5 DEF FeedRight, r
<1>6. CASE ~((n <= 3 /\ byte # FixedBytes[n]) \/ (n = 4 /\ byte >= GZ_RESERVED))
  <2>1. FixedRight(v, k + 1)
    <3>1. ASSUME NEW i \in 1 .. 3, i <= k + 1 PROVE HeaderByte(v, i) = FixedBytes[i]
      <4>1. i <= k \/ i = k + 1
        BY <3>1
      <4>. QED  BY <1>1, <1>4, <1>6, <4>1 DEF FixedRight
    <3>2. ASSUME k + 1 >= 4 PROVE HeaderByte(v, 4) < GZ_RESERVED
      <4>1. k >= 4 \/ k + 1 = 4
        BY <3>2
      <4>. QED  BY <1>0, <1>1, <1>4, <1>6, <4>1 DEF FixedRight
    <3>. QED  BY <3>1, <3>2 DEF FixedRight
  <2>2. r = IF n < HeaderLen THEN Fed(f, ZU_OK) ELSE MovedOn(f, order)
    BY <1>3, <1>6 DEF FeedFixed
  <2>3. /\ f \in HeaderRecord /\ f.state = "FIXED" /\ f.fixed_pos = k + 1
        /\ f.flg = IF k + 1 = 4 THEN byte ELSE g.flg
        /\ f.xlen = 0 /\ f.xlen_pos = 0 /\ f.field_len = 0 /\ f.hcrc = <<>> /\ f.crc = k + 1
    <3>. DEFINE b == IF n = 4 THEN byte ELSE h.flg
    <3>1. b \in Nat /\ n \in Nat
      BY <1>0, <1>2, <1>4 DEF HeaderRecord
    <3>2. f = [h EXCEPT !.fixed_pos = n, !.flg = b]
      OBVIOUS
    <3>3. b = IF k + 1 = 4 THEN byte ELSE g.flg
      BY <1>2, <1>4
    <3>. HIDE DEF b, n, f
    <3>4. f \in HeaderRecord
      BY <1>2, <3>1, <3>2 DEF HeaderRecord
    <3>. QED  BY <1>2, <1>4, <3>2, <3>3, <3>4 DEF HeaderRecord
  <2>4. k + 1 >= 4 => f.flg = HeaderByte(v, 4)
    <3>1. k + 1 >= 4 => k + 1 = 4 \/ k >= 4
      OBVIOUS
    <3>2. k + 1 = 4 => byte = HeaderByte(v, 4)
      OBVIOUS
    <3>3. k >= 4 => k + 1 # 4
      OBVIOUS
    <3>. HIDE DEF byte, f
    <3>. QED  BY <1>1, <2>3, <3>1, <3>2, <3>3
  <2>. HIDE DEF f, n, order
  <2>5. CASE n < HeaderLen
    <3>1. r.st = ZU_OK /\ r.h = f
      BY <2>2, <2>5 DEF Fed
    <3>2. k + 1 < HeaderLen /\ k + 1 \in 0 .. Len(v)
      BY <1>0, <1>4, <2>5
    <3>3. Parsed(v, k + 1, f)
      BY <2>1, <2>3, <2>4, <3>2 DEF Parsed
    <3>. QED  BY <2>3, <3>1, <3>3 DEF FeedRight, r
  <2>6. CASE ~(n < HeaderLen)
    <3>1. k + 1 = HeaderLen /\ k + 1 >= 4 /\ k + 1 \in 0 .. Len(v) /\ k + 1 >= HeaderLen
      BY <1>0, <1>1, <1>4, <2>6
    <3>2. Choosing(v, k + 1, f)
      BY <2>1, <2>3, <2>4, <3>1 DEF Choosing
    <3>3. r = MovedOn(f, order)
      BY <2>2, <2>6
    <3>4. FeedRight(v, k + 1, MovedOn(f, order))
      BY <2>3, <3>1, <3>2, AfterFixed DEF order
    <3>. QED  BY <3>3, <3>4 DEF r
  <2>. QED  BY <2>5, <2>6
<1>. QED  BY <1>5, <1>6

\* Beyond the fixed part.
LEMMA FixedStays ==
    ASSUME NEW v, v \in Seq(STRING \X Nat), NEW k \in Nat, FixedRight(v, k), k >= HeaderLen,
           k < Len(v)
    PROVE  FixedRight(v, k + 1) /\ k + 1 \in 0 .. Len(v) /\ k + 1 >= HeaderLen /\ k >= 4
<1>1. HeaderLen >= 4 /\ HeaderLen \in Nat /\ Len(v) \in Nat
  BY GzipHeaderAssumption
<1>2. k >= 4 /\ \A i \in 1 .. 3 : i <= k
  BY <1>1
<1>. QED  BY <1>1, <1>2 DEF FixedRight

\* In the length of the extra field.
LEMMA ExtraLenFed ==
    ASSUME NEW v, v \in Seq(STRING \X Nat), NEW k \in Nat, k < Len(v),
           NEW g, g \in HeaderRecord, HeaderFits(g), Parsed(v, k, g), g.state = "EXTRA_LEN"
    PROVE  FeedRight(v, k + 1, HeaderFeed(g, HeaderByte(v, k + 1)))
<1>. DEFINE h == CountedByte(g)
            byte == HeaderByte(v, k + 1)
            f == [h EXCEPT !.xlen = @ + byte * (IF h.xlen_pos = 0 THEN 1 ELSE 256),
                           !.xlen_pos = @ + 1]
            e == [f EXCEPT !.state = "EXTRA"]
            r == HeaderFeed(g, byte)
            order == <<"NAME", "COMMENT", "HCRC">>
            x1 == HeaderByte(v, HeaderLen + 1)
            x2 == HeaderByte(v, HeaderLen + 2)
<1>0. /\ Len(v) \in Nat /\ HeaderLen \in Nat /\ HeaderLen >= 4 /\ byte \in Nat
  BY HeaderByteType, GzipHeaderAssumption
<1>1. /\ k >= HeaderLen /\ g.flg = HeaderByte(v, 4) /\ g.crc = k /\ FixedRight(v, k)
      /\ Announces(v, GZ_FEXTRA) /\ k = HeaderLen + g.xlen_pos
      /\ g.xlen = IF g.xlen_pos = 0 THEN 0 ELSE x1
      /\ g.xpos = 0 /\ g.xlen_pos < 2 /\ g.field_len = 0 /\ g.hcrc = <<>>
  BY DEF Parsed, HeaderFits
<1>2. /\ h \in HeaderRecord /\ h.state = "EXTRA_LEN" /\ h.flg = g.flg
      /\ h.xlen = g.xlen /\ h.xlen_pos = g.xlen_pos /\ h.field_len = 0 /\ h.hcrc = <<>>
      /\ h.crc = k + 1 /\ h.xpos = 0
  BY <1>1, CountedByteIs
<1>3. r = FeedExtraLen(h, byte)
  BY HeaderFeedIs
<1>. HIDE DEF h, r
<1>4. r = IF f.xlen_pos < 2 THEN Fed(f, ZU_OK)
          ELSE IF f.xlen > 0 THEN Fed(e, ZU_OK) ELSE MovedOn(f, order)
  BY <1>3 DEF FeedExtraLen
<1>5. g.xlen_pos \in Nat /\ (g.xlen_pos = 0 \/ g.xlen_pos = 1)
  <2>1. g.xlen_pos \in Nat
    BY DEF HeaderRecord
  <2>. QED  BY <1>1, <2>1
<1>6. /\ f \in HeaderRecord /\ f.state = "EXTRA_LEN" /\ f.flg = g.flg
      /\ f.xlen_pos = g.xlen_pos + 1 /\ f.field_len = 0 /\ f.hcrc = <<>> /\ f.crc = k + 1 /\ f.xpos = 0
      /\ f.xlen = g.xlen + byte * (IF g.xlen_pos = 0 THEN 1 ELSE 256)
  <2>. DEFINE a == h.xlen + byte * (IF h.xlen_pos = 0 THEN 1 ELSE 256)
              b == h.xlen_pos + 1
  <2>1. a \in Nat /\ b \in Nat
    <3>1. h.xlen \in Nat /\ h.xlen_pos \in Nat
      BY <1>2 DEF HeaderRecord
    <3>. HIDE DEF byte
    <3>. QED  BY <1>0, <3>1
  <2>2. f = [h EXCEPT !.xlen = a, !.xlen_pos = b]
    OBVIOUS
  <2>3. a = g.xlen + byte * (IF g.xlen_pos = 0 THEN 1 ELSE 256) /\ b = g.xlen_pos + 1
    BY <1>2
  <2>. HIDE DEF a, b, f
  <2>4. f \in HeaderRecord
    BY <1>2, <2>1, <2>2 DEF HeaderRecord
  <2>. QED  BY <1>2, <2>2, <2>3, <2>4 DEF HeaderRecord
<1>7. FixedRight(v, k + 1) /\ k + 1 \in 0 .. Len(v) /\ k + 1 >= HeaderLen
  BY <1>1, FixedStays
<1>. HIDE DEF f
<1>8. CASE g.xlen_pos = 0
  <2>1. f.xlen_pos = 1 /\ k = HeaderLen /\ f.xlen = x1
    <3>1. f.xlen = 0 + byte * 1 /\ byte = x1
      BY <1>1, <1>6, <1>8, <1>0
    <3>. QED  BY <1>0, <1>1, <1>6, <1>8, <3>1
  <2>2. r = Fed(f, ZU_OK)
    BY <1>4, <2>1
  <2>3. k + 1 = HeaderLen + f.xlen_pos
    BY <1>0, <2>1
  <2>. HIDE DEF x1
  <2>4. f.xlen = IF f.xlen_pos = 0 THEN 0 ELSE HeaderByte(v, HeaderLen + 1)
    BY <2>1 DEF x1
  <2>5. Parsed(v, k + 1, f)
    BY <1>1, <1>6, <1>7, <2>3, <2>4 DEF Parsed
  <2>6. r.st = ZU_OK /\ r.h = f
    BY <2>2 DEF Fed
  <2>. QED  BY <1>6, <2>5, <2>6 DEF FeedRight, r
<1>9. CASE g.xlen_pos = 1
  <2>1. f.xlen_pos = 2 /\ k = HeaderLen + 1 /\ k + 1 = HeaderLen + 2 /\ ~(2 < 2)
    BY <1>0, <1>1, <1>6, <1>9
  <2>2. f.xlen = x1 + 256 * x2 /\ x1 \in Nat /\ x2 \in Nat
    <3>1. byte = x2
      BY <2>1
    <3>2. x1 \in Nat /\ x2 \in Nat
      BY <1>0, <2>1, HeaderByteType
    <3>3. f.xlen = x1 + byte * 256
      BY <1>1, <1>6, <1>9
    <3>. HIDE DEF x1, x2, byte
    <3>. QED  BY <3>1, <3>2, <3>3
  <2>3. r = IF f.xlen > 0 THEN Fed(e, ZU_OK) ELSE MovedOn(f, order)
    BY <1>4, <2>1
  <2>4. CASE f.xlen > 0
    <3>1. e \in HeaderRecord /\ e.state = "EXTRA" /\ e.flg = g.flg /\ e.crc = k + 1
          /\ e.xpos = 0 /\ e.xlen = x1 + 256 * x2
      <4>. HIDE DEF x1, x2
      <4>. QED  BY <1>6, <2>2 DEF HeaderRecord, HeaderStates
    <3>2. r.st = ZU_OK /\ r.h = e
      BY <2>3, <2>4 DEF Fed
    <3>. HIDE DEF e, x1, x2
    <3>3. k + 1 = HeaderLen + 2 + e.xpos
      BY <1>0, <2>1, <3>1
    <3>4. Parsed(v, k + 1, e)
      BY <1>1, <1>7, <3>1, <3>3 DEF Parsed, x1, x2
    <3>. QED  BY <3>1, <3>2, <3>4 DEF FeedRight, r
  <2>5. CASE ~(f.xlen > 0)
    <3>1. x1 + 256 * x2 = 0
      <4>. HIDE DEF x1, x2
      <4>. QED  BY <2>2, <2>5
    <3>2. k + 1 = ExtraEnd(v)
      <4>1. ~(Len(v) < HeaderLen + 2)
        BY <1>0, <2>1
      <4>2. ExtraEnd(v) = HeaderLen + 2 + x1 + 256 * x2
        BY <1>1, <4>1 DEF ExtraEnd
      <4>. HIDE DEF x1, x2
      <4>. QED  BY <1>0, <2>1, <2>2, <3>1, <4>2
    <3>3. Choosing(v, k + 1, f)
      BY <1>1, <1>6, <1>7 DEF Choosing
    <3>4. FeedRight(v, k + 1, MovedOn(f, order))
      BY <3>2, <3>3, AfterExtra
    <3>. QED  BY <2>3, <2>5, <3>4 DEF r
  <2>. QED  BY <2>4, <2>5
<1>. QED  BY <1>5, <1>8, <1>9

\* In the extra field.
LEMMA ExtraFed ==
    ASSUME NEW v, v \in Seq(STRING \X Nat), NEW k \in Nat, k < Len(v),
           NEW g, g \in HeaderRecord, HeaderFits(g), Parsed(v, k, g), g.state = "EXTRA"
    PROVE  FeedRight(v, k + 1, HeaderFeed(g, HeaderByte(v, k + 1)))
<1>. DEFINE h == CountedByte(g)
            byte == HeaderByte(v, k + 1)
            f == [h EXCEPT !.xpos = @ + 1]
            r == HeaderFeed(g, byte)
            order == <<"NAME", "COMMENT", "HCRC">>
            x1 == HeaderByte(v, HeaderLen + 1)
            x2 == HeaderByte(v, HeaderLen + 2)
<1>0. /\ Len(v) \in Nat /\ HeaderLen \in Nat /\ HeaderLen >= 4
  BY HeaderByteType, GzipHeaderAssumption
<1>1. /\ k >= HeaderLen /\ g.flg = HeaderByte(v, 4) /\ g.crc = k /\ FixedRight(v, k)
      /\ Announces(v, GZ_FEXTRA) /\ k = HeaderLen + 2 + g.xpos /\ g.xlen = x1 + 256 * x2
      /\ g.xpos < g.xlen /\ g.field_len = 0 /\ g.hcrc = <<>>
  BY DEF Parsed, HeaderFits
<1>2. /\ h \in HeaderRecord /\ h.state = "EXTRA" /\ h.flg = g.flg
      /\ h.xlen = g.xlen /\ h.field_len = 0 /\ h.hcrc = <<>> /\ h.crc = k + 1 /\ h.xpos = g.xpos
  BY <1>1, CountedByteIs
<1>3. r = FeedExtra(h)
  BY HeaderFeedIs
<1>. HIDE DEF h, r
<1>4. r = IF f.xpos < h.xlen THEN Fed(f, ZU_OK) ELSE MovedOn(f, order)
  BY <1>3 DEF FeedExtra
<1>4a. h.xpos \in Nat
  BY <1>2 DEF HeaderRecord
<1>5. /\ f \in HeaderRecord /\ f.state = "EXTRA" /\ f.flg = g.flg /\ f.xlen = g.xlen
      /\ f.field_len = 0 /\ f.hcrc = <<>> /\ f.crc = k + 1 /\ f.xpos = g.xpos + 1
  <2>1. h.xpos + 1 \in Nat
    BY <1>4a
  <2>2. f \in HeaderRecord
    BY <1>2, <2>1 DEF HeaderRecord
  <2>. QED  BY <1>2, <2>2 DEF HeaderRecord
<1>6. FixedRight(v, k + 1) /\ k + 1 \in 0 .. Len(v) /\ k + 1 >= HeaderLen
  BY <1>1, FixedStays
<1>7. g.xpos \in Nat /\ x1 \in Nat /\ x2 \in Nat /\ k >= HeaderLen + 2
  <2>1. g.xpos \in Nat
    BY DEF HeaderRecord
  <2>2. k >= HeaderLen + 2
    BY <1>0, <1>1, <2>1
  <2>3. HeaderLen + 1 \in 1 .. Len(v) /\ HeaderLen + 2 \in 1 .. Len(v)
    BY <1>0, <2>2
  <2>. QED  BY <2>1, <2>2, <2>3, HeaderByteType
<1>. HIDE DEF f, x1, x2
<1>8. CASE f.xpos < h.xlen
  <2>1. r.st = ZU_OK /\ r.h = f
    BY <1>4, <1>8 DEF Fed
  <2>2. k + 1 = HeaderLen + 2 + f.xpos
    BY <1>0, <1>1, <1>5, <1>7
  <2>3. Parsed(v, k + 1, f)
    BY <1>1, <1>5, <1>6, <2>2 DEF Parsed, x1, x2
  <2>. QED  BY <1>5, <2>1, <2>3 DEF FeedRight, r
<1>9. CASE ~(f.xpos < h.xlen)
  <2>1. k + 1 = HeaderLen + 2 + x1 + 256 * x2
    <3>1. ~(g.xpos + 1 < g.xlen) /\ g.xpos < g.xlen /\ g.xlen \in Nat
      BY <1>1, <1>2, <1>5, <1>9 DEF HeaderRecord
    <3>2. g.xlen = g.xpos + 1
      BY <1>7, <3>1
    <3>. DEFINE y == 256 * x2
    <3>3. y \in Nat /\ g.xlen = x1 + y
      BY <1>1, <1>7
    <3>. HIDE DEF y
    <3>. DEFINE w == g.xpos  len == HeaderLen
    <3>4. w \in Nat /\ len \in Nat /\ x1 \in Nat /\ k = len + 2 + w /\ w + 1 = x1 + y
      BY <1>0, <1>1, <1>7, <3>2, <3>3
    <3>. HIDE DEF w, len
    <3>5. k + 1 = len + 2 + x1 + y
      BY ONLY <3>3, <3>4
    <3>. QED  BY <3>5 DEF y, len
  <2>2. k + 1 = ExtraEnd(v)
    <3>1. ~(Len(v) < HeaderLen + 2)
      BY <1>0, <1>7
    <3>2. ExtraEnd(v) = HeaderLen + 2 + x1 + 256 * x2
      BY <1>1, <3>1 DEF ExtraEnd, x1, x2
    <3>. QED  BY <2>1, <3>2
  <2>3. Choosing(v, k + 1, f)
    BY <1>1, <1>5, <1>6 DEF Choosing
  <2>4. FeedRight(v, k + 1, MovedOn(f, order))
    BY <2>2, <2>3, AfterExtra
  <2>. QED  BY <1>4, <1>9, <2>4 DEF r
<1>. QED  BY <1>8, <1>9

\* A byte of a field that begins after e: the NUL, one too many, or one more.
FieldTaken(v, k, h, e, order, r) ==
    \/ /\ r = MovedOn([h EXCEPT !.field_len = 0], order)
       /\ NulAfter(v, e) = k + 1 /\ k + 1 <= e + MaxField + 1
    \/ /\ r.st = ZU_ERR_INVALID_DATA
       /\ k + 1 = e + MaxField + 1 /\ k + 1 < NulAfter(v, e)
    \/ /\ r = Fed([h EXCEPT !.field_len = @ + 1], ZU_OK)
       /\ \A i \in e + 1 .. k + 1 : HeaderByte(v, i) # 0
       /\ h.field_len + 1 <= MaxField

\* A field takes its bytes so.
LEMMA FieldTakes ==
    ASSUME NEW v, v \in Seq(STRING \X Nat), NEW k \in Nat, k < Len(v),
           NEW h, NEW e \in Nat, h.field_len \in Nat, k = e + h.field_len, h.field_len <= MaxField,
           \A i \in e + 1 .. k : HeaderByte(v, i) # 0, NEW order
    PROVE  FieldTaken(v, k, h, e, order, FeedField(h, HeaderByte(v, k + 1), order))
<1>. DEFINE byte == HeaderByte(v, k + 1)
            f == [h EXCEPT !.field_len = @ + 1]
            r == FeedField(h, byte, order)
<1>0. Len(v) \in Nat /\ MaxField \in Nat /\ k \in e .. Len(v) /\ k + 1 \in e .. Len(v)
  BY HeaderByteType, GzipHeaderAssumption
<1>1. r = IF byte = 0 THEN MovedOn([h EXCEPT !.field_len = 0], order)
          ELSE IF h.field_len + 1 > MaxField THEN Fed(f, ZU_ERR_INVALID_DATA)
          ELSE Fed(f, ZU_OK)
  <2>1. f.field_len = h.field_len + 1 \/ "field_len" \notin DOMAIN h
    OBVIOUS
  <2>. QED  BY DEF FeedField
<1>2. CASE byte = 0
  <2>1. NulAfter(v, e) = k + 1
    BY <1>0, <1>2, HNulIs
  <2>. QED  BY <1>0, <1>1, <1>2, <2>1 DEF FieldTaken
<1>3. CASE byte # 0
  <2>1. \A i \in e + 1 .. k + 1 : HeaderByte(v, i) # 0
    <3>. SUFFICES ASSUME NEW i \in e + 1 .. k + 1 PROVE HeaderByte(v, i) # 0
      OBVIOUS
    <3>1. i \in e + 1 .. k \/ i = k + 1
      OBVIOUS
    <3>. QED  BY <1>3, <3>1
  <2>2. NulAfter(v, e) \in Nat /\ NulAfter(v, e) > k + 1
    BY <1>0, <2>1, HNulIs
  <2>3. CASE h.field_len + 1 > MaxField
    <3>1. r.st = ZU_ERR_INVALID_DATA
      BY <1>1, <1>3, <2>3 DEF Fed
    <3>2. k + 1 = e + MaxField + 1 /\ k + 1 < NulAfter(v, e)
      <4>. DEFINE y == h.field_len  z == NulAfter(v, e)
      <4>1. y \in Nat /\ y <= MaxField /\ MaxField \in Nat /\ y + 1 > MaxField /\ k = e + y
            /\ e \in Nat /\ z > k + 1
        BY <1>0, <2>2, <2>3
      <4>3. z \in Nat
        BY <2>2
      <4>. HIDE DEF y, z
      <4>2. k + 1 = e + MaxField + 1 /\ k + 1 < z
        BY ONLY <4>1, <4>3, k \in Nat
      <4>. QED  BY <4>2 DEF z
    <3>. QED  BY <3>1, <3>2 DEF FieldTaken
  <2>4. CASE ~(h.field_len + 1 > MaxField)
    <3>1. r = Fed(f, ZU_OK) /\ h.field_len + 1 <= MaxField
      BY <1>0, <1>1, <1>3, <2>4
    <3>. QED  BY <2>1, <3>1 DEF FieldTaken
  <2>. QED  BY <2>3, <2>4
<1>. QED  BY <1>2, <1>3

\* Beyond the fixed part only the name and the comment can be wrong.
LEMMA WrongLater ==
    ASSUME NEW v, v \in Seq(STRING \X Nat), NEW k \in Nat, k >= 4, FixedRight(v, k),
           NEW x \in WrongBytes(v)
    PROVE  \/ x = ExtraEnd(v) + MaxField + 1 /\ Announces(v, GZ_FNAME) /\ x < NameEnd(v)
           \/ x = NameEnd(v) + MaxField + 1 /\ Announces(v, GZ_FCOMMENT) /\ x < CommentEnd(v)
<1>1. \/ x \in 1 .. 3 /\ HeaderByte(v, x) # FixedBytes[x]
      \/ x = 4 /\ Len(v) >= 4 /\ HeaderByte(v, 4) >= GZ_RESERVED
      \/ x = ExtraEnd(v) + MaxField + 1 /\ Announces(v, GZ_FNAME) /\ x < NameEnd(v)
      \/ x = NameEnd(v) + MaxField + 1 /\ Announces(v, GZ_FCOMMENT) /\ x < CommentEnd(v)
  BY Zenon, WrongIs
<1>2. /\ \A i \in 1 .. 3 : i <= k
  OBVIOUS
<1>3. (\A i \in 1 .. 3 : HeaderByte(v, i) = FixedBytes[i]) /\ HeaderByte(v, 4) < GZ_RESERVED
  BY <1>2 DEF FixedRight
<1>4. ~(x = 4 /\ Len(v) >= 4 /\ HeaderByte(v, 4) >= GZ_RESERVED)
  <2>. SUFFICES ASSUME Len(v) >= 4, HeaderByte(v, 4) >= GZ_RESERVED PROVE FALSE
    OBVIOUS
  <2>1. Len(v) \in Nat /\ 4 \in 1 .. Len(v)
    OBVIOUS
  <2>2. HeaderByte(v, 4) \in Nat
    BY <2>1, HeaderByteType
  <2>. QED  BY <1>3, <2>2 DEF GZ_RESERVED
<1>. QED  BY <1>1, <1>3, <1>4

\* In the name.
LEMMA NameFed ==
    ASSUME NEW v, v \in Seq(STRING \X Nat), NEW k \in Nat, k < Len(v),
           NEW g, g \in HeaderRecord, HeaderFits(g), Parsed(v, k, g), g.state = "NAME"
    PROVE  FeedRight(v, k + 1, HeaderFeed(g, HeaderByte(v, k + 1)))
<1>. DEFINE h == CountedByte(g)
            byte == HeaderByte(v, k + 1)
            f == [h EXCEPT !.field_len = @ + 1]
            z == [h EXCEPT !.field_len = 0]
            r == HeaderFeed(g, byte)
            order == <<"COMMENT", "HCRC">>
            e == ExtraEnd(v)  m == NameEnd(v)
<1>0. /\ Len(v) \in Nat /\ HeaderLen \in Nat /\ HeaderLen >= 4 /\ MaxField \in Nat
      /\ e \in Nat /\ m \in Nat
  BY HeaderByteType, GzipHeaderAssumption, FieldsInOrder
<1>1. /\ k >= HeaderLen /\ g.flg = HeaderByte(v, 4) /\ g.crc = k /\ FixedRight(v, k)
      /\ Announces(v, GZ_FNAME) /\ k = e + g.field_len
      /\ \A i \in e + 1 .. k : HeaderByte(v, i) # 0
      /\ g.field_len <= MaxField /\ g.hcrc = <<>>
  BY DEF Parsed, HeaderFits
<1>2. /\ h \in HeaderRecord /\ h.state = "NAME" /\ h.flg = g.flg
      /\ h.field_len = g.field_len /\ h.hcrc = <<>> /\ h.crc = k + 1
  BY <1>1, CountedByteIs
<1>2a. h.field_len \in Nat
  BY <1>2 DEF HeaderRecord
<1>3. r = FeedField(h, byte, order)
  BY HeaderFeedIs
<1>4. m = NulAfter(v, e)
  BY <1>1 DEF NameEnd
<1>5. FixedRight(v, k + 1) /\ k + 1 \in 0 .. Len(v) /\ k + 1 >= HeaderLen /\ k >= 4
  BY <1>1, FixedStays
<1>. HIDE DEF h, r, e, m, order
<1>6. \/ r = MovedOn(z, order) /\ m = k + 1 /\ k + 1 <= e + MaxField + 1
      \/ r.st = ZU_ERR_INVALID_DATA /\ k + 1 = e + MaxField + 1 /\ k + 1 < m
      \/ /\ r = Fed(f, ZU_OK) /\ h.field_len + 1 <= MaxField
         /\ \A i \in e + 1 .. k + 1 : HeaderByte(v, i) # 0
  <2>. HIDE DEF f, z, byte
  <2>1. /\ k = e + h.field_len /\ h.field_len <= MaxField
        /\ \A i \in e + 1 .. k : HeaderByte(v, i) # 0
    BY <1>1, <1>2
  <2>2. FieldTaken(v, k, h, e, order, FeedField(h, HeaderByte(v, k + 1), order))
    BY ONLY <1>0, <1>2a, <2>1, FieldTakes, v \in Seq(STRING \X Nat), k \in Nat, k < Len(v)
  <2>. QED  BY <1>3, <1>4, <2>2 DEF FieldTaken, f, z, byte
<1>7. CASE r = MovedOn(z, order) /\ m = k + 1 /\ k + 1 <= e + MaxField + 1
  <2>1. z \in HeaderRecord /\ z.flg = h.flg /\ z.crc = h.crc /\ z.hcrc = h.hcrc /\ z.field_len = 0
    BY <1>2 DEF HeaderRecord
  <2>. HIDE DEF z
  <2>2. Choosing(v, k + 1, z)
    BY <1>1, <1>2, <1>5, <2>1 DEF Choosing
  <2>3. NameRight(v) /\ k + 1 = NameEnd(v)
    BY <1>7 DEF NameRight, e, m
  <2>4. FeedRight(v, k + 1, MovedOn(z, order))
    BY <2>2, <2>3, AfterName DEF order
  <2>. QED  BY <1>7, <2>4 DEF r
<1>8. CASE r.st = ZU_ERR_INVALID_DATA /\ k + 1 = e + MaxField + 1 /\ k + 1 < m
  <2>1. k + 1 \in WrongBytes(v)
    <3>. DEFINE x == k + 1
    <3>1. x = ExtraEnd(v) + MaxField + 1 /\ Announces(v, GZ_FNAME) /\ x < NameEnd(v)
      BY <1>1, <1>8 DEF e, m
    <3>. HIDE DEF x
    <3>. QED  BY Zenon, <3>1, WrongIs DEF x
  <2>2. ASSUME NEW x \in WrongBytes(v) PROVE ~(x <= k)
    <3>1. x = e + MaxField + 1 \/ x = m + MaxField + 1
      BY <1>1, <1>5, WrongLater DEF e, m
    <3>2. m \in Nat /\ e \in Nat /\ MaxField \in Nat /\ k + 1 < m /\ k + 1 = e + MaxField + 1
      BY <1>0, <1>8
    <3>. QED  BY ONLY k \in Nat, <3>1, <3>2
  <2>3. RefHeader(v) = [len |-> k + 1, err |-> ZU_ERR_INVALID_DATA]
    BY <2>1, <2>2, WrongHere
  <2>4. ZU_ERR_INVALID_DATA # ZU_OK
    BY DEF ZU_OK, ZU_ERR_INVALID_DATA
  <2>. QED  BY <1>8, <2>3, <2>4 DEF FeedRight, r
<1>9. CASE /\ r = Fed(f, ZU_OK) /\ h.field_len + 1 <= MaxField
           /\ \A i \in e + 1 .. k + 1 : HeaderByte(v, i) # 0
  <2>0. h.field_len + 1 \in Nat
    BY <1>2a
  <2>0a. f \in HeaderRecord
    BY <1>2, <2>0 DEF HeaderRecord
  <2>1. f \in HeaderRecord /\ f.state = "NAME" /\ f.flg = h.flg /\ f.crc = h.crc
        /\ f.field_len = h.field_len + 1
    BY <1>2, <2>0a DEF HeaderRecord
  <2>. HIDE DEF f
  <2>2. k + 1 = e + f.field_len
    BY ONLY <1>0, <1>1, <1>2, <1>2a, <2>1, k \in Nat
  <2>3. Parsed(v, k + 1, f)
    BY <1>1, <1>2, <1>5, <1>9, <2>1, <2>2 DEF Parsed, e
  <2>4. r.st = ZU_OK /\ r.h = f
    BY <1>9 DEF Fed
  <2>. QED  BY <2>1, <2>3, <2>4 DEF FeedRight, r
<1>. QED  BY <1>6, <1>7, <1>8, <1>9

\* In the comment.
LEMMA CommentFed ==
    ASSUME NEW v, v \in Seq(STRING \X Nat), NEW k \in Nat, k < Len(v),
           NEW g, g \in HeaderRecord, HeaderFits(g), Parsed(v, k, g), g.state = "COMMENT"
    PROVE  FeedRight(v, k + 1, HeaderFeed(g, HeaderByte(v, k + 1)))
<1>. DEFINE h == CountedByte(g)
            byte == HeaderByte(v, k + 1)
            f == [h EXCEPT !.field_len = @ + 1]
            z == [h EXCEPT !.field_len = 0]
            r == HeaderFeed(g, byte)
            order == <<"HCRC">>
            e == NameEnd(v)  m == CommentEnd(v)  n == ExtraEnd(v)
<1>0. /\ Len(v) \in Nat /\ HeaderLen \in Nat /\ HeaderLen >= 4 /\ MaxField \in Nat
      /\ e \in Nat /\ m \in Nat /\ n \in Nat
  BY HeaderByteType, GzipHeaderAssumption, FieldsInOrder
<1>1. /\ k >= HeaderLen /\ g.flg = HeaderByte(v, 4) /\ g.crc = k /\ FixedRight(v, k)
      /\ Announces(v, GZ_FCOMMENT) /\ k = e + g.field_len /\ NameRight(v)
      /\ \A i \in e + 1 .. k : HeaderByte(v, i) # 0
      /\ g.field_len <= MaxField /\ g.hcrc = <<>>
  BY DEF Parsed, HeaderFits
<1>2. /\ h \in HeaderRecord /\ h.state = "COMMENT" /\ h.flg = g.flg
      /\ h.field_len = g.field_len /\ h.hcrc = <<>> /\ h.crc = k + 1
  BY <1>1, CountedByteIs
<1>2a. h.field_len \in Nat
  BY <1>2 DEF HeaderRecord
<1>3. r = FeedField(h, byte, order)
  BY HeaderFeedIs
<1>4. m = NulAfter(v, e)
  BY <1>1 DEF CommentEnd
<1>5. FixedRight(v, k + 1) /\ k + 1 \in 0 .. Len(v) /\ k + 1 >= HeaderLen /\ k >= 4
  BY <1>1, FixedStays
<1>. HIDE DEF h, r, e, m, n, order
<1>6. \/ r = MovedOn(z, order) /\ m = k + 1 /\ k + 1 <= e + MaxField + 1
      \/ r.st = ZU_ERR_INVALID_DATA /\ k + 1 = e + MaxField + 1 /\ k + 1 < m
      \/ /\ r = Fed(f, ZU_OK) /\ h.field_len + 1 <= MaxField
         /\ \A i \in e + 1 .. k + 1 : HeaderByte(v, i) # 0
  <2>. HIDE DEF f, z, byte
  <2>1. /\ k = e + h.field_len /\ h.field_len <= MaxField
        /\ \A i \in e + 1 .. k : HeaderByte(v, i) # 0
    BY <1>1, <1>2
  <2>2. FieldTaken(v, k, h, e, order, FeedField(h, HeaderByte(v, k + 1), order))
    BY ONLY <1>0, <1>2a, <2>1, FieldTakes, v \in Seq(STRING \X Nat), k \in Nat, k < Len(v)
  <2>. QED  BY <1>3, <1>4, <2>2 DEF FieldTaken, f, z, byte
<1>7. CASE r = MovedOn(z, order) /\ m = k + 1 /\ k + 1 <= e + MaxField + 1
  <2>1. z \in HeaderRecord /\ z.flg = h.flg /\ z.crc = h.crc /\ z.hcrc = h.hcrc /\ z.field_len = 0
    BY <1>2 DEF HeaderRecord
  <2>. HIDE DEF z
  <2>2. Choosing(v, k + 1, z)
    BY <1>1, <1>2, <1>5, <2>1 DEF Choosing
  <2>3. CommentRight(v) /\ k + 1 = CommentEnd(v)
    BY <1>7 DEF CommentRight, e, m
  <2>4. FeedRight(v, k + 1, MovedOn(z, order))
    BY <1>1, <2>2, <2>3, AfterComment DEF order
  <2>. QED  BY <1>7, <2>4 DEF r
<1>8. CASE r.st = ZU_ERR_INVALID_DATA /\ k + 1 = e + MaxField + 1 /\ k + 1 < m
  <2>1. k + 1 \in WrongBytes(v)
    <3>. DEFINE x == k + 1
    <3>1. x = NameEnd(v) + MaxField + 1 /\ Announces(v, GZ_FCOMMENT) /\ x < CommentEnd(v)
      BY <1>1, <1>8 DEF e, m
    <3>. HIDE DEF x
    <3>. QED  BY Zenon, <3>1, WrongIs DEF x
  <2>2. ASSUME NEW x \in WrongBytes(v) PROVE ~(x <= k)
    <3>1. \/ x = n + MaxField + 1 /\ Announces(v, GZ_FNAME) /\ x < e
          \/ x = e + MaxField + 1
      BY <1>1, <1>5, WrongLater DEF e, m, n
    <3>2. e \in Nat /\ n \in Nat /\ MaxField \in Nat /\ k + 1 = e + MaxField + 1
      BY <1>0, <1>8
    <3>3. Announces(v, GZ_FNAME) => e <= n + MaxField + 1
      BY <1>1 DEF NameRight, e, n
    <3>. QED  BY ONLY k \in Nat, <3>1, <3>2, <3>3
  <2>3. RefHeader(v) = [len |-> k + 1, err |-> ZU_ERR_INVALID_DATA]
    BY <2>1, <2>2, WrongHere
  <2>4. ZU_ERR_INVALID_DATA # ZU_OK
    BY DEF ZU_OK, ZU_ERR_INVALID_DATA
  <2>. QED  BY <1>8, <2>3, <2>4 DEF FeedRight, r
<1>9. CASE /\ r = Fed(f, ZU_OK) /\ h.field_len + 1 <= MaxField
           /\ \A i \in e + 1 .. k + 1 : HeaderByte(v, i) # 0
  <2>0. h.field_len + 1 \in Nat
    BY <1>2a
  <2>0a. f \in HeaderRecord
    BY <1>2, <2>0 DEF HeaderRecord
  <2>1. f \in HeaderRecord /\ f.state = "COMMENT" /\ f.flg = h.flg /\ f.crc = h.crc
        /\ f.field_len = h.field_len + 1
    BY <1>2, <2>0a DEF HeaderRecord
  <2>. HIDE DEF f
  <2>2. k + 1 = e + f.field_len
    BY ONLY <1>0, <1>1, <1>2, <1>2a, <2>1, k \in Nat
  <2>3. Parsed(v, k + 1, f)
    BY <1>1, <1>2, <1>5, <1>9, <2>1, <2>2 DEF Parsed, e
  <2>4. r.st = ZU_OK /\ r.h = f
    BY <1>9 DEF Fed
  <2>. QED  BY <2>1, <2>3, <2>4 DEF FeedRight, r
<1>. QED  BY <1>6, <1>7, <1>8, <1>9

\* A byte of the checksum is compared once both are there.
HcrcGiven(h, byte) == [h EXCEPT !.hcrc = Append(@, byte)]

\* What FeedHcrc answers.
LEMMA FeedHcrcIs ==
    ASSUME NEW h, NEW byte
    PROVE  FeedHcrc(h, byte) =
             IF Len(HcrcGiven(h, byte).hcrc) < 2 THEN Fed(HcrcGiven(h, byte), ZU_OK)
             ELSE IF HcrcGiven(h, byte).hcrc[1] + 256 * HcrcGiven(h, byte).hcrc[2] # h.crc % 65536
               THEN Fed(HcrcGiven(h, byte), ZU_ERR_CHECKSUM)
             ELSE Fed([HcrcGiven(h, byte) EXCEPT !.state = "DONE"], ZU_OK)
BY DEF FeedHcrc, HcrcGiven

\* In the header's checksum.
LEMMA HcrcFed ==
    ASSUME NEW v, v \in Seq(STRING \X Nat), NEW k \in Nat, k < Len(v),
           NEW g, g \in HeaderRecord, HeaderFits(g), Parsed(v, k, g), g.state = "HCRC"
    PROVE  FeedRight(v, k + 1, HeaderFeed(g, HeaderByte(v, k + 1)))
<1>. DEFINE h == CountedByte(g)
            byte == HeaderByte(v, k + 1)
            q == Append(g.hcrc, byte)
            f == HcrcGiven(h, byte)
            d == [f EXCEPT !.state = "DONE"]
            r == HeaderFeed(g, byte)
            c == CommentEnd(v)
<1>0. /\ Len(v) \in Nat /\ HeaderLen \in Nat /\ HeaderLen >= 4 /\ c \in Nat /\ byte \in Nat
      /\ g.hcrc \in Seq(Nat) /\ Len(g.hcrc) \in Nat
  BY HeaderByteType, GzipHeaderAssumption, FieldsInOrder DEF HeaderRecord
<1>1. /\ k >= HeaderLen /\ g.flg = HeaderByte(v, 4) /\ FixedRight(v, k)
      /\ Announces(v, GZ_FHCRC) /\ k = c + Len(g.hcrc) /\ g.crc = c
      /\ NameRight(v) /\ CommentRight(v)
      /\ Len(g.hcrc) = 1 => g.hcrc[1] = HeaderByte(v, c + 1)
      /\ Len(g.hcrc) < 2
  BY DEF Parsed, HeaderFits
<1>2. /\ h \in HeaderRecord /\ h.state = "HCRC" /\ h.flg = g.flg /\ h.hcrc = g.hcrc /\ h.crc = c
  BY <1>1, CountedByteIs
<1>3. r = FeedHcrc(h, byte)
  BY HeaderFeedIs
<1>4. FixedRight(v, k + 1) /\ k + 1 \in 0 .. Len(v) /\ k + 1 >= HeaderLen /\ k >= 4
  BY <1>1, FixedStays
<1>5. /\ q \in Seq(Nat) /\ Len(q) = Len(g.hcrc) + 1 /\ q[Len(g.hcrc) + 1] = byte
      /\ Len(g.hcrc) = 1 => q[1] = g.hcrc[1]
  BY <1>0
<1>. HIDE DEF h, r, c, q
<1>6. f \in HeaderRecord /\ f.state = "HCRC" /\ f.flg = g.flg /\ f.hcrc = q /\ f.crc = c
  <2>1. f = [h EXCEPT !.hcrc = q]
    BY <1>2 DEF HcrcGiven, q
  <2>. HIDE DEF f
  <2>. QED  BY <1>2, <1>5, <2>1 DEF HeaderRecord
<1>7. r = IF Len(q) < 2 THEN Fed(f, ZU_OK)
          ELSE IF q[1] + 256 * q[2] # c % 65536 THEN Fed(f, ZU_ERR_CHECKSUM)
          ELSE Fed(d, ZU_OK)
  <2>3. FeedHcrc(h, byte) =
          IF Len(f.hcrc) < 2 THEN Fed(f, ZU_OK)
          ELSE IF f.hcrc[1] + 256 * f.hcrc[2] # h.crc % 65536 THEN Fed(f, ZU_ERR_CHECKSUM)
          ELSE Fed(d, ZU_OK)
    BY FeedHcrcIs
  <2>. HIDE DEF f, d
  <2>. QED  BY <1>2, <1>3, <1>6, <2>3
<1>. HIDE DEF f
<1>8. CASE Len(g.hcrc) = 0
  <2>1. Len(q) = 1 /\ q[1] = byte /\ k = c
    BY <1>0, <1>1, <1>5, <1>8
  <2>2. r.st = ZU_OK /\ r.h = f
    BY <1>7, <2>1 DEF Fed
  <2>3. Len(f.hcrc) = 1 /\ f.hcrc[1] = HeaderByte(v, c + 1) /\ k + 1 = c + Len(f.hcrc)
    BY <1>0, <1>6, <2>1
  <2>4. Parsed(v, k + 1, f)
    BY <1>1, <1>4, <1>6, <2>3 DEF Parsed, c
  <2>. QED  BY <1>6, <2>2, <2>4 DEF FeedRight, r
<1>9. CASE Len(g.hcrc) = 1
  <2>1. Len(q) = 2 /\ k + 1 = c + 2 /\ q[1] = HeaderByte(v, c + 1) /\ q[2] = HeaderByte(v, c + 2)
    <3>1. Len(q) = 2 /\ k = c + 1 /\ k + 1 = c + 2 /\ q[2] = byte /\ q[1] = HeaderByte(v, c + 1)
      BY <1>0, <1>1, <1>5, <1>9
    <3>. QED  BY <3>1
  <2>2. WrongBytes(v) = {}
    <3>1. Len(v) >= 4 /\ FixedRight(v, 4)
      <4>1. Len(v) >= 4
        BY <1>0, <1>4
      <4>. QED  BY <1>4, <4>1 DEF FixedRight
    <3>. QED  BY <1>1, <3>1, NothingWrong
  <2>3. HeaderEnd(v) = k + 1
    BY <1>1, <2>1 DEF HeaderEnd, c
  <2>4. RefHeader(v) = [len |-> k + 1,
                        err |-> IF q[1] + 256 * q[2] # c % 65536 THEN ZU_ERR_CHECKSUM ELSE ZU_OK]
    <3>. DEFINE end == HeaderEnd(v)
                crc == HeaderByte(v, end - 1) + 256 * HeaderByte(v, end)
                err == IF Announces(v, GZ_FHCRC) /\ crc # (end - 2) % 65536
                         THEN ZU_ERR_CHECKSUM ELSE ZU_OK
    <3>1. ~(end > Len(v)) /\ end - 1 = c + 1 /\ end = c + 2 /\ end - 2 = c /\ end = k + 1
      BY <1>0, <1>4, <2>1, <2>3
    <3>2. RefHeader(v) = [len |-> end, err |-> err]
      BY <2>2, <3>1 DEF RefHeader
    <3>3. crc = q[1] + 256 * q[2]
      BY <2>1, <3>1
    <3>. HIDE DEF crc, end
    <3>4. err = IF q[1] + 256 * q[2] # c % 65536 THEN ZU_ERR_CHECKSUM ELSE ZU_OK
      BY <1>1, <3>1, <3>3
    <3>. HIDE DEF err
    <3>. QED  BY <3>1, <3>2, <3>4
  <2>5. ZU_ERR_CHECKSUM # ZU_OK
    BY DEF ZU_ERR_CHECKSUM, ZU_OK
  <2>6. d.state = "DONE"
    BY <1>6 DEF HeaderRecord
  <2>. HIDE DEF d
  <2>7. r = IF q[1] + 256 * q[2] # c % 65536 THEN Fed(f, ZU_ERR_CHECKSUM) ELSE Fed(d, ZU_OK)
    BY <1>7, <2>1
  <2>8. CASE q[1] + 256 * q[2] # c % 65536
    <3>1. r.st = ZU_ERR_CHECKSUM
      BY <2>7, <2>8 DEF Fed
    <3>2. RefHeader(v) = [len |-> k + 1, err |-> ZU_ERR_CHECKSUM]
      BY <2>4, <2>8
    <3>. QED  BY <2>5, <3>1, <3>2 DEF FeedRight, r
  <2>9. CASE ~(q[1] + 256 * q[2] # c % 65536)
    <3>1. r.st = ZU_OK /\ r.h = d
      BY <2>7, <2>9 DEF Fed
    <3>2. RefHeader(v) = [len |-> k + 1, err |-> ZU_OK]
      BY <2>4, <2>9
    <3>. QED  BY <2>6, <3>1, <3>2 DEF FeedRight, r
  <2>. QED  BY <2>8, <2>9
<1>10. Len(g.hcrc) = 0 \/ Len(g.hcrc) = 1
  <2>1. Len(g.hcrc) \in Nat /\ Len(g.hcrc) < 2
    BY <1>0, <1>1
  <2>. DEFINE n == Len(g.hcrc)
  <2>. HIDE DEF n
  <2>2. n \in Nat /\ n < 2
    BY <2>1 DEF n
  <2>3. n = 0 \/ n = 1
    BY ONLY <2>2
  <2>. QED  BY <2>3 DEF n
<1>. QED  BY <1>8, <1>9, <1>10

\* The parser takes each byte as the layout has it.
LEMMA HeaderFeedRight ==
    ASSUME NEW v, v \in Seq(STRING \X Nat), NEW k \in Nat, k < Len(v),
           NEW g, g \in HeaderRecord, HeaderFits(g), Parsed(v, k, g), g.state # "DONE"
    PROVE  FeedRight(v, k + 1, HeaderFeed(g, HeaderByte(v, k + 1)))
<1>1. g.state \in {"FIXED", "EXTRA_LEN", "EXTRA", "NAME", "COMMENT", "HCRC"}
  BY DEF HeaderRecord, HeaderStates
<1>. QED  BY <1>1, FixedFed, ExtraLenFed, ExtraFed, NameFed, CommentFed, HcrcFed

\* The extra field ends after what is parsed of it.
LEMMA ExtraGoesOn ==
    ASSUME NEW v, v \in Seq(STRING \X Nat), NEW k \in Nat, NEW g, g \in HeaderRecord,
           HeaderFits(g), Parsed(v, k, g), g.state \in {"EXTRA_LEN", "EXTRA"}
    PROVE  ExtraEnd(v) > k
<1>. DEFINE e == ExtraEnd(v)  n == Len(v)
<1>0. k \in 0 .. n /\ n \in Nat /\ e \in Nat /\ HeaderLen \in Nat
  BY FieldsInOrder, GzipHeaderAssumption, HeaderByteType DEF Parsed
<1>5. CASE g.state = "EXTRA_LEN"
  <2>1. Announces(v, GZ_FEXTRA) /\ k = HeaderLen + g.xlen_pos /\ g.xlen_pos < 2 /\ g.xlen_pos \in Nat
    BY <1>5 DEF Parsed, HeaderFits, HeaderRecord
  <2>2. e > k
    <3>1. CASE n < HeaderLen + 2
      <4>1. e = n + 1
        BY <2>1, <3>1 DEF ExtraEnd
      <4>. QED  BY <1>0, <4>1
    <3>2. CASE ~(n < HeaderLen + 2)
      <4>. DEFINE a == HeaderByte(v, HeaderLen + 1)  b == HeaderByte(v, HeaderLen + 2)
      <4>1. e = HeaderLen + 2 + a + 256 * b
        BY <2>1, <3>2 DEF ExtraEnd
      <4>2. a \in Nat /\ b \in Nat
        <5>1. HeaderLen + 1 \in 1 .. Len(v) /\ HeaderLen + 2 \in 1 .. Len(v)
          BY <1>0, <3>2
        <5>. QED  BY <5>1, HeaderByteType
      <4>. HIDE DEF a, b, e
      <4>. QED  BY <1>0, <2>1, <4>1, <4>2
    <3>. QED  BY <3>1, <3>2
  <2>. QED  BY <2>2
<1>6. CASE g.state = "EXTRA"
  <2>. DEFINE a == HeaderByte(v, HeaderLen + 1)  b == HeaderByte(v, HeaderLen + 2)
  <2>1. /\ Announces(v, GZ_FEXTRA) /\ k = HeaderLen + 2 + g.xpos /\ g.xpos < g.xlen
        /\ g.xpos \in Nat /\ g.xlen \in Nat /\ g.xlen = a + 256 * b
    BY <1>6 DEF Parsed, HeaderFits, HeaderRecord
  <2>2. ~(n < HeaderLen + 2)
    BY <1>0, <2>1
  <2>3. e = HeaderLen + 2 + a + 256 * b
    BY <2>1, <2>2 DEF ExtraEnd
  <2>4. a \in Nat /\ b \in Nat
    <3>1. HeaderLen + 1 \in 1 .. Len(v) /\ HeaderLen + 2 \in 1 .. Len(v)
      BY <1>0, <2>2
    <3>. QED  BY <3>1, HeaderByteType
  <2>. HIDE DEF a, b, e
  <2>5. e > k
    BY <1>0, <2>1, <2>3, <2>4
  <2>. QED  BY <2>5 DEF e
<1>. QED  BY <1>5, <1>6

\* A header that is being parsed ends further on.
LEMMA ParsedEnds ==
    ASSUME NEW v, v \in Seq(STRING \X Nat), NEW k \in Nat,
           NEW g, g \in HeaderRecord, HeaderFits(g), Parsed(v, k, g), g.state # "DONE"
    PROVE  HeaderEnd(v) \in Nat /\ HeaderEnd(v) > k
<1>. DEFINE e == ExtraEnd(v)  m == NameEnd(v)  c == CommentEnd(v)  n == Len(v)
<1>0. /\ k \in 0 .. n /\ n \in Nat /\ e \in Nat /\ m \in Nat /\ c \in Nat /\ HeaderLen \in Nat
      /\ k < HeaderLen => e > k
      /\ e > k => m > k
      /\ m > k => c > k
  BY FieldsInOrder, GzipHeaderAssumption, HeaderByteType DEF Parsed
<1>1. HeaderEnd(v) = IF Announces(v, GZ_FHCRC) THEN c + 2 ELSE c
  BY DEF HeaderEnd
<1>2. c > k => HeaderEnd(v) > k
  BY <1>0, <1>1
<1>3. HeaderEnd(v) \in Nat
  BY <1>0, <1>1
<1>4. CASE g.state = "FIXED"
  BY <1>0, <1>2, <1>3, <1>4 DEF Parsed
<1>5. CASE g.state \in {"EXTRA_LEN", "EXTRA"}
  BY <1>0, <1>2, <1>3, <1>5, ExtraGoesOn
<1>7. CASE g.state = "NAME"
  <2>1. /\ Announces(v, GZ_FNAME) /\ k = e + g.field_len /\ g.field_len \in Nat
        /\ \A i \in e + 1 .. k : HeaderByte(v, i) # 0
    BY <1>7 DEF Parsed, HeaderRecord
  <2>2. m = NulAfter(v, e) /\ k \in e .. n
    BY <1>0, <2>1 DEF NameEnd
  <2>. HIDE DEF e, m
  <2>3. m > k
    BY <1>0, <2>1, <2>2, HNulIs
  <2>. QED  BY <1>0, <1>2, <1>3, <2>3
<1>8. CASE g.state = "COMMENT"
  <2>1. /\ Announces(v, GZ_FCOMMENT) /\ k = m + g.field_len /\ g.field_len \in Nat
        /\ \A i \in m + 1 .. k : HeaderByte(v, i) # 0
    BY <1>8 DEF Parsed, HeaderRecord
  <2>2. c = NulAfter(v, m) /\ k \in m .. n
    BY <1>0, <2>1 DEF CommentEnd
  <2>. HIDE DEF c, m
  <2>3. c > k
    BY <1>0, <2>1, <2>2, HNulIs
  <2>. QED  BY <1>2, <1>3, <2>3
<1>9. CASE g.state = "HCRC"
  <2>1. Announces(v, GZ_FHCRC) /\ k = c + Len(g.hcrc) /\ Len(g.hcrc) < 2 /\ Len(g.hcrc) \in Nat
    BY <1>9 DEF Parsed, HeaderFits, HeaderRecord
  <2>. DEFINE l == Len(g.hcrc)
  <2>. HIDE DEF c, l
  <2>2. k = c + l /\ l < 2 /\ l \in Nat /\ HeaderEnd(v) = c + 2
    BY <1>1, <2>1 DEF l
  <2>. QED  BY ONLY <1>0, <1>3, <2>2
<1>10. g.state \in {"FIXED", "EXTRA_LEN", "EXTRA", "NAME", "COMMENT", "HCRC"}
  BY DEF HeaderRecord, HeaderStates
<1>. QED  BY <1>4, <1>5, <1>7, <1>8, <1>9, <1>10

\* Nothing parsed so far is wrong.
LEMMA ParsedSound ==
    ASSUME NEW v, v \in Seq(STRING \X Nat), NEW k \in Nat,
           NEW g, g \in HeaderRecord, HeaderFits(g), Parsed(v, k, g), g.state # "DONE",
           NEW x \in WrongBytes(v)
    PROVE  x \in Nat /\ x > k /\ x <= Len(v)
<1>. DEFINE e == ExtraEnd(v)  m == NameEnd(v)  c == CommentEnd(v)  n == Len(v)
<1>0. /\ k \in 0 .. n /\ n \in Nat /\ e \in Nat /\ m \in Nat /\ c \in Nat /\ HeaderLen \in Nat
      /\ HeaderLen >= 4 /\ MaxField \in Nat
      /\ Announces(v, GZ_FNAME) => m <= n + 1
      /\ Announces(v, GZ_FCOMMENT) => c <= n + 1
      /\ k < HeaderLen => e > k
      /\ e > k => m > k
  BY FieldsInOrder, GzipHeaderAssumption, HeaderByteType DEF Parsed
<1>1. \/ x \in 1 .. 3 /\ x <= n /\ HeaderByte(v, x) # FixedBytes[x]
      \/ x = 4 /\ n >= 4 /\ HeaderByte(v, 4) >= GZ_RESERVED
      \/ x = e + MaxField + 1 /\ Announces(v, GZ_FNAME) /\ x < m
      \/ x = m + MaxField + 1 /\ Announces(v, GZ_FCOMMENT) /\ x < c
  BY Zenon, WrongIs
<1>2. FixedRight(v, k) /\ (g.state # "FIXED" => k >= HeaderLen)
  BY DEF Parsed
<1>. HIDE DEF e, m, c, n
<1>3. x \in Nat /\ x <= n
  BY <1>0, <1>1
<1>4. CASE x \in 1 .. 3 /\ HeaderByte(v, x) # FixedBytes[x]
  <2>1. ~(x <= k)
    BY <1>2, <1>4 DEF FixedRight
  <2>. QED  BY <1>3, <2>1 DEF n
<1>5. CASE x = 4 /\ n >= 4 /\ HeaderByte(v, 4) >= GZ_RESERVED
  <2>1. HeaderByte(v, 4) \in Nat
    BY <1>0, <1>5, HeaderByteType DEF n
  <2>2. ~(k >= 4)
    BY <1>2, <1>5, <2>1 DEF FixedRight, GZ_RESERVED
  <2>. QED  BY <1>3, <1>5, <2>2 DEF n
<1>6. CASE \/ x = e + MaxField + 1 /\ Announces(v, GZ_FNAME) /\ x < m
           \/ x = m + MaxField + 1 /\ Announces(v, GZ_FCOMMENT) /\ x < c
  <2>1. CASE g.state = "FIXED"
    <3>1. k < HeaderLen
      BY <2>1 DEF Parsed
    <3>. QED  BY <1>0, <1>3, <1>6, <3>1 DEF n
  <2>2. CASE g.state \in {"EXTRA_LEN", "EXTRA"}
    <3>1. e > k
      BY <2>2, ExtraGoesOn DEF e
    <3>. QED  BY <1>0, <1>3, <1>6, <3>1 DEF n
  <2>3. CASE g.state = "NAME"
    <3>1. k = e + g.field_len /\ g.field_len <= MaxField /\ g.field_len \in Nat
      BY <2>3 DEF Parsed, HeaderFits, HeaderRecord, e
    <3>2. m > k
      <4>1. Announces(v, GZ_FNAME) /\ \A i \in e + 1 .. k : HeaderByte(v, i) # 0
        BY <2>3 DEF Parsed, e
      <4>2. m = NulAfter(v, e) /\ k \in e .. n
        BY <1>0, <3>1, <4>1 DEF NameEnd, m, e
      <4>. QED  BY <1>0, <4>1, <4>2, HNulIs DEF n
    <3>. QED  BY <1>0, <1>3, <1>6, <3>1, <3>2 DEF n
  <2>4. CASE g.state = "COMMENT"
    <3>1. k = m + g.field_len /\ g.field_len <= MaxField /\ g.field_len \in Nat /\ NameRight(v)
      BY <2>4 DEF Parsed, HeaderFits, HeaderRecord, m
    <3>2. Announces(v, GZ_FNAME) => m <= e + MaxField + 1
      BY <3>1 DEF NameRight, m, e
    <3>. QED  BY <1>0, <1>3, <1>6, <3>1, <3>2 DEF n
  <2>5. CASE g.state = "HCRC"
    <3>1. NameRight(v) /\ CommentRight(v)
      BY <2>5 DEF Parsed
    <3>2. /\ Announces(v, GZ_FNAME) => m <= e + MaxField + 1
          /\ Announces(v, GZ_FCOMMENT) => c <= m + MaxField + 1
      BY <3>1 DEF NameRight, CommentRight, m, e, c
    <3>. QED  BY <1>0, <1>6, <3>2
  <2>6. g.state \in {"FIXED", "EXTRA_LEN", "EXTRA", "NAME", "COMMENT", "HCRC"}
    BY DEF HeaderRecord, HeaderStates
  <2>. QED  BY <2>1, <2>2, <2>3, <2>4, <2>5, <2>6
<1>. QED  BY <1>1, <1>4, <1>5, <1>6

\* Until the header is complete the layout has it go on, and an input that
\* ends there is truncated.
LEMMA HeaderWaits ==
    ASSUME NEW v, v \in Seq(STRING \X Nat), NEW k \in Nat,
           NEW g, g \in HeaderRecord, HeaderFits(g), Parsed(v, k, g), g.state # "DONE"
    PROVE  /\ RefHeader(v).len \in Nat /\ RefHeader(v).len > k
           /\ k = Len(v) => RefHeader(v) = [len |-> k + 1, err |-> ZU_ERR_TRUNCATED]
<1>. DEFINE W == WrongBytes(v)  end == HeaderEnd(v)  n == Len(v)
<1>0. n \in Nat /\ k \in 0 .. n
  BY HeaderByteType DEF Parsed
<1>1. end \in Nat /\ end > k
  BY ParsedEnds
<1>2. \A x \in W : x \in Nat /\ x > k /\ x <= n
  BY ParsedSound
<1>3. /\ W # {} => RefHeader(v).len = Min(W)
      /\ W = {} /\ end > n => RefHeader(v) = [len |-> n + 1, err |-> ZU_ERR_TRUNCATED]
      /\ W = {} /\ ~(end > n) => RefHeader(v).len = end
  <2>1. W # {} => RefHeader(v).len = Min(W)
    BY DEF RefHeader
  <2>2. W = {} /\ end > n => RefHeader(v) = [len |-> n + 1, err |-> ZU_ERR_TRUNCATED]
    BY DEF RefHeader
  <2>3. W = {} /\ ~(end > n) => RefHeader(v).len = end
    BY DEF RefHeader
  <2>. QED  BY <2>1, <2>2, <2>3
<1>. HIDE DEF W, end, n
<1>4. W # {} => Min(W) \in W
  <2>1. W \in SUBSET Nat
    BY <1>2
  <2>2. W # {} => \E x \in W : \A y \in W : x <= y
    BY <2>1, LeastMember
  <2>. QED  BY <2>2 DEF Min
<1>5. RefHeader(v).len \in Nat /\ RefHeader(v).len > k
  <2>1. CASE W # {}
    BY <1>2, <1>3, <1>4, <2>1
  <2>2. CASE W = {} /\ end > n
    <3>1. RefHeader(v).len = n + 1
      BY <1>3, <2>2
    <3>. QED  BY <1>0, <3>1
  <2>3. CASE W = {} /\ ~(end > n)
    BY <1>1, <1>3, <2>3
  <2>. QED  BY <2>1, <2>2, <2>3
<1>6. ASSUME k = n PROVE RefHeader(v) = [len |-> k + 1, err |-> ZU_ERR_TRUNCATED]
  <2>1. W = {}
    BY <1>0, <1>2, <1>6
  <2>. QED  BY <1>1, <1>3, <1>6, <2>1
<1>. QED  BY <1>5, <1>6 DEF n

\* A new header has parsed nothing.
LEMMA NewHeaderParsed ==
    ASSUME NEW v, v \in Seq(STRING \X Nat)
    PROVE  Parsed(v, 0, NewHeader) /\ HeaderFits(NewHeader) /\ NewHeader.state = "FIXED"
<1>1. /\ NewHeader.state = "FIXED" /\ NewHeader.fixed_pos = 0 /\ NewHeader.crc = 0
      /\ NewHeader.xlen_pos = 0 /\ NewHeader.xpos = 0 /\ NewHeader.field_len = 0
      /\ NewHeader.hcrc = <<>> /\ NewHeader.xlen = 0
  BY DEF NewHeader
<1>2. Len(NewHeader.hcrc) = 0 /\ 0 \in 0 .. Len(v) /\ MaxField \in Nat /\ HeaderLen \in Nat /\ 0 < HeaderLen
  BY <1>1, GzipHeaderAssumption
<1>3. FixedRight(v, 0)
  BY DEF FixedRight
<1>. QED  BY <1>1, <1>2, <1>3 DEF Parsed, HeaderFits

\* The first magic byte is taken.
LEMMA MagicFed == HeaderFeed(NewHeader, 31).h.state = "FIXED" /\ HeaderFeed(NewHeader, 31).st = ZU_OK
<1>. DEFINE r == HeaderFeed(NewHeader, 31)
            h == CountedByte(NewHeader)
            n == h.fixed_pos + 1
            e == [h EXCEPT !.fixed_pos = n, !.flg = IF n = 4 THEN 31 ELSE @]
<1>1. NewHeader.state = "FIXED" /\ NewHeader.fixed_pos = 0
  BY DEF NewHeader
<1>2. h \in HeaderRecord /\ h.state = "FIXED" /\ h.fixed_pos = 0
  BY <1>1, NewHeaderOk, CountedByteIs
<1>3. r = FeedFixed(h, 31)
  BY <1>1, NewHeaderOk, HeaderFeedIs
<1>. HIDE DEF h, r
<1>4. n = 1 /\ FixedBytes[1] = 31 /\ 1 < HeaderLen
  BY <1>2, GzipHeaderAssumption DEF FixedBytes
<1>5. FeedFixed(h, 31) = Fed(e, ZU_OK)
  BY <1>4 DEF FeedFixed
<1>6. e.state = "FIXED"
  BY <1>2 DEF HeaderRecord
<1>. HIDE DEF e
<1>. QED  BY <1>3, <1>5, <1>6 DEF Fed, r

\* After the first magic byte.
LEMMA MagicParsed ==
    ASSUME NEW v, v \in Seq(STRING \X Nat), Len(v) >= 1, v[1] = magic1
    PROVE  /\ Parsed(v, 1, HeaderFeed(NewHeader, 31).h)
           /\ HeaderFeed(NewHeader, 31).h \in HeaderRecord
           /\ HeaderFits(HeaderFeed(NewHeader, 31).h)
           /\ RefHeader(v).len \in Nat /\ RefHeader(v).len > 1
<1>. DEFINE r == HeaderFeed(NewHeader, 31)
<1>1. HeaderByte(v, 0 + 1) = 31 /\ 0 + 1 = 1 /\ 0 < Len(v) /\ 0 \in Nat
  BY DEF HeaderByte, ByteOf, magic1
<1>2. FeedRight(v, 1, r)
  <2>1. FeedRight(v, 0 + 1, HeaderFeed(NewHeader, HeaderByte(v, 0 + 1)))
    BY <1>1, NewHeaderOk, NewHeaderParsed, HeaderFeedRight
  <2>. QED  BY <1>1, <2>1
<1>3. r.h.state = "FIXED" /\ r.st = ZU_OK
  BY MagicFed
<1>4. r.h \in HeaderRecord
  BY NewHeaderOk, HeaderFeedOk DEF FedOk
<1>5. FedFits(r)
  BY NewHeaderOk, NewHeaderParsed, HeaderFeedFits
<1>6. HeaderFits(r.h)
  BY <1>3, <1>5, OkIsNoError DEF FedFits
<1>. HIDE DEF r
<1>7. Parsed(v, 1, r.h)
  BY <1>2, <1>3 DEF FeedRight
<1>8. RefHeader(v).len \in Nat /\ RefHeader(v).len > 1
  BY <1>3, <1>4, <1>6, <1>7, HeaderWaits
<1>. QED  BY <1>4, <1>6, <1>7, <1>8 DEF r

----------------------------------------------------------------------------
(***************************************************************************)
(* The decoder's turns, along the stream.                                  *)
(***************************************************************************)
\* How a turn leaves the cursors and the codec.
Turned(p, o) ==
    \/ Continue(p, o) /\ Along(job, fed, p, o, s')
    \/ \E st \in Status :
         /\ Return(st, p, o)
         /\ Judged(job, fed, flush, call.out + call.allowance, st, p, o)
         /\ st \in {ZU_NEED_INPUT, ZU_NEED_OUTPUT} => Along(job, fed, p, o, s')

\* Going on.
LEMMA GoesOn1 ==
    ASSUME NEW p, NEW o, Continue(p, o), Along(job, fed, p, o, s')
    PROVE  Turned(p, o)
BY DEF Turned

\* An error of the stream's.
LEMMA ErrorTurns ==
    ASSUME NEW p, NEW o, NEW e, e \in Errors, e # ZU_ERR_MEMORY, Return(e, p, o),
           VerdictOn(job, ReferenceOf(job)) = e
    PROVE  Turned(p, o)
<1>1. e \in Status
  BY DEF Status
<1>2. e \notin {ZU_OK, ZU_NEED_INPUT, ZU_NEED_OUTPUT, ZU_STREAM_END}
  BY Words
<1>3. Judged(job, fed, flush, call.out + call.allowance, e, p, o)
  BY <1>2 DEF Judged
<1>. QED  BY <1>1, <1>2, <1>3 DEF Turned

\* The end.
LEMMA EndTurns ==
    ASSUME NEW p, NEW o, Return(ZU_STREAM_END, p, o), EndsAt(job, p, o),
           Joins(job) => fed > p \/ p = Len(job.input)
    PROVE  Turned(p, o)
<1>1. ZU_STREAM_END \in Status
  BY DEF Status, Progress
<1>2. Judged(job, fed, flush, call.out + call.allowance, ZU_STREAM_END, p, o)
  BY Words DEF Judged
<1>. QED  BY <1>1, <1>2, Words DEF Turned

\* Waiting for input.
LEMMA WaitTurns ==
    ASSUME NEW p, NEW o, Return(ZU_NEED_INPUT, p, o), flush # ZU_FINISH,
           Along(job, fed, p, o, s')
    PROVE  Turned(p, o)
<1>1. ZU_NEED_INPUT \in Status
  BY DEF Status, Progress
<1>2. Judged(job, fed, flush, call.out + call.allowance, ZU_NEED_INPUT, p, o)
  BY Words DEF Judged
<1>. QED  BY <1>1, <1>2 DEF Turned

\* Waiting for room.
LEMMA RoomTurns ==
    ASSUME NEW p, NEW o, Return(ZU_NEED_OUTPUT, p, o),
           Along(job, fed, p, o, s'), Len(o) = call.out + call.allowance,
           \/ Len(ReferenceOf(job).out) > Len(o)
           \/ flush = ZU_FINISH => VerdictOn(job, ReferenceOf(job)) # ZU_STREAM_END
    PROVE  Turned(p, o)
<1>1. ZU_NEED_OUTPUT \in Status
  BY DEF Status, Progress
<1>2. Judged(job, fed, flush, call.out + call.allowance, ZU_NEED_OUTPUT, p, o)
  BY Words DEF Judged
<1>. QED  BY <1>1, <1>2 DEF Turned

\* Nothing changes while a header is read.
LEMMA HeaderStays ==
    ASSUME NEW j \in Jobs, NEW m \in 0 .. Len(j.input), NEW h \in Nat, NEW n \in Nat,
           Readings(j)[m].err = ZU_OK, Readings(j)[m].phase = "header",
           Readings(j)[m].start = h, RefHeader(From(j, h)).len = n
    PROVE  \A i \in m .. Len(j.input) :
             /\ i < h + n - 1 => Readings(j)[i] = Readings(j)[m]
             /\ i = h + n - 1 /\ i > m =>
                  Readings(j)[i] = RefBody(Readings(j)[m], RefHeader(From(j, h)).err)
<1>. DEFINE N == Len(j.input)  R == Readings(j)  r == R[m]
            P == {i \in m .. N : i < h + n - 1 => R[i] = r}
<1>0. N \in Nat /\ m \in Nat /\ m \in m .. N
  BY JobTypes
<1>1. m \in P
  BY <1>0
<1>2. ASSUME NEW i \in m .. N, i < N, R[i] = r
      PROVE  R[i + 1] = IF i + 1 < h + n - 1 THEN r ELSE RefBody(r, RefHeader(From(j, h)).err)
  <2>1. i \in Nat
    BY <1>0
  <2>2. R[i + 1] = RefStep(j, r, i + 1)
    BY <1>2, <2>1, ReadNext
  <2>. HIDE DEF r, R
  <2>3. r.err = ZU_OK /\ r.phase = "header" /\ r.start = h
    BY DEF r, R
  <2>4. RefStep(j, r, i + 1) =
             IF i + 1 < h + n - 1 THEN r ELSE RefBody(r, RefHeader(From(j, h)).err)
    BY <2>3, RefInHeader
  <2>. QED  BY <2>2, <2>4
<1>3. \A i \in m .. N : i \in P /\ i < N => i + 1 \in P
  <2>. SUFFICES ASSUME NEW i \in m .. N, i \in P, i < N PROVE i + 1 \in P
    OBVIOUS
  <2>1. i + 1 \in m .. N /\ i \in Nat
    BY <1>0
  <2>2. i + 1 < h + n - 1 => i < h + n - 1
    BY <2>1
  <2>3. i + 1 < h + n - 1 => R[i + 1] = r
    BY <1>2, <2>2
  <2>. QED  BY <2>1, <2>3
<1>4. \A i \in m .. N : i \in P
  <2>. HIDE DEF P
  <2>1. m \in 0 .. N
    OBVIOUS
  <2>. HIDE DEF N
  <2>. QED  BY ONLY <1>0, <1>1, <1>3, <2>1, FromOn
<1>5. ASSUME NEW i \in m .. N, i = h + n - 1, i > m
      PROVE  R[i] = RefBody(r, RefHeader(From(j, h)).err)
  <2>1. i - 1 \in m .. N /\ i - 1 < N /\ (i - 1) + 1 = i /\ i - 1 < h + n - 1 /\ ~(i < h + n - 1)
    BY <1>0, <1>5
  <2>2. R[i - 1] = r
    BY <1>4, <2>1
  <2>3. R[(i - 1) + 1] = RefBody(r, RefHeader(From(j, h)).err)
    BY <1>2, <2>1, <2>2
  <2>. QED  BY <2>1, <2>3
<1>. QED  BY <1>4, <1>5

\* What the tokens from h on are.
LEMMA FromIs ==
    ASSUME NEW j \in Jobs, NEW h \in 1 .. Len(j.input) + 1
    PROVE  /\ From(j, h) \in Seq(STRING \X Nat) /\ Len(From(j, h)) = Len(j.input) - h + 1
           /\ \A k \in 1 .. Len(j.input) - h + 1 : From(j, h)[k] = j.input[h + k - 1]
<1>. DEFINE q == j.input  n == Len(q)
<1>1. q \in Seq(STRING \X Nat) /\ n \in Nat
  BY JobTypes
<1>2. h \in 1 .. n + 1
  OBVIOUS
<1>. HIDE DEF q
<1>3. /\ SubSeq(q, h, n) \in Seq(STRING \X Nat) /\ Len(SubSeq(q, h, n)) = n - h + 1
      /\ \A k \in 1 .. n - h + 1 : SubSeq(q, h, n)[k] = q[h + k - 1]
  BY <1>1, <1>2
<1>. QED  BY <1>3 DEF From, q

\* A gzip header that is being read: opened at token h by reading m, k tokens
\* of v taken, and n to be taken in all.
Heading(m, h, k, v, n) ==
    /\ m \in 0 .. Len(job.input) /\ h \in 1 .. Len(job.input) + 1
    /\ HeaderAt(job, m, h, pos, out, s)
    /\ v = From(job, h) /\ k = pos - h + 1 /\ n = RefHeader(v).len
    /\ v \in Seq(STRING \X Nat) /\ Len(v) = Len(job.input) - h + 1
    /\ k \in Nat /\ k <= Len(v) /\ Parsed(v, k, s.gz)
    /\ n \in Nat /\ n > k /\ h + n - 1 > m
    /\ k = Len(v) => RefHeader(v).err = ZU_ERR_TRUNCATED /\ n = k + 1
    /\ \A i \in m .. Len(job.input) :
         /\ i < h + n - 1 => Readings(job)[i] = Readings(job)[m]
         /\ i = h + n - 1 /\ i > m =>
              Readings(job)[i] = RefBody(Readings(job)[m], RefHeader(v).err)

\* Such a header is somewhere.
LEMMA HeadingIs ==
    ASSUME DecoderInv, pc = "codec", s.state = "HEADER", job.wrap = "gzip",
           InHeader(job, pos, out, s)
    PROVE  \E m, h, k, v, n : Heading(m, h, k, v, n)
<1>. DEFINE N == Len(job.input)
<1>0. /\ N \in Nat /\ pos \in Nat /\ pos <= N /\ job \in Jobs
      /\ s.gz \in HeaderRecord /\ HeaderFits(s.gz) /\ s.gz.state # "DONE"
  BY InCall, LoopFacts
<1>1. PICK m \in 0 .. N, h \in 1 .. N + 1 : HeaderAt(job, m, h, pos, out, s)
  BY DEF InHeader
<1>. DEFINE v == From(job, h)  k == pos - h + 1  n == RefHeader(v).len  r == Readings(job)[m]
<1>2. /\ r.err = ZU_OK /\ r.phase = "header" /\ r.start = h
      /\ (m = 0 /\ h = 1) \/ (m = h /\ job.input[h] = magic1)
      /\ h - 1 <= pos /\ Parsed(v, k, s.gz)
  BY <1>1 DEF HeaderAt
<1>3. /\ v \in Seq(STRING \X Nat) /\ Len(v) = N - h + 1
      /\ \A i \in 1 .. N - h + 1 : v[i] = job.input[h + i - 1]
  BY <1>0, FromIs
<1>4. k \in Nat /\ k <= Len(v)
  BY <1>0, <1>2, <1>3
<1>. HIDE DEF k, v
<1>5. /\ n \in Nat /\ n > k
      /\ k = Len(v) => RefHeader(v) = [len |-> k + 1, err |-> ZU_ERR_TRUNCATED]
  <2>1. k < Len(v) \/ k = Len(v)
    BY <1>3, <1>4
  <2>. QED  BY <1>0, <1>2, <1>3, <1>4, HeaderWaits
<1>6. m = h => n > 1
  <2>. SUFFICES ASSUME m = h PROVE n > 1
    OBVIOUS
  <2>1. 1 \in 1 .. N - h + 1 /\ h + 1 - 1 = h /\ Len(v) >= 1
    BY <1>0, <1>3
  <2>2. job.input[h] = magic1
    BY <1>0, <1>2
  <2>3. v[1] = magic1
    BY <1>3, <2>1, <2>2
  <2>. QED  BY <1>3, <2>1, <2>3, MagicParsed
<1>. HIDE DEF n
<1>7. h + n - 1 > m
  BY <1>0, <1>2, <1>4, <1>5, <1>6
<1>8. \A i \in m .. N :
         /\ i < h + n - 1 => Readings(job)[i] = Readings(job)[m]
         /\ i = h + n - 1 /\ i > m =>
              Readings(job)[i] = RefBody(Readings(job)[m], RefHeader(v).err)
  BY <1>0, <1>2, <1>5, HeaderStays DEF v, n
<1>9. k = Len(v) => RefHeader(v).err = ZU_ERR_TRUNCATED /\ n = k + 1
  BY <1>5 DEF n
<1>10. Heading(m, h, k, v, n)
  BY <1>1, <1>2, <1>3, <1>4, <1>5, <1>7, <1>8, <1>9 DEF Heading, v, k, n
<1>. QED  BY <1>10

\* Input ran out in a header.
LEMMA HeaderStarvedAlong ==
    ASSUME DecoderInv, Along(job, fed, pos, out, s), HeaderStarved
    PROVE  Turned(pos, out)
<1>. DEFINE N == Len(job.input)
<1>0. /\ pc = "codec" /\ s.state = "HEADER" /\ (job.wrap = "zlib" => s.hdr < 2) /\ AvailIn = 0
      /\ Return(Starved, pos, out) /\ s' = s /\ InHeader(job, pos, out, s)
  BY DEF HeaderStarved, InState, Along
<1>1. /\ pos = fed /\ job \in Jobs /\ N \in Nat /\ pos \in Nat /\ pos \in 0 .. N
      /\ flush = ZU_FINISH => pos = N
  <2>1. LoopInv
    BY DEF DecoderInv, DeflateInv
  <2>2. AvailIn = fed - pos /\ fed \in Nat /\ pos \in Nat /\ fed <= N /\ N \in Nat /\ job \in Jobs
    BY <1>0, <2>1, VisibleFacts, LoopFacts
  <2>3. flush = ZU_FINISH => fed = N
    BY <1>0, <2>1 DEF LoopInv, CallInProgress
  <2>. QED  BY <1>0, <2>2, <2>3
<1>2. CASE flush # ZU_FINISH
  <2>1. Starved = ZU_NEED_INPUT
    BY <1>2 DEF Starved
  <2>. QED  BY <1>0, <1>2, <2>1, WaitTurns
<1>3. CASE flush = ZU_FINISH
  <2>1. Starved = ZU_ERR_TRUNCATED /\ pos = N
    BY <1>1, <1>3 DEF Starved
  <2>. DEFINE R == Readings(job)
  <2>2. ASSUME R[pos].err = ZU_OK, R[pos].phase \in {"header", "cmf", "flg"}
        PROVE  Turned(pos, out)
    <3>1. ReferenceOf(job) = R[pos]
      BY <2>1 DEF ReferenceOf
    <3>2. VerdictOn(job, R[pos]) = ZU_ERR_TRUNCATED
      BY <2>2, VerdictIs
    <3>. HIDE DEF R
    <3>. QED  BY <1>0, <2>1, <3>1, <3>2, ErrorTurns, Words
  <2>3. CASE job.wrap = "gzip"
    <3>1. PICK m, h, k, v, n : Heading(m, h, k, v, n)
      BY <1>0, <2>3, HeadingIs
    <3>2. /\ m \in 0 .. N /\ h \in 1 .. N + 1 /\ k = pos - h + 1 /\ Len(v) = N - h + 1
          /\ n > k /\ n \in Nat /\ h + n - 1 > m
          /\ k = Len(v) => RefHeader(v).err = ZU_ERR_TRUNCATED /\ n = k + 1
      BY <3>1 DEF Heading
    <3>3. k = Len(v) /\ pos < h + n - 1 /\ pos \in m .. N
      BY <1>1, <2>1, <3>2
    <3>4. R[pos] = R[m]
      BY <3>1, <3>3 DEF Heading
    <3>5. R[m].err = ZU_OK /\ R[m].phase = "header"
      BY <3>1 DEF Heading, HeaderAt
    <3>. HIDE DEF R
    <3>. QED  BY <2>2, <3>4, <3>5
  <2>4. CASE job.wrap = "zlib"
    <3>1. pos = s.hdr /\ s.hdr \in Nat /\ (pos = 0 \/ pos = 1)
      <4>1. s.hdr = pos /\ s.hdr < 2
        BY <1>0, <2>4, InCall
      <4>. QED  BY <1>1, <4>1
    <3>2. R[0] = RefInit("zlib") /\ R[0] \in RefRecord
      <4>1. 0 \in 0 .. N
        BY <1>1
      <4>. QED  BY <1>1, <2>4, <4>1, ReadingsAre
    <3>3. R[0].err = ZU_OK /\ R[0].phase = "cmf"
      BY <3>2, RefInitOk
    <3>4. pos = 1 => R[1].err = ZU_OK /\ R[1].phase = "flg"
      <4>. SUFFICES ASSUME pos = 1 PROVE R[1].err = ZU_OK /\ R[1].phase = "flg"
        OBVIOUS
      <4>1. 0 < N /\ 0 + 1 = 1 /\ 0 \in Nat
        BY <1>1
      <4>2. R[0 + 1] = RefStep(job, R[0], 0 + 1)
        BY <1>1, <4>1, ReadNext
      <4>3. RefStep(job, R[0], 0 + 1) = RefAt(R[0], "flg")
        BY <3>3, RefInCmf
      <4>4. "flg" \in RefPhases
        BY DEF RefPhases
      <4>. HIDE DEF R
      <4>. QED  BY <3>2, <3>3, <4>1, <4>2, <4>3, <4>4, RefAtIs
    <3>. HIDE DEF R
    <3>. QED  BY <2>2, <3>1, <3>3, <3>4
  <2>5. job.wrap # "raw" /\ job.wrap \in {"raw", "zlib", "gzip"}
    BY <1>0, <1>1, WrapAssumption DEF InHeader
  <2>. QED  BY <2>3, <2>4, <2>5
<1>. QED  BY <1>2, <1>3

\* A header is refused for what is wrong with it.
LEMMA HeaderErrIs == \A v : RefHeader(v).err # ZU_ERR_MEMORY
<1>. SUFFICES ASSUME NEW v PROVE RefHeader(v).err # ZU_ERR_MEMORY
  OBVIOUS
<1>1. RefHeader(v).err \in {ZU_ERR_INVALID_DATA, ZU_ERR_TRUNCATED, ZU_ERR_CHECKSUM, ZU_OK}
  BY DEF RefHeader
<1>2. \A e \in {ZU_ERR_INVALID_DATA, ZU_ERR_TRUNCATED, ZU_ERR_CHECKSUM, ZU_OK} : e # ZU_ERR_MEMORY
  BY DEF ZU_ERR_INVALID_DATA, ZU_ERR_TRUNCATED, ZU_ERR_CHECKSUM, ZU_OK, ZU_ERR_MEMORY
<1>. QED  BY <1>1, <1>2

\* The body begins: nothing is read of it yet.
LEMMA BodyBegins ==
    ASSUME NEW j \in Jobs, NEW p \in 0 .. Len(j.input), NEW fedTo, NEW o, o \in Seq(Nat),
           NEW st, st.state = "BODY", st.mz = FreshInflater, st.sum = 0,
           Readings(j)[p].err = ZU_OK, Readings(j)[p].phase = "body",
           Readings(j)[p].out = o, Readings(j)[p].member = 0
    PROVE  Along(j, fedTo, p, o, st)
<1>1. /\ FreshInflater.pend = <<>> /\ FreshInflater.done = FALSE /\ FreshInflater.failed = FALSE
      /\ FreshInflater.flushed = FALSE
  BY DEF FreshInflater
<1>2. o \o <<>> = o /\ Len(<<>>) = 0
  BY NothingJoined
<1>3. BodyAt(j, p, o, st.mz, st.sum)
  BY <1>1, <1>2 DEF BodyAt
<1>4. InBody(j, fedTo, p, o, st)
  BY <1>1, <1>3 DEF InBody
<1>. QED  BY <1>4 DEF Along

\* A byte of a gzip header.
LEMMA GzipHeaderByteAlong ==
    ASSUME DecoderInv, Along(job, fed, pos, out, s), GzipHeaderByte
    PROVE  Turned(pos + 1, out)
<1>. DEFINE N == Len(job.input)  r == HeaderFeed(s.gz, ByteOf(Ahead(1)))
<1>0. /\ pc = "codec" /\ s.state = "HEADER" /\ job.wrap = "gzip" /\ AvailIn > 0
      /\ InHeader(job, pos, out, s)
  BY DEF GzipHeaderByte, InState, Along
<1>1. \/ r.st # ZU_OK /\ Return(r.st, pos + 1, out)
      \/ /\ r.st = ZU_OK /\ Continue(pos + 1, out)
         /\ s' = [s EXCEPT !.gz = r.h, !.state = IF r.h.state = "DONE" THEN "BODY" ELSE @]
  BY DEF GzipHeaderByte
<1>2. /\ s \in DeflateRecord /\ s.gz \in HeaderRecord /\ HeaderFits(s.gz) /\ s.gz.state # "DONE"
      /\ pos \in Nat /\ N \in Nat /\ job \in Jobs /\ pos + 1 <= N /\ out \in Seq(Nat)
      /\ Ahead(1) \in STRING \X Nat
  <2>1. LoopInv
    BY DEF DecoderInv, DeflateInv
  <2>2. pos + 1 \in pos .. fed /\ Ahead(1) \in STRING \X Nat
    BY <1>0, <2>1, FirstAhead
  <2>3. pos \in Nat /\ fed \in Nat /\ N \in Nat /\ fed <= N /\ job \in Jobs /\ out \in Seq(Nat)
    BY <2>1, LoopFacts
  <2>. QED  BY <1>0, <2>2, <2>3, InCall
<1>3. PICK m, h, k, v, n : Heading(m, h, k, v, n)
  BY <1>0, HeadingIs
<1>4. /\ m \in 0 .. N /\ h \in 1 .. N + 1 /\ k = pos - h + 1 /\ Len(v) = N - h + 1
      /\ n > k /\ n \in Nat /\ h + n - 1 > m /\ n = RefHeader(v).len /\ v = From(job, h)
      /\ v \in Seq(STRING \X Nat) /\ k \in Nat /\ k <= Len(v) /\ Parsed(v, k, s.gz)
      /\ HeaderAt(job, m, h, pos, out, s)
  BY <1>3 DEF Heading
<1>5. k + 1 \in 1 .. N - h + 1 /\ h + (k + 1) - 1 = pos + 1 /\ k < Len(v)
      /\ (pos + 1) - h + 1 = k + 1
  <2>. DEFINE l == Len(v)
  <2>1. h \in Nat /\ h >= 1 /\ h <= N + 1 /\ k = pos - h + 1 /\ l = N - h + 1
        /\ k \in Nat /\ pos \in Nat /\ N \in Nat /\ pos + 1 <= N
    BY <1>2, <1>4
  <2>. HIDE DEF l, N
  <2>2. k + 1 \in 1 .. N - h + 1 /\ h + (k + 1) - 1 = pos + 1 /\ k < l
        /\ (pos + 1) - h + 1 = k + 1
    BY ONLY <2>1
  <2>. QED  BY <2>2 DEF l
<1>6. HeaderByte(v, k + 1) = ByteOf(Ahead(1))
  <2>1. v[k + 1] = job.input[pos + 1]
    BY <1>2, <1>4, <1>5, FromIs
  <2>. QED  BY <2>1 DEF HeaderByte, Ahead
<1>7. FeedRight(v, k + 1, r)
  BY <1>2, <1>4, <1>5, <1>6, HeaderFeedRight
<1>8. r.h \in HeaderRecord /\ FedFits(r)
  <2>1. ByteOf(Ahead(1)) \in Nat
    BY <1>2, ByteIsNat
  <2>. QED  BY <1>2, <2>1, HeaderFeedOk, HeaderFeedFits DEF FedOk
<1>. HIDE DEF r
<1>. DEFINE R == Readings(job)  a == R[m]  q == R[pos + 1]  e == RefHeader(v).err
<1>9. /\ a.err = ZU_OK /\ a.phase = "header" /\ a.start = h /\ a.out = out /\ a.member = 0
      /\ ((m = 0 /\ h = 1) \/ (m = h /\ job.input[h] = magic1)) /\ h - 1 <= pos /\ a \in RefRecord
  BY <1>2, <1>4, ReadingsAre DEF HeaderAt
<1>10. n = k + 1 => q = RefBody(a, e)
  <2>. SUFFICES ASSUME n = k + 1 PROVE q = RefBody(a, e)
    OBVIOUS
  <2>1. pos + 1 = h + n - 1 /\ pos + 1 \in m .. N /\ pos + 1 > m
    <3>1. m \in Nat /\ h \in Nat /\ k = pos - h + 1 /\ h + n - 1 > m /\ n = k + 1
          /\ pos \in Nat /\ N \in Nat /\ pos + 1 <= N
      BY <1>2, <1>4
    <3>. HIDE DEF N
    <3>. QED  BY ONLY <3>1
  <2>. QED  BY <1>3, <2>1 DEF Heading
<1>11. e \in Status /\ e # ZU_ERR_MEMORY
  BY RefHeaderErr, HeaderErrIs
<1>12. q \in RefRecord /\ pos + 1 \in 0 .. N /\ pos + 1 \in Nat
  <2>1. pos + 1 \in 0 .. N
    BY <1>2
  <2>. QED  BY <1>2, <2>1, ReadingsAre
<1>13. n = k + 1 => q.err = e /\ q.out = out /\ q.phase = "body" /\ q.member = 0
  <2>1. /\ RefBody(a, e).err = e
        /\ RefBody(a, e).out = a.out /\ RefBody(a, e).phase = "body"
        /\ RefBody(a, e).member = a.member
    <3>1. a \in RefRecord
      BY <1>9
    <3>. HIDE DEF a, e
    <3>. QED  BY <1>11, <3>1, RefBodyIs
  <2>. QED  BY <1>9, <1>10, <2>1
<1>. HIDE DEF e, a, q
<1>14. CASE r.st # ZU_OK /\ Return(r.st, pos + 1, out)
  <2>1. n = k + 1 /\ e = r.st
    <3>1. RefHeader(v) = [len |-> k + 1, err |-> r.st]
      BY <1>7, <1>14 DEF FeedRight
    <3>. QED  BY <1>4, <3>1 DEF e
  <2>2. q.err = r.st
    BY <1>13, <2>1
  <2>3. ReferenceOf(job) = q
    <3>1. Readings(job)[pos + 1].err # ZU_OK => ReferenceOf(job) = Readings(job)[pos + 1]
      BY <1>2, <1>12, ReferenceGrows
    <3>. QED  BY <1>14, <2>2, <3>1 DEF q
  <2>4. VerdictOn(job, q) = r.st
    BY <1>14, <2>2, VerdictIs
  <2>5. r.st \in Errors
    BY <1>8, <1>14 DEF FedFits
  <2>. QED  BY <1>11, <1>14, <2>1, <2>3, <2>4, <2>5, ErrorTurns
<1>15. CASE /\ r.st = ZU_OK /\ Continue(pos + 1, out)
            /\ s' = [s EXCEPT !.gz = r.h, !.state = IF r.h.state = "DONE" THEN "BODY" ELSE @]
  <2>1. /\ s'.gz = r.h /\ s'.state = IF r.h.state = "DONE" THEN "BODY" ELSE "HEADER"
        /\ s'.mz = s.mz /\ s'.sum = s.sum /\ s'.called = s.called
    BY <1>0, <1>2, <1>15 DEF DeflateRecord
  <2>2. s.mz = FreshInflater /\ s.sum = 0 /\ ~s.called
    BY <1>0 DEF InHeader
  <2>3. CASE r.h.state = "DONE"
    <3>1. RefHeader(v) = [len |-> k + 1, err |-> ZU_OK]
      BY <1>7, <1>15, <2>3 DEF FeedRight
    <3>2. n = k + 1 /\ e = ZU_OK
      BY <1>4, <3>1 DEF e
    <3>3. /\ Readings(job)[pos + 1].err = ZU_OK /\ Readings(job)[pos + 1].phase = "body"
          /\ Readings(job)[pos + 1].out = out /\ Readings(job)[pos + 1].member = 0
      BY <1>13, <3>2 DEF q
    <3>4. Along(job, fed, pos + 1, out, s')
      BY <1>2, <1>12, <2>1, <2>2, <2>3, <3>3, BodyBegins
    <3>. QED  BY <1>15, <3>4, GoesOn1
  <2>4. CASE r.h.state # "DONE"
    <3>1. Parsed(v, k + 1, r.h)
      BY <1>7, <1>15, <2>4 DEF FeedRight
    <3>2. HeaderAt(job, m, h, pos + 1, out, s')
      <4>1. h - 1 <= pos + 1
        BY <1>2, <1>4, <1>9
      <4>2. Parsed(From(job, h), (pos + 1) - h + 1, s'.gz) /\ s'.gz.state # "DONE"
        BY <1>4, <1>5, <2>1, <2>4, <3>1
      <4>3. (m = 0 /\ h = 1) \/ (m = h /\ job.input[h] = magic1)
        BY <1>4 DEF HeaderAt
      <4>4. /\ Readings(job)[m].err = ZU_OK /\ Readings(job)[m].phase = "header"
            /\ Readings(job)[m].start = h /\ Readings(job)[m].out = out
            /\ Readings(job)[m].member = 0
        BY <1>4 DEF HeaderAt
      <4>. QED  BY <4>1, <4>2, <4>3, <4>4 DEF HeaderAt
    <3>3. InHeader(job, pos + 1, out, s')
      BY <1>0, <1>4, <2>1, <2>2, <3>2 DEF InHeader
    <3>4. Along(job, fed, pos + 1, out, s')
      BY <2>1, <2>4, <3>3 DEF Along
    <3>. QED  BY <1>15, <3>4, GoesOn1
  <2>. QED  BY <2>3, <2>4
<1>. QED  BY <1>1, <1>14, <1>15

\* A zlib stream's first two readings.
LEMMA ZlibReadings ==
    ASSUME NEW j \in Jobs, j.wrap = "zlib"
    PROVE  /\ Readings(j)[0] \in RefRecord /\ Readings(j)[0].out = <<>>
           /\ Len(j.input) >= 1 =>
                /\ Readings(j)[1] \in RefRecord /\ Readings(j)[1].err = ZU_OK
                /\ Readings(j)[1].phase = "flg" /\ Readings(j)[1].out = <<>>
                /\ Readings(j)[1].member = 0
           /\ Len(j.input) >= 2 =>
                Readings(j)[2] =
                  IF j.input[1] = <<"cmf", 0>> /\ j.input[2] = <<"flg", 0>>
                    THEN RefAt(Readings(j)[1], "body")
                  ELSE RefErr(Readings(j)[1], ZlibCheckHeader(j.input[1], j.input[2]))
<1>. DEFINE R == Readings(j)  N == Len(j.input)  a == R[0]  b == R[1]
<1>0. N \in Nat
  BY JobTypes
<1>1. a = RefInit("zlib") /\ a \in RefRecord
  <2>1. 0 \in 0 .. N
    BY <1>0
  <2>. QED  BY <2>1, ReadingsAre
<1>2. a.err = ZU_OK /\ a.phase = "cmf" /\ a.out = <<>> /\ a.member = 0
  BY <1>1, RefInitOk
<1>3. N >= 1 => /\ b \in RefRecord /\ b.err = ZU_OK /\ b.phase = "flg" /\ b.out = <<>>
                /\ b.member = 0
  <2>. SUFFICES ASSUME N >= 1
                PROVE  /\ b \in RefRecord /\ b.err = ZU_OK /\ b.phase = "flg" /\ b.out = <<>>
                       /\ b.member = 0
    OBVIOUS
  <2>1. 0 < N /\ 0 + 1 = 1 /\ 0 \in Nat
    BY <1>0
  <2>2. R[0 + 1] = RefStep(j, a, 0 + 1)
    BY <2>1, ReadNext
  <2>3. RefStep(j, a, 0 + 1) = RefAt(a, "flg")
    BY <1>2, RefInCmf
  <2>4. "flg" \in RefPhases
    BY DEF RefPhases
  <2>5. b = RefAt(a, "flg")
    BY <2>1, <2>2, <2>3
  <2>. HIDE DEF a, b
  <2>. QED  BY <1>1, <1>2, <2>4, <2>5, RefAtIs
<1>4. N >= 2 => R[2] = IF j.input[1] = <<"cmf", 0>> /\ j.input[2] = <<"flg", 0>>
                       THEN RefAt(b, "body") ELSE RefErr(b, ZlibCheckHeader(j.input[1], j.input[2]))
  <2>. SUFFICES ASSUME N >= 2
                PROVE  R[2] = IF j.input[1] = <<"cmf", 0>> /\ j.input[2] = <<"flg", 0>>
                       THEN RefAt(b, "body") ELSE RefErr(b, ZlibCheckHeader(j.input[1], j.input[2]))
    OBVIOUS
  <2>1. 1 < N /\ 1 + 1 = 2 /\ 1 \in Nat /\ 2 - 1 = 1
    BY <1>0
  <2>2. R[1 + 1] = RefStep(j, b, 1 + 1)
    BY <2>1, ReadNext
  <2>3. b.err = ZU_OK /\ b.phase = "flg"
    BY <1>0, <1>3
  <2>. HIDE DEF b
  <2>4. RefStep(j, b, 2) = IF j.input[2 - 1] = <<"cmf", 0>> /\ j.input[2] = <<"flg", 0>>
                       THEN RefAt(b, "body")
                       ELSE RefErr(b, ZlibCheckHeader(j.input[2 - 1], j.input[2]))
    BY <2>3, RefInFlg
  <2>. QED  BY <2>1, <2>2, <2>4
<1>. QED  BY <1>1, <1>2, <1>3, <1>4

\* A byte of a zlib header.
LEMMA ZlibHeaderByteAlong ==
    ASSUME DecoderInv, Along(job, fed, pos, out, s), ZlibHeaderByte
    PROVE  Turned(pos + 1, out)
<1>0. /\ pc = "codec" /\ s.state = "HEADER" /\ job.wrap = "zlib" /\ s.hdr < 2
      /\ Continue(pos + 1, out) /\ s' = [s EXCEPT !.hdr = @ + 1] /\ InHeader(job, pos, out, s)
  BY DEF ZlibHeaderByte, InState, Along
<1>1. s \in DeflateRecord /\ pos \in Nat
  BY <1>0, InCall
<1>2. /\ s'.state = "HEADER" /\ s'.hdr = s.hdr + 1
      /\ s'.mz = s.mz /\ s'.sum = s.sum /\ s'.called = s.called
  BY <1>0, <1>1 DEF DeflateRecord
<1>3. /\ s.mz = FreshInflater /\ s.sum = 0 /\ ~s.called /\ out = <<>> /\ pos = s.hdr
  BY <1>0 DEF InHeader
<1>4. pos + 1 = s'.hdr /\ pos + 1 <= 2
  BY <1>0, <1>1, <1>2, <1>3
<1>5. InHeader(job, pos + 1, out, s')
  BY <1>0, <1>2, <1>3, <1>4 DEF InHeader
<1>6. Along(job, fed, pos + 1, out, s')
  BY <1>2, <1>5 DEF Along
<1>. QED  BY <1>0, <1>6, GoesOn1

\* The zlib header is judged.
LEMMA ZlibHeaderCheckAlong ==
    ASSUME DecoderInv, Along(job, fed, pos, out, s), ZlibHeaderCheck
    PROVE  Turned(pos, out)
<1>. DEFINE hs == ZlibCheckHeader(job.input[pos - 1], job.input[pos])  N == Len(job.input)
<1>0. /\ pc = "codec" /\ s.state = "HEADER" /\ job.wrap = "zlib" /\ s.hdr = 2
      /\ InHeader(job, pos, out, s)
      /\ \/ hs = ZU_OK /\ Continue(pos, out) /\ s' = [s EXCEPT !.state = "BODY"]
         \/ hs # ZU_OK /\ Return(hs, pos, out) /\ s' = s
  BY DEF ZlibHeaderCheck, InState, Along
<1>1. /\ s.mz = FreshInflater /\ s.sum = 0 /\ ~s.called /\ out = <<>> /\ pos = 2
  BY <1>0 DEF InHeader
<1>2. s \in DeflateRecord /\ job \in Jobs /\ N \in Nat /\ N >= 2 /\ 2 - 1 = 1 /\ out \in Seq(Nat)
      /\ 2 \in 0 .. N /\ 2 \in Nat
  BY <1>0, <1>1, InCall, LoopFacts
<1>. DEFINE b == Readings(job)[1]  q == Readings(job)[2]
<1>3. /\ b \in RefRecord /\ b.err = ZU_OK /\ b.phase = "flg" /\ b.out = <<>> /\ b.member = 0
      /\ q = IF job.input[1] = <<"cmf", 0>> /\ job.input[2] = <<"flg", 0>>
                    THEN RefAt(b, "body") ELSE RefErr(b, hs)
  <2>1. N >= 1 /\ N >= 2
    BY <1>2
  <2>2. hs = ZlibCheckHeader(job.input[1], job.input[2])
    BY <1>1, <1>2
  <2>3. /\ b \in RefRecord /\ b.err = ZU_OK /\ b.phase = "flg" /\ b.out = <<>> /\ b.member = 0
        /\ q = IF job.input[1] = <<"cmf", 0>> /\ job.input[2] = <<"flg", 0>>
                    THEN RefAt(b, "body") ELSE RefErr(b, ZlibCheckHeader(job.input[1], job.input[2]))
    BY <1>0, <1>2, <2>1, ZlibReadings
  <2>. HIDE DEF hs
  <2>. QED  BY <2>2, <2>3
<1>4. /\ hs \in {ZU_OK, ZU_ERR_INVALID_DATA, ZU_ERR_UNSUPPORTED}
      /\ hs = ZU_OK <=> job.input[1] = <<"cmf", 0>> /\ job.input[2] = <<"flg", 0>>
  <2>. DEFINE x == job.input[1]  y == job.input[2]
  <2>1. hs = ZlibCheckHeader(x, y)
    BY <1>1, <1>2
  <2>. HIDE DEF x, y, hs
  <2>2. <<"flg", 0>> # <<"flg", 2>> /\ ZU_ERR_INVALID_DATA # ZU_OK /\ ZU_ERR_UNSUPPORTED # ZU_OK
    BY DEF ZU_OK, ZU_ERR_INVALID_DATA, ZU_ERR_UNSUPPORTED
  <2>3. /\ hs \in {ZU_OK, ZU_ERR_INVALID_DATA, ZU_ERR_UNSUPPORTED}
        /\ hs = ZU_OK <=> x = <<"cmf", 0>> /\ y = <<"flg", 0>>
    BY <2>1, <2>2 DEF ZlibCheckHeader
  <2>. QED  BY <2>3 DEF x, y
<1>. HIDE DEF hs
<1>5. CASE hs = ZU_OK /\ Continue(pos, out) /\ s' = [s EXCEPT !.state = "BODY"]
  <2>1. s'.state = "BODY" /\ s'.mz = s.mz /\ s'.sum = s.sum
    BY <1>2, <1>5 DEF DeflateRecord
  <2>2. q = RefAt(b, "body") /\ "body" \in RefPhases
    BY <1>3, <1>4, <1>5 DEF RefPhases
  <2>. HIDE DEF b, q
  <2>3. q.err = ZU_OK /\ q.phase = "body" /\ q.out = out /\ q.member = 0
    BY <1>1, <1>3, <2>2, RefAtIs
  <2>4. /\ Readings(job)[2].err = ZU_OK /\ Readings(job)[2].phase = "body"
        /\ Readings(job)[2].out = out /\ Readings(job)[2].member = 0
    BY <2>3 DEF q
  <2>5. Along(job, fed, 2, out, s')
    BY <1>1, <1>2, <2>1, <2>4, BodyBegins
  <2>. QED  BY <1>1, <1>5, <2>5, GoesOn1
<1>6. CASE hs # ZU_OK /\ Return(hs, pos, out)
  <2>1. hs \in Errors /\ hs # ZU_ERR_MEMORY /\ hs \in Status
    BY <1>4, <1>6, Words DEF Status
  <2>2. q = RefErr(b, hs)
    BY <1>3, <1>4, <1>6
  <2>. HIDE DEF b, q
  <2>3. q.err = hs
    BY <1>3, <2>1, <2>2, RefErrIs
  <2>4. ReferenceOf(job) = q
    <3>1. Readings(job)[2].err # ZU_OK => ReferenceOf(job) = Readings(job)[2]
      BY <1>2, ReferenceGrows
    <3>. QED  BY <1>6, <2>3, <3>1 DEF q
  <2>5. VerdictOn(job, q) = hs
    BY <1>6, <2>3, VerdictIs
  <2>. QED  BY <1>6, <2>1, <2>4, <2>5, ErrorTurns
<1>. QED  BY <1>0, <1>5, <1>6

\* The call of miniz in the body.
Inflating == MzInflate(s.mz, AvailIn, AvailOut, MzFlush)

\* What a call of miniz in the body answers.
LEMMA BodyReads ==
    ASSUME DecoderInv, pc = "codec", InBody(job, fed, pos, out, s)
    PROVE  /\ MzRight(Inflating, pos + Inflating.used, out \o Inflating.bytes,
                      Counted(s.sum, Inflating.bytes))
           /\ InflatedOk(Inflating, AvailIn, AvailOut)
<1>0. LoopInv /\ s \in DeflateRecord /\ s.mz \in MzRecord /\ s.sum \in Nat
  BY InCall DEF DeflateRecord
<1>1. BodyAt(job, pos, out, s.mz, s.sum) /\ (s.mz.flushed => s.called /\ fed = Len(job.input))
  BY DEF InBody
<1>2. flush = ZU_FINISH <=> fed = Len(job.input)
  BY <1>0 DEF LoopInv, CallInProgress
<1>3. /\ s.mz.flushed => MzFlush = "FINISH"
      /\ MzFlush = "FINISH" => fed = Len(job.input)
      /\ ~s.mz.failed
      /\ ~(s.mz.first /\ MzFlush = "FINISH")
  BY <1>1, <1>2, NoSingleShot DEF MzFlush, BodyAt
<1>. DEFINE fl == MzFlush
<1>4. PICK m1, m2, t, d, e, r : MzAnswers(s.mz, AvailIn, AvailOut, fl, m1, m2, t, d, e, r)
  BY <1>0, <1>3, MzInflateIs
<1>5. r = Inflating
  BY <1>4 DEF MzAnswers, Inflating
<1>. HIDE DEF fl
<1>6. MzRight(r, pos + r.used, out \o r.bytes, Counted(s.sum, r.bytes))
  <2>1. /\ s.mz.flushed => fed = Len(job.input)
        /\ fl = "FINISH" => fed = Len(job.input)
    BY <1>1, <1>3 DEF fl
  <2>2. CASE s.mz.pend # <<>>
    BY <1>0, <1>1, <1>4, <2>1, <2>2, MzPending
  <2>3. CASE s.mz.pend = <<>>
    BY <1>0, <1>1, <1>4, <2>1, <2>3, MzReading
  <2>. QED  BY <2>2, <2>3
<1>7. InflatedOk(Inflating, AvailIn, AvailOut)
  <2>1. Visible(AvailIn) /\ AvailOut \in Nat
    BY <1>0, VisibleFacts
  <2>. QED  BY <1>0, <2>1, NoSingleShot, MzInflateOk DEF Inflating
<1>. QED  BY <1>5, <1>6, <1>7

\* The stream ends with a member, unless another begins there.
LEMMA MemberEndsIt ==
    ASSUME NEW j \in Jobs, NEW p \in 0 .. Len(j.input), NEW o, MemberEnded(j, p, o),
           p < Len(j.input) => ~StartsMember(j, p + 1)
    PROVE  EndsAt(j, p, o)
<1>. DEFINE N == Len(j.input)  r == Readings(j)[p]  q == Readings(j)[p + 1]  z == ReferenceOf(j)
<1>0. N \in Nat /\ p \in Nat /\ (p = N \/ p < N)
  BY JobTypes
<1>1. r.err = ZU_OK /\ r.phase = "between" /\ r.end = p /\ r.out = o /\ r \in RefRecord
  BY ReadingsAre DEF MemberEnded
<1>2. CASE p = N
  <2>1. z = r
    BY <1>2 DEF ReferenceOf
  <2>. HIDE DEF z, r
  <2>. QED  BY <1>1, <1>2, <2>1 DEF EndsAt, z
<1>3. CASE p < N
  <2>1. q = RefStep(j, r, p + 1) /\ p + 1 \in 0 .. N /\ p # N
    BY <1>0, <1>3, ReadNext
  <2>2. q = RefAt(r, "tail") /\ "tail" \in RefPhases
    <3>. HIDE DEF r, q
    <3>. QED  BY <1>1, <1>3, <2>1, RefAfterMember DEF RefPhases
  <2>3. /\ q.phase = "tail" /\ q.out = r.out /\ q.err = r.err /\ q.end = r.end
    <3>. HIDE DEF r, q
    <3>. QED  BY <1>1, <2>2, RefAtIs
  <2>4. z = q
    BY <2>1, <2>3, ReferenceGrows
  <2>. HIDE DEF z, r, q
  <2>. QED  BY <1>1, <2>1, <2>3, <2>4 DEF EndsAt, z
<1>. QED  BY <1>0, <1>2, <1>3

\* miniz moved nothing: the status says why.
LEMMA StallTurns ==
    ASSUME DecoderInv, pc = "codec", NEW r, NEW sum, MzRight(r, pos, out, sum),
           r.code \in {"OK", "BUF_ERROR"}, r.used = 0, r.bytes = <<>>, r.mz \in MzRecord,
           Return(Stall, pos, out), Along(job, fed, pos, out, s')
    PROVE  Turned(pos, out)
<1>. DEFINE N == Len(job.input)  q == Readings(job)[pos]  z == ReferenceOf(job)
<1>0. /\ LoopInv /\ job \in Jobs /\ N \in Nat /\ pos \in 0 .. N /\ out \in Seq(Nat)
      /\ AvailIn \in Nat /\ AvailIn = fed - pos /\ fed \in Nat /\ pos \in Nat
      /\ AvailOut \in Nat /\ Len(out) + AvailOut = call.out + call.allowance /\ Len(out) \in Nat
  <2>1. LoopInv
    BY DEF DecoderInv, DeflateInv
  <2>2. job \in Jobs /\ N \in Nat /\ pos <= fed /\ fed <= N /\ pos \in Nat /\ fed \in Nat
        /\ out \in Seq(Nat) /\ Len(out) \in Nat
    BY <2>1, LoopFacts
  <2>. QED  BY <2>1, <2>2, VisibleFacts
<1>1. flush = ZU_FINISH <=> fed = N
  BY <1>0 DEF LoopInv, CallInProgress
<1>2. q.err = ZU_OK /\ q.out = out \o r.mz.pend /\ q \in RefRecord
  BY <1>0, ReadingsAre DEF MzRight, BodyAt
<1>3. \/ AvailOut = 0 /\ r.mz.pend # <<>>
      \/ AvailIn = 0 /\ r.mz.pend = <<>> /\ q.phase = "body"
  BY DEF MzRight
<1>4. CASE AvailOut = 0 /\ r.mz.pend # <<>>
  <2>1. Stall = ZU_NEED_OUTPUT /\ Len(out) = call.out + call.allowance
    <3>. DEFINE l == Len(out)  c == call.out + call.allowance
    <3>1. l + 0 = c /\ l \in Nat
      BY <1>0, <1>4
    <3>. HIDE DEF l, c
    <3>2. l = c
      BY <3>1
    <3>. QED  BY <1>4, <3>2 DEF Stall, l, c
  <2>2. PICK u \in Seq(Nat) : z.out = q.out \o u
    BY <1>0, ReferenceGrows DEF Grown
  <2>3. r.mz.pend \in Seq(Nat) /\ Len(r.mz.pend) > 0
    BY <1>4 DEF MzRecord
  <2>4. Len(z.out) > Len(out)
    <3>. DEFINE w == r.mz.pend
    <3>1. w \in Seq(Nat) /\ Len(w) > 0 /\ q.out = out \o w
      BY <1>2, <2>3
    <3>. HIDE DEF w, z, q
    <3>2. q.out \in Seq(Nat) /\ Len(q.out) = Len(out) + Len(w) /\ Len(w) \in Nat
      BY <1>0, <3>1, Joined
    <3>3. Len(z.out) = Len(q.out) + Len(u) /\ Len(u) \in Nat
      BY <2>2, <3>2, Joined
    <3>. DEFINE a == Len(z.out)  b == Len(q.out)  c == Len(out)  d == Len(u)  e == Len(w)
    <3>4. a = b + d /\ b = c + e /\ d \in Nat /\ e \in Nat /\ e > 0 /\ c \in Nat
      BY <1>0, <3>1, <3>2, <3>3
    <3>. HIDE DEF a, b, c, d, e
    <3>5. a > c
      BY ONLY <3>4
    <3>. QED  BY <3>5 DEF a, c
  <2>. QED  BY <2>1, <2>4, RoomTurns
<1>5. CASE AvailIn = 0 /\ r.mz.pend = <<>> /\ q.phase = "body"
  <2>1. flush = ZU_FINISH => pos = N
    BY <1>0, <1>1, <1>5
  <2>2. flush = ZU_FINISH => VerdictOn(job, z) = ZU_ERR_INVALID_DATA
    <3>. SUFFICES ASSUME flush = ZU_FINISH PROVE VerdictOn(job, z) = ZU_ERR_INVALID_DATA
      OBVIOUS
    <3>1. z = q
      BY <2>1 DEF ReferenceOf
    <3>. QED  BY <1>2, <1>5, <3>1, VerdictIs
  <2>. HIDE DEF z
  <2>3. CASE AvailOut = 0
    <3>1. Stall = ZU_NEED_OUTPUT /\ Len(out) = call.out + call.allowance
      <4>. DEFINE l == Len(out)  c == call.out + call.allowance
      <4>1. l + 0 = c /\ l \in Nat
        BY <1>0, <2>3
      <4>. HIDE DEF l, c
      <4>2. l = c
        BY <4>1
      <4>. QED  BY <2>3, <4>2 DEF Stall, l, c
    <3>2. ZU_ERR_INVALID_DATA # ZU_STREAM_END
      BY Words
    <3>. QED  BY <2>2, <3>1, <3>2, RoomTurns DEF z
  <2>4. CASE AvailOut # 0 /\ flush = ZU_FINISH
    <3>1. Stall = ZU_ERR_INVALID_DATA
      BY <1>5, <2>4 DEF Stall
    <3>. QED  BY <2>2, <2>4, <3>1, ErrorTurns, Words DEF z
  <2>5. CASE AvailOut # 0 /\ flush # ZU_FINISH
    <3>1. Stall = ZU_NEED_INPUT
      BY <1>5, <2>5 DEF Stall
    <3>. QED  BY <2>5, <3>1, WaitTurns
  <2>. QED  BY <2>3, <2>4, <2>5
<1>. QED  BY <1>3, <1>4, <1>5

\* A turn in the body.
LEMMA BodyAlong ==
    ASSUME DecoderInv, Along(job, fed, pos, out, s), Body
    PROVE  Turned(pos + Inflating.used, out \o Inflating.bytes)
<1>. DEFINE r  == Inflating
            p  == pos + r.used
            o  == out \o r.bytes
            sum == Counted(s.sum, r.bytes)
            s1 == [s EXCEPT !.mz = r.mz, !.called = TRUE,
                            !.sum = IF job.wrap = "raw" THEN @ ELSE @ + Len(r.bytes)]
            q == Readings(job)[p]
<1>. SUFFICES Turned(p, o)
  OBVIOUS
<1>0. /\ pc = "codec" /\ s.state = "BODY" /\ InBody(job, fed, pos, out, s)
  BY DEF Body, InState, Along
<1>1. MzRight(r, p, o, sum) /\ InflatedOk(r, AvailIn, AvailOut)
  BY <1>0, BodyReads
<1>2. (CASE r.code = "STREAM_END" /\ job.wrap = "raw" ->
                  Return(ZU_STREAM_END, p, o) /\ s' = [s1 EXCEPT !.state = "DONE"]
             [] r.code = "STREAM_END" /\ job.wrap # "raw" ->
                  Continue(p, o) /\ s' = [s1 EXCEPT !.state = "TRAILER", !.tail = <<>>]
             [] r.code \in {"DATA_ERROR", "STREAM_ERROR"} ->
                  Return(ZU_ERR_INVALID_DATA, p, o) /\ s' = s1
             [] r.code \in {"OK", "BUF_ERROR"} ->
                  /\ s' = s1
                  /\ IF r.used = 0 /\ r.bytes = <<>>
                       THEN Return(Stall, p, o) ELSE Continue(p, o))
  BY DEF Body, Inflating
<1>3. /\ LoopInv /\ s \in DeflateRecord /\ s.sum \in Nat /\ job \in Jobs /\ pos \in Nat
      /\ out \in Seq(Nat) /\ r.mz \in MzRecord /\ r.bytes \in Seq(Nat) /\ Len(r.bytes) \in Nat
      /\ p \in 0 .. Len(job.input) /\ Len(job.input) \in Nat
  <2>1. /\ r.mz \in MzRecord /\ r.bytes \in Seq(Nat) /\ r.used \in 0 .. AvailIn
    BY <1>1 DEF InflatedOk
  <2>2. LoopInv /\ s \in DeflateRecord
    BY <1>0, InCall
  <2>3. AvailIn \in Nat /\ \A k \in 0 .. AvailIn : pos + k \in pos .. fed
    BY <1>0, <2>2, VisibleFacts
  <2>4. job \in Jobs /\ pos \in Nat /\ fed \in Nat /\ fed <= Len(job.input) /\ out \in Seq(Nat)
        /\ Len(job.input) \in Nat
    BY <2>2, LoopFacts
  <2>5. p \in pos .. fed
    BY <2>1, <2>3
  <2>. HIDE DEF p, r
  <2>. QED  BY <2>1, <2>2, <2>4, <2>5 DEF DeflateRecord
<1>. HIDE DEF r
<1>4. s1 \in DeflateRecord /\ s1.mz = r.mz /\ s1.called = TRUE /\ s1.sum = sum /\ s1.state = "BODY"
      /\ s1.tail = s.tail
  <2>1. sum \in Nat /\ sum = IF job.wrap = "raw" THEN s.sum ELSE s.sum + Len(r.bytes)
    BY <1>3 DEF Counted
  <2>2. s1 = [s EXCEPT !.mz = r.mz, !.called = TRUE, !.sum = sum]
    BY <2>1
  <2>. HIDE DEF sum, s1
  <2>3. [s EXCEPT !.mz = r.mz, !.called = TRUE, !.sum = sum] \in DeflateRecord
    BY <1>3, <2>1 DEF DeflateRecord
  <2>4. /\ [s EXCEPT !.mz = r.mz, !.called = TRUE, !.sum = sum].mz = r.mz
        /\ [s EXCEPT !.mz = r.mz, !.called = TRUE, !.sum = sum].called = TRUE
        /\ [s EXCEPT !.mz = r.mz, !.called = TRUE, !.sum = sum].sum = sum
        /\ [s EXCEPT !.mz = r.mz, !.called = TRUE, !.sum = sum].state = s.state
        /\ [s EXCEPT !.mz = r.mz, !.called = TRUE, !.sum = sum].tail = s.tail
    BY <1>3 DEF DeflateRecord
  <2>. QED  BY <1>0, <2>2, <2>3, <2>4
<1>. HIDE DEF p, o, sum, s1
<1>5. r.code \in {"OK", "BUF_ERROR", "STREAM_END", "DATA_ERROR"}
  BY <1>1 DEF MzRight
<1>6. r.code = "STREAM_END" => /\ q.err = ZU_OK /\ q.out = o /\ Complete(job, q, p)
                               /\ job.wrap # "raw" => sum = q.member
  BY <1>1 DEF MzRight, q
<1>. HIDE DEF q
<1>7. CASE r.code = "STREAM_END" /\ job.wrap = "raw"
  <2>1. Return(ZU_STREAM_END, p, o)
    BY <1>2, <1>7
  <2>2. MemberEnded(job, p, o)
    BY <1>6, <1>7 DEF MemberEnded, Complete, q
  <2>3. ~StartsMember(job, p + 1) /\ ~Joins(job)
    BY <1>7 DEF StartsMember, Joins
  <2>4. EndsAt(job, p, o)
    BY <1>3, <2>2, <2>3, MemberEndsIt
  <2>. QED  BY <2>1, <2>3, <2>4, EndTurns
<1>8. CASE r.code = "STREAM_END" /\ job.wrap # "raw"
  <2>1. Continue(p, o) /\ s' = [s1 EXCEPT !.state = "TRAILER", !.tail = <<>>]
    BY <1>2, <1>8
  <2>2. s'.state = "TRAILER" /\ s'.tail = <<>> /\ s'.sum = sum
    BY <1>4, <2>1 DEF DeflateRecord
  <2>3. q.err = ZU_OK /\ q.phase = "sum" /\ q.out = o /\ q.member = s'.sum
    BY <1>6, <1>8, <2>2 DEF Complete
  <2>4. InTrailer(job, p, o, s')
    <3>1. Len(s'.tail) = 0 /\ 0 <= p /\ p - 0 = p /\ \A k \in 1 .. 0 : FALSE
      BY <1>3, <2>2
    <3>2. Readings(job)[p - Len(s'.tail)] = q
      BY <3>1 DEF q
    <3>. QED  BY <1>8, <2>3, <3>1, <3>2 DEF InTrailer
  <2>5. Along(job, fed, p, o, s')
    BY <2>2, <2>4 DEF Along
  <2>. QED  BY <2>1, <2>5, GoesOn1
<1>9. CASE r.code = "DATA_ERROR"
  <2>1. Return(ZU_ERR_INVALID_DATA, p, o)
    BY <1>2, <1>9
  <2>2. VerdictOn(job, ReferenceOf(job)) = ZU_ERR_INVALID_DATA
    BY <1>1, <1>9 DEF MzRight
  <2>. QED  BY <2>1, <2>2, ErrorTurns, Words
<1>10. CASE r.code \in {"OK", "BUF_ERROR"}
  <2>1. s' = s1 /\ IF r.used = 0 /\ r.bytes = <<>> THEN Return(Stall, p, o) ELSE Continue(p, o)
    BY <1>2, <1>10
  <2>2. BodyAt(job, p, o, r.mz, sum) /\ (r.mz.flushed => fed = Len(job.input))
    BY <1>1, <1>10 DEF MzRight
  <2>3. InBody(job, fed, p, o, s')
    BY <1>4, <2>1, <2>2 DEF InBody
  <2>4. Along(job, fed, p, o, s')
    BY <1>4, <2>1, <2>3 DEF Along
  <2>5. CASE ~(r.used = 0 /\ r.bytes = <<>>)
    BY <2>1, <2>4, <2>5, GoesOn1
  <2>6. CASE r.used = 0 /\ r.bytes = <<>>
    <3>1. p = pos /\ o = out
      BY <1>3, <2>6, NothingJoined DEF p, o
    <3>2. Return(Stall, pos, out) /\ Along(job, fed, pos, out, s') /\ MzRight(r, pos, out, sum)
      BY <1>1, <2>1, <2>4, <2>6, <3>1
    <3>3. Turned(pos, out)
      BY <1>0, <1>3, <1>10, <2>6, <3>2, StallTurns
    <3>. QED  BY <3>1, <3>3
  <2>. QED  BY <2>5, <2>6
<1>. QED  BY <1>5, <1>7, <1>8, <1>9, <1>10

\* The trailer after token q is the member's.
TrailerRight(j, q, m) ==
    /\ j.input[q + 1] = <<"sum", m>>
    /\ j.wrap = "gzip" => j.input[q + 2] = <<"isize", m % ISizeMod>>

TrailerLen(j) == IF j.wrap = "gzip" THEN 2 ELSE 1

\* What is read of a trailer.
LEMMA TrailerReadings ==
    ASSUME NEW j \in Jobs, NEW q \in 0 .. Len(j.input),
           Readings(j)[q].err = ZU_OK, Readings(j)[q].phase = "sum"
    PROVE  /\ j.wrap = "gzip" /\ q < Len(j.input) =>
                /\ Readings(j)[q + 1].err = ZU_OK
                /\ Readings(j)[q + 1].phase \in {"isize", "isize-bad"}
           /\ q + TrailerLen(j) <= Len(j.input) =>
                IF TrailerRight(j, q, Readings(j)[q].member)
                  THEN MemberEnded(j, q + TrailerLen(j), Readings(j)[q].out)
                  ELSE Readings(j)[q + TrailerLen(j)].err = ZU_ERR_CHECKSUM
<1>. DEFINE N == Len(j.input)  a == Readings(j)[q]  b == Readings(j)[q + 1]  c == Readings(j)[q + 2]
            right == j.input[q + 1] = <<"sum", a.member>>
<1>0. N \in Nat /\ q \in Nat
  BY JobTypes
<1>1. /\ a \in RefRecord /\ a.err = ZU_OK /\ a.phase = "sum"
      /\ "isize" \in RefPhases /\ "isize-bad" \in RefPhases /\ ZU_ERR_CHECKSUM \in Status
  BY ReadingsAre DEF RefPhases, Status, Errors
<1>2. q < N => b = RefStep(j, a, q + 1)
  BY <1>0, ReadNext
<1>. HIDE DEF a, b
<1>3. ASSUME j.wrap = "gzip", q < N
      PROVE  /\ b.err = ZU_OK /\ b.phase = IF right THEN "isize" ELSE "isize-bad"
             /\ b.member = a.member /\ b.out = a.out /\ b \in RefRecord
  <2>1. b = RefAt(a, IF right THEN "isize" ELSE "isize-bad")
    BY <1>1, <1>2, <1>3, RefAtSum
  <2>. HIDE DEF right
  <2>2. CASE right
    <3>1. b = RefAt(a, "isize")
      BY <2>1, <2>2
    <3>. QED  BY <1>1, <2>2, <3>1, RefAtIs
  <2>3. CASE ~right
    <3>1. b = RefAt(a, "isize-bad")
      BY <2>1, <2>3
    <3>. QED  BY <1>1, <2>3, <3>1, RefAtIs
  <2>. QED  BY <2>2, <2>3
<1>4. CASE j.wrap = "gzip"
  <2>0. TrailerLen(j) = 2
    BY <1>4 DEF TrailerLen
  <2>. DEFINE good == TrailerRight(j, q, a.member)
  <2>1. good <=> right /\ j.input[q + 2] = <<"isize", a.member % ISizeMod>>
    BY <1>4 DEF TrailerRight
  <2>2. ASSUME q + 2 <= N
        PROVE  IF good THEN MemberEnded(j, q + 2, a.out) ELSE c.err = ZU_ERR_CHECKSUM
    <3>1. q < N /\ q + 1 < N /\ (q + 1) + 1 = q + 2 /\ q + 1 \in Nat /\ q + 2 \in Nat
      BY <1>0, <2>2
    <3>2. c = RefStep(j, Readings(j)[q + 1], q + 2)
      BY <3>1, ReadNext
    <3>3. /\ b.err = ZU_OK /\ b.phase = IF right THEN "isize" ELSE "isize-bad"
          /\ b.member = a.member /\ b.out = a.out /\ b \in RefRecord
      BY <1>3, <1>4, <3>1
    <3>4. c = RefStep(j, b, q + 2)
      BY <3>2 DEF b
    <3>5. b.phase \in {"isize", "isize-bad"}
      BY <3>3
    <3>. HIDE DEF c
    <3>6. c = IF b.phase = "isize" /\ j.input[q + 2] = <<"isize", b.member % ISizeMod>>
                THEN RefMemberDone(b, q + 2) ELSE RefErr(b, ZU_ERR_CHECKSUM)
      BY <3>3, <3>4, <3>5, RefAtSize
    <3>7. b.phase = "isize" <=> right
      BY <3>3
    <3>. HIDE DEF right, good
    <3>8. CASE good
      <4>1. c = RefMemberDone(b, q + 2)
        BY <2>1, <3>3, <3>6, <3>7, <3>8
      <4>2. c.phase = "between" /\ c.out = b.out /\ c.err = b.err /\ c.end = q + 2
        BY <3>1, <3>3, <4>1, RefMemberDoneIs
      <4>3. MemberEnded(j, q + 2, a.out)
        BY <3>3, <4>2 DEF MemberEnded, c
      <4>. QED  BY <3>8, <4>3
    <3>9. CASE ~good
      <4>1. c = RefErr(b, ZU_ERR_CHECKSUM)
        BY <2>1, <3>3, <3>6, <3>7, <3>9
      <4>2. c.err = ZU_ERR_CHECKSUM
        BY <1>1, <3>3, <4>1, RefErrIs
      <4>. QED  BY <3>9, <4>2
    <3>. QED  BY <3>8, <3>9
  <2>3. q < N => b.err = ZU_OK /\ b.phase \in {"isize", "isize-bad"}
    BY <1>3, <1>4
  <2>. QED  BY <2>0, <2>2, <2>3 DEF a, b, c
<1>5. CASE j.wrap # "gzip"
  <2>0. TrailerLen(j) = 1 /\ (TrailerRight(j, q, a.member) <=> right)
    BY <1>5 DEF TrailerLen, TrailerRight
  <2>2. ASSUME q + 1 <= N
        PROVE  IF right THEN MemberEnded(j, q + 1, a.out) ELSE b.err = ZU_ERR_CHECKSUM
    <3>1. q < N /\ q + 1 \in Nat
      BY <1>0, <2>2
    <3>2. b = IF right THEN RefMemberDone(a, q + 1) ELSE RefErr(a, ZU_ERR_CHECKSUM)
      BY <1>1, <1>2, <1>5, <3>1, RefAtSum
    <3>. HIDE DEF right
    <3>3. CASE right
      <4>1. b.phase = "between" /\ b.out = a.out /\ b.err = a.err /\ b.end = q + 1
        BY <1>1, <3>1, <3>2, <3>3, RefMemberDoneIs
      <4>2. MemberEnded(j, q + 1, a.out)
        BY <1>1, <4>1 DEF MemberEnded, b
      <4>. QED  BY <3>3, <4>2
    <3>4. CASE ~right
      <4>1. b.err = ZU_ERR_CHECKSUM
        BY <1>1, <3>2, <3>4, RefErrIs
      <4>. QED  BY <3>4, <4>1
    <3>. QED  BY <3>3, <3>4
  <2>. HIDE DEF right
  <2>. QED  BY <1>5, <2>0, <2>2 DEF a, b
<1>. QED  BY <1>4, <1>5

\* Where the trailer stands.
LEMMA TrailerIs ==
    ASSUME DecoderInv, pc = "codec", s.state = "TRAILER", InTrailer(job, pos, out, s)
    PROVE  \E q \in 0 .. Len(job.input) :
             /\ pos = q + Len(s.tail) /\ Len(s.tail) \in Nat /\ Len(s.tail) <= TrailerLen(job)
             /\ q = pos - Len(s.tail) /\ job \in Jobs /\ pos \in 0 .. Len(job.input)
             /\ Readings(job)[q].err = ZU_OK /\ Readings(job)[q].phase = "sum"
             /\ Readings(job)[q].out = out /\ Readings(job)[q].member = s.sum
             /\ \A k \in 1 .. Len(s.tail) : s.tail[k] = job.input[q + k]
             /\ job.wrap # "raw" /\ s \in DeflateRecord
<1>. DEFINE q == pos - Len(s.tail)  l == Len(s.tail)  N == Len(job.input)
<1>1. /\ l \in Nat /\ l <= TailLen /\ s \in DeflateRecord /\ LoopInv
  BY InCall
<1>2. /\ pos \in Nat /\ N \in Nat /\ pos <= N /\ job \in Jobs
  BY <1>1, LoopFacts
<1>3. l <= pos
  BY DEF InTrailer
<1>4. q \in 0 .. N /\ pos = q + l /\ pos \in 0 .. N
  <2>1. q = pos - l
    OBVIOUS
  <2>. HIDE DEF q, l, N
  <2>. QED  BY ONLY <1>1, <1>2, <1>3, <2>1
<1>5. TrailerLen(job) = TailLen
  BY DEF TrailerLen, TailLen
<1>6. /\ Readings(job)[q].err = ZU_OK /\ Readings(job)[q].phase = "sum"
      /\ Readings(job)[q].out = out /\ Readings(job)[q].member = s.sum
      /\ \A k \in 1 .. Len(s.tail) : s.tail[k] = job.input[q + k]
      /\ job.wrap # "raw"
  BY DEF InTrailer
<1>7. q = pos - Len(s.tail)
  OBVIOUS
<1>. HIDE DEF q
<1>. QED  BY <1>1, <1>2, <1>4, <1>5, <1>6, <1>7

\* Input ran out in a trailer.
LEMMA TrailerStarvedAlong ==
    ASSUME DecoderInv, Along(job, fed, pos, out, s), TrailerStarved
    PROVE  Turned(pos, out)
<1>. DEFINE N == Len(job.input)  l == Len(s.tail)
<1>0. /\ pc = "codec" /\ s.state = "TRAILER" /\ l < TailLen /\ AvailIn = 0
      /\ Return(Starved, pos, out) /\ s' = s /\ InTrailer(job, pos, out, s)
  BY DEF TrailerStarved, InState, Along
<1>1. /\ pos = fed /\ pos \in Nat /\ N \in Nat
      /\ flush = ZU_FINISH => pos = N
  <2>1. LoopInv
    BY DEF DecoderInv, DeflateInv
  <2>2. AvailIn = fed - pos /\ fed \in Nat /\ pos \in Nat /\ fed <= N /\ N \in Nat
    BY <1>0, <2>1, VisibleFacts, LoopFacts
  <2>3. flush = ZU_FINISH => fed = N
    BY <1>0, <2>1 DEF LoopInv, CallInProgress
  <2>. QED  BY <1>0, <2>2, <2>3
<1>2. CASE flush # ZU_FINISH
  <2>1. Starved = ZU_NEED_INPUT
    BY <1>2 DEF Starved
  <2>. QED  BY <1>0, <1>2, <2>1, WaitTurns
<1>3. CASE flush = ZU_FINISH
  <2>1. Starved = ZU_ERR_TRUNCATED /\ pos = N
    BY <1>1, <1>3 DEF Starved
  <2>2. PICK q \in 0 .. N :
          /\ pos = q + l /\ l \in Nat /\ l <= TrailerLen(job) /\ job \in Jobs
          /\ Readings(job)[q].err = ZU_OK /\ Readings(job)[q].phase = "sum"
    BY <1>0, TrailerIs
  <2>3. /\ job.wrap = "gzip" /\ q < N =>
             /\ Readings(job)[q + 1].err = ZU_OK
             /\ Readings(job)[q + 1].phase \in {"isize", "isize-bad"}
    BY <2>2, TrailerReadings
  <2>4. l = 0 \/ (l = 1 /\ job.wrap = "gzip")
    <3>1. l < TailLen /\ l \in Nat
      BY <1>0, <2>2
    <3>2. /\ job.wrap = "gzip" => TailLen = 2
          /\ job.wrap # "gzip" => TailLen = 1
      BY DEF TailLen
    <3>. HIDE DEF l
    <3>. DEFINE T == TailLen
    <3>. HIDE DEF T
    <3>3. l < T /\ (job.wrap = "gzip" => T = 2) /\ (job.wrap # "gzip" => T = 1)
      BY <3>1, <3>2 DEF T
    <3>. QED  BY ONLY <3>1, <3>3
  <2>. HIDE DEF l, N
  <2>. DEFINE a == Readings(job)[pos]
  <2>5. a.err = ZU_OK /\ a.phase \in {"sum", "isize", "isize-bad"}
    <3>1. CASE l = 0
      <4>1. pos = q
        BY <1>1, <2>2, <3>1
      <4>. QED  BY <2>2, <4>1
    <3>2. CASE l = 1 /\ job.wrap = "gzip"
      <4>1. pos = q + 1 /\ q < N
        BY <1>1, <2>1, <2>2, <3>2
      <4>. QED  BY <2>3, <3>2, <4>1
    <3>. QED  BY <2>4, <3>1, <3>2
  <2>6. ReferenceOf(job) = a
    BY <2>1 DEF ReferenceOf, N
  <2>. HIDE DEF a
  <2>7. VerdictOn(job, a) = ZU_ERR_TRUNCATED
    BY <2>5, VerdictIs
  <2>. QED  BY <1>0, <2>1, <2>6, <2>7, ErrorTurns, Words
<1>. QED  BY <1>2, <1>3

\* A byte of the trailer.
LEMMA TrailerByteAlong ==
    ASSUME DecoderInv, Along(job, fed, pos, out, s), TrailerByte
    PROVE  Turned(pos + 1, out)
<1>. DEFINE N == Len(job.input)  l == Len(s.tail)
<1>0. /\ pc = "codec" /\ s.state = "TRAILER" /\ l < TailLen /\ AvailIn > 0
      /\ Continue(pos + 1, out) /\ s' = [s EXCEPT !.tail = Append(@, Ahead(1))]
      /\ InTrailer(job, pos, out, s)
  BY DEF TrailerByte, InState, Along
<1>1. PICK q \in 0 .. N :
          /\ pos = q + l /\ l \in Nat /\ job \in Jobs
          /\ Readings(job)[q].err = ZU_OK /\ Readings(job)[q].phase = "sum"
          /\ Readings(job)[q].out = out /\ Readings(job)[q].member = s.sum
          /\ \A k \in 1 .. Len(s.tail) : s.tail[k] = job.input[q + k]
          /\ job.wrap # "raw" /\ s \in DeflateRecord
  BY <1>0, TrailerIs
<1>. DEFINE t == Append(s.tail, Ahead(1))
<1>2. /\ s.tail \in Seq(STRING \X Nat) /\ Ahead(1) \in STRING \X Nat /\ pos \in Nat /\ N \in Nat
  BY <1>0, InCall, FirstAhead, LoopFacts
<1>3. /\ t \in Seq(STRING \X Nat) /\ Len(t) = l + 1 /\ t[l + 1] = Ahead(1)
      /\ \A k \in 1 .. l : t[k] = s.tail[k]
  <2>. DEFINE a == s.tail  b == Ahead(1)
  <2>1. a \in Seq(STRING \X Nat) /\ b \in STRING \X Nat
    BY <1>2
  <2>. HIDE DEF a, b
  <2>2. /\ Append(a, b) \in Seq(STRING \X Nat) /\ Len(Append(a, b)) = Len(a) + 1
        /\ Append(a, b)[Len(a) + 1] = b
        /\ \A k \in 1 .. Len(a) : Append(a, b)[k] = a[k]
    BY <2>1
  <2>. QED  BY <2>2 DEF a, b
<1>4. s'.state = "TRAILER" /\ s'.tail = t /\ s'.sum = s.sum
  <2>. HIDE DEF t
  <2>1. s' = [s EXCEPT !.tail = t]
    BY <1>0 DEF t
  <2>. QED  BY <1>0, <1>1, <1>3, <2>1 DEF DeflateRecord
<1>. HIDE DEF t, l
<1>5. (pos + 1) - Len(s'.tail) = q /\ Len(s'.tail) = l + 1 /\ l + 1 <= pos + 1 /\ q \in Nat
      /\ q + (l + 1) = pos + 1
  BY <1>1, <1>2, <1>3, <1>4
<1>6. \A k \in 1 .. l + 1 : s'.tail[k] = job.input[q + k]
  <2>. SUFFICES ASSUME NEW k \in 1 .. l + 1 PROVE t[k] = job.input[q + k]
    BY <1>4
  <2>1. k = l + 1 \/ k \in 1 .. l
    BY <1>1
  <2>2. CASE k = l + 1
    BY <1>3, <1>5, <2>2 DEF Ahead
  <2>3. CASE k \in 1 .. l
    BY <1>1, <1>3, <2>3 DEF l
  <2>. QED  BY <2>1, <2>2, <2>3
<1>7. InTrailer(job, pos + 1, out, s')
  <2>1. Len(s'.tail) <= pos + 1
    BY <1>5
  <2>2. /\ Readings(job)[(pos + 1) - Len(s'.tail)].err = ZU_OK
        /\ Readings(job)[(pos + 1) - Len(s'.tail)].phase = "sum"
        /\ Readings(job)[(pos + 1) - Len(s'.tail)].out = out
        /\ Readings(job)[(pos + 1) - Len(s'.tail)].member = s'.sum
    BY <1>1, <1>4, <1>5
  <2>3. \A k \in 1 .. Len(s'.tail) : s'.tail[k] = job.input[(pos + 1) - Len(s'.tail) + k]
    BY <1>5, <1>6
  <2>. QED  BY <1>1, <2>1, <2>2, <2>3 DEF InTrailer
<1>8. Along(job, fed, pos + 1, out, s')
  BY <1>4, <1>7 DEF Along
<1>. QED  BY <1>0, <1>8, GoesOn1

\* The trailer is judged.
LEMMA TrailerCheckAlong ==
    ASSUME DecoderInv, Along(job, fed, pos, out, s), TrailerCheck
    PROVE  Turned(pos, out)
<1>. DEFINE N == Len(job.input)  l == Len(s.tail)  T == TrailerLen(job)
<1>0. /\ pc = "codec" /\ s.state = "TRAILER" /\ l = TailLen /\ InTrailer(job, pos, out, s)
      /\ \/ /\ s.tail = ExpectedTail /\ Continue(pos, out) /\ s' = [s EXCEPT !.state = "MEMBER_END"]
         \/ s.tail # ExpectedTail /\ Return(ZU_ERR_CHECKSUM, pos, out)
  BY DEF TrailerCheck, InState, Along
<1>1. PICK q \in 0 .. N :
          /\ pos = q + l /\ l \in Nat /\ job \in Jobs /\ pos \in 0 .. N
          /\ Readings(job)[q].err = ZU_OK /\ Readings(job)[q].phase = "sum"
          /\ Readings(job)[q].out = out /\ Readings(job)[q].member = s.sum
          /\ \A k \in 1 .. Len(s.tail) : s.tail[k] = job.input[q + k]
          /\ job.wrap # "raw" /\ s \in DeflateRecord
  BY <1>0, TrailerIs
<1>2. l = T /\ pos = q + T /\ q + T <= N /\ s.probe # TRUE
  <2>1. l = T
    BY <1>0 DEF TrailerLen, TailLen
  <2>2. s.probe # TRUE
    BY <1>0, InCall
  <2>3. q \in 0 .. N /\ pos = q + l /\ pos \in 0 .. N /\ N \in Nat
    BY <1>1, JobTypes
  <2>. HIDE DEF l, T, N
  <2>4. pos = q + T /\ q + T <= N
    BY ONLY <2>1, <2>3
  <2>. QED  BY <2>1, <2>2, <2>4 DEF N
<1>3. IF TrailerRight(job, q, s.sum) THEN MemberEnded(job, pos, out)
                                     ELSE Readings(job)[pos].err = ZU_ERR_CHECKSUM
  <2>1. IF TrailerRight(job, q, Readings(job)[q].member)
          THEN MemberEnded(job, q + TrailerLen(job), Readings(job)[q].out)
          ELSE Readings(job)[q + TrailerLen(job)].err = ZU_ERR_CHECKSUM
    BY <1>1, <1>2, TrailerReadings
  <2>. QED  BY <1>1, <1>2, <2>1
<1>4. s.tail = ExpectedTail <=> TrailerRight(job, q, s.sum)
  <2>. DEFINE a == <<"sum", s.sum>>  b == <<"isize", s.sum % ISizeMod>>  t == s.tail
              u == job.input[q + 1]  v == job.input[q + 2]
  <2>1. t \in Seq(STRING \X Nat) /\ Len(t) = T
    BY <1>1, <1>2 DEF DeflateRecord
  <2>2. CASE job.wrap = "gzip"
    <3>1. Len(t) = 2 /\ ExpectedTail = <<a, b>> /\ (TrailerRight(job, q, s.sum) <=> u = a /\ v = b)
      BY <2>1, <2>2 DEF TrailerLen, ExpectedTail, TrailerRight
    <3>2. t[1] = u /\ t[2] = v
      BY <1>1, <3>1
    <3>. HIDE DEF a, b, u, v, t
    <3>3. t = <<t[1], t[2]>>
      BY <2>1, <3>1
    <3>4. t = <<a, b>> <=> t[1] = a /\ t[2] = b
      BY <3>3
    <3>. QED  BY <3>1, <3>2, <3>4 DEF t
  <2>3. CASE job.wrap # "gzip"
    <3>1. Len(t) = 1 /\ ExpectedTail = <<a>> /\ (TrailerRight(job, q, s.sum) <=> u = a)
      BY <2>1, <2>3 DEF TrailerLen, ExpectedTail, TrailerRight
    <3>2. t[1] = u
      BY <1>1, <3>1
    <3>. HIDE DEF a, b, u, v, t
    <3>3. t = <<t[1]>>
      BY <2>1, <3>1
    <3>4. t = <<a>> <=> t[1] = a
      BY <3>3
    <3>. QED  BY <3>1, <3>2, <3>4 DEF t
  <2>. QED  BY <2>2, <2>3
<1>5. CASE s.tail = ExpectedTail /\ Continue(pos, out) /\ s' = [s EXCEPT !.state = "MEMBER_END"]
  <2>1. s'.state = "MEMBER_END" /\ s'.probe = s.probe
    BY <1>1, <1>5 DEF DeflateRecord
  <2>2. MemberEnded(job, pos, out)
    BY <1>3, <1>4, <1>5
  <2>3. InBetween(job, pos, out, s')
    BY <1>1, <1>2, <2>1, <2>2 DEF InBetween
  <2>4. Along(job, fed, pos, out, s')
    BY <2>1, <2>3 DEF Along
  <2>. QED  BY <1>5, <2>4, GoesOn1
<1>6. CASE s.tail # ExpectedTail /\ Return(ZU_ERR_CHECKSUM, pos, out)
  <2>1. Readings(job)[pos].err = ZU_ERR_CHECKSUM
    BY <1>3, <1>4, <1>6
  <2>2. ZU_ERR_CHECKSUM # ZU_OK
    BY DEF ZU_ERR_CHECKSUM, ZU_OK
  <2>3. ReferenceOf(job) = Readings(job)[pos]
    BY <1>1, <2>1, <2>2, ReferenceGrows
  <2>4. VerdictOn(job, ReferenceOf(job)) = ZU_ERR_CHECKSUM
    BY <2>1, <2>2, <2>3, VerdictIs
  <2>. QED  BY <1>6, <2>4, ErrorTurns, Words
<1>. QED  BY <1>0, <1>5, <1>6

\* Between members: q is where the last one ended.
LEMMA BetweenIs ==
    ASSUME DecoderInv, pc = "codec", s.state = "MEMBER_END", InBetween(job, pos, out, s)
    PROVE  \E q \in 0 .. Len(job.input) :
             /\ MemberEnded(job, q, out) /\ job \in Jobs
             /\ s.probe = TRUE => /\ pos = q + 1 /\ q + 1 < Len(job.input)
                                  /\ job.input[q + 1] = magic1 /\ Joins(job)
             /\ s.probe = FALSE => pos = q
<1>1. LoopInv /\ s.probe \in BOOLEAN
  BY InCall
<1>2. job \in Jobs
  BY <1>1, LoopFacts
<1>3. PICK q \in 0 .. Len(job.input) :
         /\ MemberEnded(job, q, out)
         /\ IF s.probe THEN pos = q + 1 /\ job.input[pos] = magic1 /\ pos < Len(job.input) /\ Joins(job)
            ELSE pos = q
  BY DEF InBetween
<1>. QED  BY <1>1, <1>2, <1>3

\* A byte held back that opens no member ends the stream too.
LEMMA HeldEndsIt ==
    ASSUME NEW j \in Jobs, NEW q \in 0 .. Len(j.input), NEW o, MemberEnded(j, q, o),
           q + 1 < Len(j.input), j.input[q + 1] = magic1, Joins(j), ~StartsMember(j, q + 1)
    PROVE  EndsAt(j, q + 1, o)
<1>. DEFINE N == Len(j.input)  r == Readings(j)[q]  t == Readings(j)[q + 1]  z == ReferenceOf(j)
<1>0. N \in Nat /\ q \in Nat /\ q < N
  BY JobTypes
<1>1. r.err = ZU_OK /\ r.phase = "between" /\ r.end = q /\ r.out = o /\ r \in RefRecord
  BY ReadingsAre DEF MemberEnded
<1>2. t = RefStep(j, r, q + 1) /\ q + 1 \in 0 .. N
  BY <1>0, ReadNext
<1>3. t = RefAt(r, "tail") /\ "tail" \in RefPhases
  <2>. HIDE DEF r, t
  <2>. QED  BY <1>1, <1>2, RefAfterMember DEF RefPhases
<1>4. /\ t.phase = "tail" /\ t.out = r.out /\ t.err = r.err /\ t.end = r.end
  <2>. HIDE DEF r, t
  <2>. QED  BY <1>1, <1>3, RefAtIs
<1>5. z = t
  BY <1>2, <1>4, ReferenceGrows
<1>. HIDE DEF z, r, t
<1>. QED  BY <1>1, <1>4, <1>5 DEF EndsAt, z

\* A new member's decoder.
LEMMA NextMemberIs ==
    /\ NextMember.mz = FreshInflater /\ NextMember.sum = 0 /\ NextMember.called = FALSE
    /\ NextMember.gz = IF s.probe THEN HeaderFeed(NewHeader, 31).h ELSE NewHeader
<1>. DEFINE N == NewState("gzip")
            x == IF s.probe THEN HeaderFeed(NewHeader, 31).h ELSE NewHeader
<1>1. N \in DeflateRecord
  BY NewStateOk
<1>2. N.gz = NewHeader /\ N.mz = FreshInflater /\ N.sum = 0 /\ N.called = FALSE
  BY DEF NewState
<1>3. NextMember = [N EXCEPT !.gz = x]
  BY <1>2 DEF NextMember
<1>. HIDE DEF N, x
<1>4. /\ [N EXCEPT !.gz = x].gz = x /\ [N EXCEPT !.gz = x].mz = N.mz
      /\ [N EXCEPT !.gz = x].sum = N.sum /\ [N EXCEPT !.gz = x].called = N.called
  BY <1>1 DEF DeflateRecord
<1>5. NextMember.gz = x
  BY <1>3, <1>4
<1>. QED  BY <1>2, <1>3, <1>4, <1>5 DEF x

\* The next member opens.
LEMMA NextMemberAlong ==
    ASSUME DecoderInv, pc = "codec", NEW q \in 0 .. Len(job.input), MemberEnded(job, q, out),
           StartsMember(job, q + 1), Continue(pos, out), s' = NextMember, job \in Jobs,
           s.probe = TRUE => pos = q + 1, s.probe = FALSE => pos = q
    PROVE  Turned(pos, out)
<1>. DEFINE N == Len(job.input)  r == Readings(job)[q]  t == Readings(job)[q + 1]  h == q + 1
            v == From(job, h)
<1>0. /\ N \in Nat /\ q \in Nat /\ h < N /\ job.wrap = "gzip" /\ job.input[h] = magic1
      /\ h \in 1 .. N + 1 /\ h \in 0 .. N /\ q < N
  BY JobTypes DEF StartsMember
<1>1. r.err = ZU_OK /\ r.phase = "between" /\ r.out = out /\ r \in RefRecord
  BY ReadingsAre DEF MemberEnded
<1>2. t = RefOpen(r, h)
  <2>1. t = RefStep(job, r, h)
    BY <1>0, ReadNext
  <2>. HIDE DEF r, t, h
  <2>. QED  BY <1>1, <2>1, RefAfterMember DEF h
<1>3. t.err = ZU_OK /\ t.phase = "header" /\ t.start = h /\ t.out = out /\ t.member = 0
  <2>1. h \in Nat
    BY <1>0
  <2>. HIDE DEF r, t, h
  <2>. QED  BY <1>1, <1>2, <2>1, RefOpenIs
<1>4. v \in Seq(STRING \X Nat) /\ Len(v) >= 1 /\ v[1] = magic1
  <2>1. /\ v \in Seq(STRING \X Nat) /\ Len(v) = N - h + 1
        /\ \A k \in 1 .. N - h + 1 : v[k] = job.input[h + k - 1]
    BY <1>0, FromIs
  <2>2. N - h + 1 >= 1 /\ 1 \in 1 .. N - h + 1 /\ h + 1 - 1 = h
    BY <1>0
  <2>3. v[1] = job.input[h + 1 - 1]
    BY <2>1, <2>2
  <2>. HIDE DEF v, h
  <2>. QED  BY <1>0, <2>1, <2>2, <2>3
<1>. HIDE DEF v, r, t
<1>5. /\ s'.mz = FreshInflater /\ s'.sum = 0 /\ ~s'.called /\ s'.state = "HEADER"
      /\ s'.gz = IF s.probe THEN HeaderFeed(NewHeader, 31).h ELSE NewHeader
  BY NextMemberIs, NextMemberOk
<1>6. /\ pos = q \/ pos = h
      /\ Parsed(v, pos - h + 1, s'.gz) /\ s'.gz.state # "DONE"
  <2>1. s.probe \in BOOLEAN
    BY InCall
  <2>2. CASE s.probe = TRUE
    <3>1. pos - h + 1 = 1 /\ s'.gz = HeaderFeed(NewHeader, 31).h /\ pos = h
      BY <1>0, <1>5, <2>2
    <3>. QED  BY <1>4, <3>1, MagicParsed, MagicFed
  <2>3. CASE s.probe = FALSE
    <3>1. pos - h + 1 = 0 /\ s'.gz = NewHeader /\ pos = q
      BY <1>0, <1>5, <2>3
    <3>. QED  BY <1>4, <3>1, NewHeaderParsed
  <2>. QED  BY <2>1, <2>2, <2>3
<1>7. HeaderAt(job, h, h, pos, out, s')
  <2>1. h - 1 <= pos
    BY <1>0, <1>6
  <2>. HIDE DEF h
  <2>. QED  BY <1>0, <1>3, <1>6, <2>1 DEF HeaderAt, t, v, h
<1>8. InHeader(job, pos, out, s')
  <2>. HIDE DEF h
  <2>. QED  BY <1>0, <1>5, <1>7 DEF InHeader
<1>9. Along(job, fed, pos, out, s')
  BY <1>5, <1>8 DEF Along
<1>. QED  BY <1>9, GoesOn1

\* Between members, with nothing to look at.
LEMMA MemberEndNoInputAlong ==
    ASSUME DecoderInv, Along(job, fed, pos, out, s), MemberEndNoInput
    PROVE  Turned(pos, out)
<1>. DEFINE N == Len(job.input)
<1>0. /\ pc = "codec" /\ s.state = "MEMBER_END" /\ InBetween(job, pos, out, s)
      /\ ~Concat \/ AvailIn = 0
      /\ IF Concat /\ flush # ZU_FINISH
           THEN Return(ZU_NEED_INPUT, pos, out) /\ UNCHANGED s
           ELSE Finish(IF s.probe /\ job.opts.reject THEN ZU_ERR_TRAILING ELSE ZU_STREAM_END)
  BY DEF MemberEndNoInput, InState, Along
<1>1. PICK q \in 0 .. N :
             /\ MemberEnded(job, q, out) /\ job \in Jobs
             /\ s.probe = TRUE => /\ pos = q + 1 /\ q + 1 < Len(job.input)
                                  /\ job.input[q + 1] = magic1 /\ Joins(job)
             /\ s.probe = FALSE => pos = q
  BY <1>0, BetweenIs
<1>2. Concat <=> Joins(job)
  BY DEF Concat, Joins
<1>3. CASE Concat /\ flush # ZU_FINISH
  <2>1. Return(ZU_NEED_INPUT, pos, out) /\ s' = s
    BY <1>0, <1>3
  <2>. QED  BY <1>3, <2>1, WaitTurns
<1>4. CASE ~(Concat /\ flush # ZU_FINISH)
  <2>1. s.probe = FALSE /\ (pos = N \/ ~Joins(job))
    <3>1. CASE ~Concat
      <4>1. s.probe # TRUE /\ s.probe \in BOOLEAN
        BY <1>0, <1>1, <1>2, <3>1, InCall
      <4>. QED  BY <1>2, <3>1, <4>1
    <3>2. CASE Concat
      <4>1. AvailIn = 0 /\ flush = ZU_FINISH
        BY <1>0, <1>4, <3>2
      <4>2. LoopInv
        BY DEF DecoderInv, DeflateInv
      <4>3. AvailIn = fed - pos /\ fed \in Nat /\ pos \in Nat /\ fed = N /\ N \in Nat
        BY <1>0, <4>1, <4>2, VisibleFacts, LoopFacts DEF LoopInv, CallInProgress
      <4>4. pos = N
        BY <4>1, <4>3
      <4>5. s.probe \in BOOLEAN
        BY <1>0, InCall
      <4>6. s.probe # TRUE
        <5>1. s.probe = TRUE => pos < N
          BY <1>1
        <5>. HIDE DEF N
        <5>2. ~(pos < N)
          BY ONLY <4>3, <4>4
        <5>. QED  BY ONLY <5>1, <5>2, Zenon
      <4>. QED  BY <4>4, <4>5, <4>6
    <3>. QED  BY <3>1, <3>2
  <2>2. Finish(ZU_STREAM_END) /\ pos = q
    BY <1>0, <1>1, <1>4, <2>1
  <2>3. pos < N => ~StartsMember(job, pos + 1)
    BY <1>1, <2>1, JobTypes DEF StartsMember, Joins
  <2>4. EndsAt(job, pos, out)
    BY <1>1, <2>2, <2>3, MemberEndsIt
  <2>. QED  BY <2>1, <2>2, <2>4, EndTurns DEF Finish
<1>. QED  BY <1>3, <1>4

\* Between members, with one byte or two to look at.
LEMMA MemberProbeAlong ==
    ASSUME DecoderInv, Along(job, fed, pos, out, s), MemberProbe
    PROVE  Turned(pos, out) \/ Turned(pos + 1, out)
<1>. DEFINE N == Len(job.input)
<1>0. /\ pc = "codec" /\ s.state = "MEMBER_END" /\ InBetween(job, pos, out, s)
      /\ Concat /\ AvailIn > 0 /\ ~s.probe
  BY DEF MemberProbe, InState, Along
<1>1. PICK q \in 0 .. N :
             /\ MemberEnded(job, q, out) /\ job \in Jobs
             /\ s.probe = TRUE => /\ pos = q + 1 /\ q + 1 < Len(job.input)
                                  /\ job.input[q + 1] = magic1 /\ Joins(job)
             /\ s.probe = FALSE => pos = q
  BY <1>0, BetweenIs
<1>2. /\ Joins(job) /\ job.wrap # "raw" /\ s.probe = FALSE /\ pos = q
      /\ s \in DeflateRecord /\ LoopInv
  BY <1>0, <1>1, InCall DEF Concat, Joins
<1>3. /\ AvailIn = fed - pos /\ fed \in Nat /\ pos \in Nat /\ fed <= N /\ N \in Nat
      /\ flush = ZU_FINISH <=> fed = N
  BY <1>0, <1>2, VisibleFacts, LoopFacts DEF LoopInv, CallInProgress
<1>. DEFINE a == Ahead(1)  b == Ahead(2)
<1>4. a = job.input[pos + 1] /\ b = job.input[(pos + 1) + 1]
  <2>1. pos + 2 = (pos + 1) + 1
    BY <1>3
  <2>. QED  BY <2>1 DEF Ahead
<1>5. \/ a # magic1 /\ Finish(ZU_STREAM_END)
      \/ /\ a = magic1 /\ AvailIn >= 2 /\ b = magic2
         /\ Continue(pos, out) /\ s' = NextMember
      \/ a = magic1 /\ AvailIn >= 2 /\ b # magic2 /\ Finish(ZU_STREAM_END)
      \/ a = magic1 /\ AvailIn = 1 /\ flush = ZU_FINISH /\ Finish(ZU_STREAM_END)
      \/ /\ a = magic1 /\ AvailIn = 1 /\ flush # ZU_FINISH
         /\ Return(ZU_NEED_INPUT, pos + 1, out) /\ s' = [s EXCEPT !.probe = TRUE]
  <2>1. (CASE a # magic1 -> Finish(ZU_STREAM_END)
          [] a = magic1 /\ AvailIn >= 2 ->
               IF b = magic2
                 THEN Continue(pos, out) /\ s' = NextMember
                 ELSE Finish(ZU_STREAM_END)
          [] a = magic1 /\ AvailIn = 1 /\ flush = ZU_FINISH ->
               Finish(ZU_STREAM_END)
          [] a = magic1 /\ AvailIn = 1 /\ flush # ZU_FINISH ->
               Return(ZU_NEED_INPUT, pos + 1, out) /\ s' = [s EXCEPT !.probe = TRUE])
    BY DEF MemberProbe
  <2>2. AvailIn >= 2 \/ AvailIn = 1
    BY <1>0, <1>3
  <2>3. ~(AvailIn >= 2 /\ AvailIn = 1)
    BY <1>3
  <2>. HIDE DEF a, b
  <2>4. CASE a # magic1
    BY <2>1, <2>4
  <2>5. CASE a = magic1 /\ AvailIn >= 2
    BY <2>1, <2>3, <2>5
  <2>6. CASE a = magic1 /\ AvailIn = 1 /\ flush = ZU_FINISH
    BY <2>1, <2>3, <2>6
  <2>7. CASE a = magic1 /\ AvailIn = 1 /\ flush # ZU_FINISH
    BY <2>1, <2>3, <2>7
  <2>. QED  BY <2>2, <2>4, <2>5, <2>6, <2>7
<1>. HIDE DEF a, b
<1>6. pos < N /\ fed > pos
  BY <1>0, <1>3
<1>7. ASSUME Finish(ZU_STREAM_END), ~StartsMember(job, pos + 1)
      PROVE  Turned(pos, out)
  <2>1. EndsAt(job, pos, out)
    BY <1>1, <1>2, <1>7, MemberEndsIt
  <2>2. Return(ZU_STREAM_END, pos, out)
    BY <1>7 DEF Finish
  <2>. QED  BY <1>6, <2>1, <2>2, EndTurns
<1>8. CASE a # magic1 /\ Finish(ZU_STREAM_END)
  <2>1. ~StartsMember(job, pos + 1)
    BY <1>4, <1>8 DEF StartsMember
  <2>. QED  BY <1>7, <1>8, <2>1
<1>9. CASE /\ a = magic1 /\ AvailIn >= 2 /\ b = magic2
           /\ Continue(pos, out) /\ s' = NextMember
  <2>1. pos + 1 < N
    BY <1>3, <1>9
  <2>2. StartsMember(job, pos + 1)
    BY <1>2, <1>4, <1>9, <2>1 DEF StartsMember, Joins
  <2>. QED  BY <1>0, <1>1, <1>2, <1>9, <2>2, NextMemberAlong
<1>10. CASE a = magic1 /\ AvailIn >= 2 /\ b # magic2 /\ Finish(ZU_STREAM_END)
  <2>1. ~StartsMember(job, pos + 1)
    BY <1>4, <1>10 DEF StartsMember
  <2>. QED  BY <1>7, <1>10, <2>1
<1>11. CASE a = magic1 /\ AvailIn = 1 /\ flush = ZU_FINISH /\ Finish(ZU_STREAM_END)
  <2>1. ~(pos + 1 < N)
    BY <1>3, <1>11
  <2>2. ~StartsMember(job, pos + 1)
    BY <2>1 DEF StartsMember
  <2>. QED  BY <1>7, <1>11, <2>2
<1>12. CASE /\ a = magic1 /\ AvailIn = 1 /\ flush # ZU_FINISH
            /\ Return(ZU_NEED_INPUT, pos + 1, out) /\ s' = [s EXCEPT !.probe = TRUE]
  <2>1. pos + 1 < N
    BY <1>3, <1>12
  <2>2. s'.state = "MEMBER_END" /\ s'.probe = TRUE
    BY <1>0, <1>2, <1>12 DEF DeflateRecord
  <2>3. InBetween(job, pos + 1, out, s')
    <3>1. pos + 1 = q + 1 /\ job.input[pos + 1] = magic1
      BY <1>2, <1>4, <1>12
    <3>. QED  BY <1>1, <1>2, <2>1, <2>2, <3>1 DEF InBetween
  <2>4. Along(job, fed, pos + 1, out, s')
    BY <2>2, <2>3 DEF Along
  <2>. QED  BY <1>12, <2>4, WaitTurns
<1>. QED  BY <1>5, <1>8, <1>9, <1>10, <1>11, <1>12

\* Between members, with the first of two bytes held.
LEMMA MemberProbeHeldAlong ==
    ASSUME DecoderInv, Along(job, fed, pos, out, s), MemberProbeHeld
    PROVE  Turned(pos, out)
<1>. DEFINE N == Len(job.input)
<1>0. /\ pc = "codec" /\ s.state = "MEMBER_END" /\ InBetween(job, pos, out, s)
      /\ Concat /\ AvailIn > 0 /\ s.probe
      /\ IF Ahead(1) = magic2 THEN Continue(pos, out) /\ s' = NextMember
                              ELSE Finish(ZU_STREAM_END)
  BY DEF MemberProbeHeld, InState, Along
<1>1. PICK q \in 0 .. N :
             /\ MemberEnded(job, q, out) /\ job \in Jobs
             /\ s.probe = TRUE => /\ pos = q + 1 /\ q + 1 < Len(job.input)
                                  /\ job.input[q + 1] = magic1 /\ Joins(job)
             /\ s.probe = FALSE => pos = q
  BY <1>0, BetweenIs
<1>2. s.probe = TRUE /\ LoopInv
  BY <1>0, InCall
<1>3. pos = q + 1 /\ q + 1 < N /\ job.input[q + 1] = magic1 /\ Joins(job)
  BY <1>1, <1>2
<1>4. AvailIn = fed - pos /\ fed \in Nat /\ pos \in Nat
  BY <1>0, <1>2, VisibleFacts, LoopFacts
<1>5. Ahead(1) = job.input[(q + 1) + 1] /\ fed > pos
  BY <1>0, <1>3, <1>4 DEF Ahead
<1>6. CASE Ahead(1) = magic2
  <2>1. StartsMember(job, q + 1)
    BY <1>3, <1>5, <1>6 DEF StartsMember, Joins
  <2>2. Continue(pos, out) /\ s' = NextMember
    BY <1>0, <1>6
  <2>3. s.probe = FALSE => pos = q
    BY <1>2
  <2>. QED  BY <1>0, <1>1, <1>3, <2>1, <2>2, <2>3, NextMemberAlong
<1>7. CASE Ahead(1) # magic2
  <2>1. ~StartsMember(job, q + 1)
    BY <1>5, <1>7 DEF StartsMember
  <2>2. EndsAt(job, pos, out)
    BY <1>1, <1>3, <2>1, HeldEndsIt
  <2>3. Return(ZU_STREAM_END, pos, out)
    BY <1>0, <1>7 DEF Finish
  <2>. QED  BY <1>5, <2>2, <2>3, EndTurns
<1>. QED  BY <1>6, <1>7

\* Every turn of the codec keeps it along its stream.
LEMMA CodecTurns ==
    ASSUME DecoderInv, Along(job, fed, pos, out, s), CodecStep
    PROVE  pc = "codec" /\ \E p, o : Advance(p, o) /\ Turned(p, o)
<1>1. pc = "codec"
  BY DEF CodecStep, HeaderStarved, GzipHeaderByte, ZlibHeaderByte, ZlibHeaderCheck, Body,
         TrailerStarved, TrailerByte, TrailerCheck, MemberEndNoInput, MemberProbe,
         MemberProbeHeld, InState
<1>2. \E p, o : Turned(p, o)
  BY HeaderStarvedAlong, GzipHeaderByteAlong, ZlibHeaderByteAlong, ZlibHeaderCheckAlong,
     BodyAlong, TrailerStarvedAlong, TrailerByteAlong, TrailerCheckAlong,
     MemberEndNoInputAlong, MemberProbeAlong, MemberProbeHeldAlong DEF CodecStep
<1>3. PICK p, o : Turned(p, o)
  BY <1>2
<1>4. pos' = p /\ out' = o
  BY <1>3 DEF Turned, Continue, Return
<1>5. PICK p1, o1 : Advance(p1, o1) /\ (Continue(p1, o1) \/ \E st \in Status : Return(st, p1, o1))
  <2>1. Kept
    BY StarvedSteps, GzipHeaderByteStep, ZlibHeaderByteStep, ZlibHeaderCheckStep, BodyStep,
       TrailerByteStep, TrailerCheckStep, MemberSteps DEF CodecStep
  <2>. QED  BY <2>1 DEF Kept, CodecMoves
<1>6. pos' = p1 /\ out' = o1
  BY <1>5 DEF Continue, Return
<1>. QED  BY <1>1, <1>3, <1>4, <1>5, <1>6

----------------------------------------------------------------------------
(***************************************************************************)
(* The end of the decode.                                                  *)
(***************************************************************************)
\* What begins a sequence is a prefix of it.
LEMMA HeldIsPrefix ==
    ASSUME NEW r, r \in RefRecord, NEW o, o \in Seq(Nat), Held(r, o)
    PROVE  IsPrefix(o, r.out) /\ Len(o) <= Len(r.out) /\ Len(o) \in Nat /\ Len(r.out) \in Nat
<1>1. PICK u \in Seq(Nat) : r.out = o \o u
  BY DEF Held
<1>. DEFINE t == r.out
<1>2. t \in Seq(Nat) /\ t = o \o u
  BY <1>1 DEF RefRecord
<1>. HIDE DEF t
<1>3. /\ Len(t) = Len(o) + Len(u) /\ Len(o) \in Nat /\ Len(u) \in Nat /\ Len(t) \in Nat
      /\ \A i \in 1 .. Len(o) : t[i] = o[i]
  <2>1. /\ Len(o \o u) = Len(o) + Len(u) /\ Len(o) \in Nat /\ Len(u) \in Nat
    BY Joined
  <2>2. \A i \in 1 .. Len(o) : (o \o u)[i] = o[i]
    BY o \in Seq(Nat), u \in Seq(Nat)
  <2>. QED  BY <1>2, <2>1, <2>2
<1>4. Len(o) <= Len(t)
  <2>. DEFINE a == Len(o)  b == Len(u)  c == Len(t)
  <2>. HIDE DEF a, b, c
  <2>1. c = a + b /\ a \in Nat /\ b \in Nat
    BY <1>3 DEF a, b, c
  <2>2. a <= c
    BY ONLY <2>1
  <2>. QED  BY <2>2 DEF a, c
<1>5. SubSeq(o, 1, Len(o)) = SubSeq(t, 1, Len(o))
  <2>. DEFINE n == Len(o)
  <2>1. n \in Nat /\ n <= Len(t)
    BY <1>3, <1>4
  <2>. HIDE DEF n
  <2>2. \A i \in 1 .. n : o[i] = t[i]
    BY <1>3 DEF n
  <2>3. SubSeq(o, 1, n) = [i \in 1 .. n |-> o[i]] /\ SubSeq(t, 1, n) = [i \in 1 .. n |-> t[i]]
    BY <1>2, <2>1, n = Len(o) DEF n
  <2>. QED  BY <2>2, <2>3 DEF n
<1>. QED  BY <1>3, <1>4, <1>5 DEF IsPrefix, t

\* And of what that begins.
LEMMA HeldOn ==
    ASSUME NEW r, r \in RefRecord, NEW q, Grown(r, q), NEW o, o \in Seq(Nat), Held(r, o)
    PROVE  Held(q, o)
<1>1. PICK u \in Seq(Nat) : r.out = o \o u
  BY DEF Held
<1>2. PICK v \in Seq(Nat) : q.out = r.out \o v
  BY DEF Grown
<1>3. q.out = o \o (u \o v)
  BY <1>1, <1>2, JoinedAgain
<1>4. u \o v \in Seq(Nat)
  BY Joined
<1>. QED  BY <1>3, <1>4 DEF Held

\* All of it begins it, and nothing does.
LEMMA HeldAll ==
    ASSUME NEW r, r \in RefRecord, NEW o, o \in Seq(Nat), o = r.out \/ o = <<>>
    PROVE  Held(r, o)
<1>1. r.out \in Seq(Nat)
  BY DEF RefRecord
<1>2. r.out \o <<>> = r.out /\ <<>> \in Seq(Nat)
  BY <1>1, NothingJoined
<1>3. <<>> \o r.out = r.out
  BY <1>1, ConcatEmptySeq
<1>. QED  BY <1>1, <1>2, <1>3 DEF Held

\* A decoder along its stream has handed over only the stream's bytes.
LEMMA AlongHeld ==
    ASSUME NEW j \in Jobs, NEW p \in 0 .. Len(j.input), NEW f, NEW o, o \in Seq(Nat),
           NEW st, st \in DeflateRecord, j.wrap # "raw" \/ st.state # "HEADER", Along(j, f, p, o, st)
    PROVE  Held(ReferenceOf(j), o)
<1>0. /\ Len(j.input) \in Nat /\ p \in Nat
      /\ st.state \in {"HEADER", "BODY", "TRAILER", "MEMBER_END", "DONE"}
      /\ j.wrap \in {"raw", "zlib", "gzip"}
  BY JobTypes, WrapAssumption DEF DeflateRecord
<1>1. ASSUME NEW i \in 0 .. Len(j.input), Held(Readings(j)[i], o)
      PROVE  Held(ReferenceOf(j), o)
  <2>1. Readings(j)[i] \in RefRecord /\ Grown(Readings(j)[i], ReferenceOf(j))
    BY ReferenceGrows
  <2>. QED  BY <1>1, <2>1, HeldOn
<1>2. ASSUME NEW i \in 0 .. Len(j.input), Readings(j)[i].out = o
      PROVE  Held(ReferenceOf(j), o)
  <2>1. Readings(j)[i] \in RefRecord
    BY ReadingsAre
  <2>. QED  BY <1>1, <1>2, <2>1, HeldAll
<1>3. CASE st.state = "HEADER"
  <2>1. InHeader(j, p, o, st)
    BY <1>3 DEF Along
  <2>2. CASE j.wrap = "zlib"
    <3>1. o = <<>>
      BY <2>1, <2>2 DEF InHeader
    <3>2. ReferenceOf(j) \in RefRecord
      BY ReferenceGrows
    <3>. QED  BY <3>1, <3>2, HeldAll
  <2>3. CASE j.wrap = "gzip"
    <3>1. PICK m \in 0 .. Len(j.input), h \in 1 .. Len(j.input) + 1 : HeaderAt(j, m, h, p, o, st)
      BY <2>1, <2>3 DEF InHeader
    <3>2. Readings(j)[m].out = o
      BY <3>1 DEF HeaderAt
    <3>. QED  BY <1>2, <3>2
  <2>. QED  BY <1>0, <1>3, <2>2, <2>3
<1>4. CASE st.state = "BODY"
  <2>1. Readings(j)[p].out = o \o st.mz.pend /\ st.mz.pend \in Seq(Nat)
    BY <1>4 DEF Along, InBody, BodyAt, DeflateRecord, MzRecord
  <2>2. Held(Readings(j)[p], o)
    BY <2>1 DEF Held
  <2>. QED  BY <1>1, <2>2
<1>5. CASE st.state = "TRAILER"
  <2>. DEFINE q == p - Len(st.tail)
  <2>1. Len(st.tail) <= p /\ Readings(j)[q].out = o
    BY <1>5 DEF Along, InTrailer
  <2>2. q \in 0 .. Len(j.input)
    <3>1. st.tail \in Seq(STRING \X Nat)
      BY DEF DeflateRecord
    <3>. DEFINE l == Len(st.tail)  N == Len(j.input)
    <3>2. l \in Nat /\ l <= p /\ N \in Nat /\ p \in 0 .. N
      BY <1>0, <2>1, <3>1
    <3>. HIDE DEF l, N
    <3>3. p - l \in 0 .. N
      BY ONLY <3>2
    <3>. QED  BY <3>3 DEF l, N
  <2>. QED  BY <1>2, <2>1, <2>2
<1>6. CASE st.state = "MEMBER_END"
  <2>1. PICK q \in 0 .. Len(j.input) : MemberEnded(j, q, o)
    BY <1>6 DEF Along, InBetween
  <2>. QED  BY <1>2, <2>1 DEF MemberEnded
<1>7. st.state # "DONE"
  BY DEF Along
<1>. QED  BY <1>0, <1>3, <1>4, <1>5, <1>6, <1>7

\* A raw stream has no header.
LEMMA RawHasNone ==
    ASSUME NEW j, NEW f, NEW p, NEW o, NEW st, Along(j, f, p, o, st)
    PROVE  j.wrap # "raw" \/ st.state # "HEADER"
BY DEF Along, InHeader

\* And so after every turn.
LEMMA TurnHeld ==
    ASSUME DecoderInv, Along(job, fed, pos, out, s), CodecStep
    PROVE  Held(ReferenceOf(job), out')
<1>1. pc = "codec"
  BY CodecTurns
<1>2. LoopInv /\ s \in DeflateRecord
  BY <1>1, InCall
<1>3. /\ job \in Jobs /\ pos \in Nat /\ fed \in Nat /\ pos <= fed /\ fed <= Len(job.input)
      /\ Len(job.input) \in Nat /\ out \in Seq(Nat)
  BY <1>2, LoopFacts
<1>4. pos \in 0 .. Len(job.input)
  BY <1>3
<1>5. CASE Body
  <2>. DEFINE r == Inflating  p == pos + r.used  o == out \o r.bytes
  <2>1. InBody(job, fed, pos, out, s)
    BY <1>5 DEF Body, InState, Along
  <2>2. MzRight(r, p, o, Counted(s.sum, r.bytes)) /\ InflatedOk(r, AvailIn, AvailOut)
    BY <1>1, <2>1, BodyReads
  <2>3. Held(Readings(job)[p], o)
    BY <2>2 DEF MzRight
  <2>4. Turned(p, o)
    BY <1>5, BodyAlong
  <2>5. out' = o
    BY <2>4 DEF Turned, Continue, Return
  <2>6. p \in 0 .. Len(job.input)
    <3>1. AvailIn \in Nat /\ \A k \in 0 .. AvailIn : pos + k \in pos .. fed
      BY <1>1, <1>2, VisibleFacts
    <3>2. r.used \in 0 .. AvailIn
      BY <2>2 DEF InflatedOk
    <3>3. p \in pos .. fed
      BY <3>1, <3>2
    <3>. HIDE DEF p
    <3>. QED  BY <1>3, <3>3
  <2>7. o \in Seq(Nat)
    <3>1. r.bytes \in Seq(Nat)
      BY <2>2 DEF InflatedOk
    <3>. QED  BY <1>3, <3>1, Joined
  <2>8. Readings(job)[p] \in RefRecord /\ Grown(Readings(job)[p], ReferenceOf(job))
    BY <1>3, <2>6, ReferenceGrows
  <2>. HIDE DEF p, o
  <2>. QED  BY <2>3, <2>5, <2>7, <2>8, HeldOn
<1>6. CASE ~Body
  <2>1. \E p : Turned(p, out)
    BY <1>6, HeaderStarvedAlong, GzipHeaderByteAlong, ZlibHeaderByteAlong, ZlibHeaderCheckAlong,
       TrailerStarvedAlong, TrailerByteAlong, TrailerCheckAlong,
       MemberEndNoInputAlong, MemberProbeAlong, MemberProbeHeldAlong DEF CodecStep
  <2>2. out' = out
    BY <2>1 DEF Turned, Continue, Return
  <2>3. Held(ReferenceOf(job), out)
    BY <1>2, <1>3, <1>4, RawHasNone, AlongHeld
  <2>. QED  BY <2>2, <2>3
<1>. QED  BY <1>5, <1>6

\* The stream's verdict, or the end with a tail that was never offered.
RightAnswer(res) ==
    LET r == ReferenceOf(job)
    IN  \/ res = VerdictOn(job, r)
        \/ /\ ~Concat /\ r.end % job.in_chunk = 0
           /\ VerdictOn(job, r) = ZU_ERR_TRAILING /\ res = ZU_STREAM_END

\* The end as the loop reports it.
RightEnd(p, o) ==
    LET r == ReferenceOf(job)
    IN  /\ o = r.out
        /\ job.opts.has_expected => Len(o) = job.opts.expected_size
        /\ \/ p = r.end
           \/ p = r.end + 1 /\ job.input[r.end + 1] = magic1 /\ Len(job.input) >= r.end + 2

\* A limit that the stream reaches.
RightLimit(res) ==
    LET r == ReferenceOf(job)
    IN  \/ /\ res = ZU_ERR_OUTPUT_LIMIT /\ job.opts.max_output # 0
           /\ Len(r.out) >= job.opts.max_output
        \/ /\ res = ZU_ERR_INVALID_DATA /\ job.opts.has_expected
           /\ \/ Len(r.out) >= job.opts.expected_size
              \/ VerdictOn(job, r) \in {ZU_STREAM_END, ZU_ERR_TRAILING}
        \/ res = ZU_ERR_RATIO_LIMIT /\ job.opts.max_ratio # 0

WholeRight(res, p, o) ==
    /\ res = ZU_STREAM_END => RightAnswer(res) /\ RightEnd(p, o)
    /\ RightAnswer(res) \/ RightLimit(res)

\* Of the end of a stream, the verdict on it.
LEMMA EndVerdict ==
    ASSUME NEW j \in Jobs, NEW p, NEW o, EndsAt(j, p, o)
    PROVE  LET r == ReferenceOf(j)
           IN  /\ o = r.out
               /\ VerdictOn(j, r) \in {ZU_STREAM_END, ZU_ERR_TRAILING}
               /\ p = Len(j.input) => VerdictOn(j, r) = ZU_STREAM_END
               /\ p # Len(j.input) =>
                    VerdictOn(j, r) = IF j.opts.reject THEN ZU_ERR_TRAILING ELSE ZU_STREAM_END
               /\ ~Joins(j) => p = r.end
               /\ \/ p = r.end
                  \/ p = r.end + 1 /\ j.input[r.end + 1] = magic1 /\ p < Len(j.input)
<1>. DEFINE r == ReferenceOf(j)  N == Len(j.input)
<1>1. /\ r.err = ZU_OK /\ r.out = o
      /\ \/ p = r.end /\ r.phase = IF p = N THEN "between" ELSE "tail"
         \/ /\ p = r.end + 1 /\ p < N /\ j.input[p] = magic1 /\ Joins(j) /\ r.phase = "tail"
  BY DEF EndsAt
<1>2. /\ r.phase = "between" => VerdictOn(j, r) = ZU_STREAM_END
      /\ r.phase = "tail" => VerdictOn(j, r) = IF j.opts.reject THEN ZU_ERR_TRAILING ELSE ZU_STREAM_END
  BY <1>1, VerdictIs
<1>3. N \in Nat /\ r.end \in Nat
  <2>1. 0 \in 0 .. N /\ N \in Nat
    BY JobTypes
  <2>2. r \in RefRecord
    BY <2>1, ReferenceGrows
  <2>. QED  BY <2>1, <2>2 DEF RefRecord
<1>. HIDE DEF r, N
<1>4. p < N => p # N
  BY <1>1, <1>3
<1>5. r.phase = IF p = N THEN "between" ELSE "tail"
  BY <1>1, <1>4
<1>. DEFINE v == VerdictOn(j, r)
<1>6. v = IF p = N THEN ZU_STREAM_END ELSE IF j.opts.reject THEN ZU_ERR_TRAILING ELSE ZU_STREAM_END
  BY <1>2, <1>5
<1>. HIDE DEF v
<1>. QED  BY <1>1, <1>6 DEF r, N, v

\* When the driver stops at the ceiling, the stream reaches it.
LEMMA CeilingReached ==
    ASSUME LoopInv, pc = "codec", NEW p, NEW o, Advance(p, o), call.capped,
           NEW r, r \in RefRecord, Held(r, o),
           Len(o) - call.out = call.allowance \/ call.allowance = 0
    PROVE  HasCeiling(job.opts) /\ Len(r.out) >= Ceiling(job.opts)
<1>. DEFINE a == Len(o)  b == Len(r.out)  k == call.out  c == Ceiling(job.opts)  m == call.allowance
<1>1. /\ a \in Nat /\ k \in Nat /\ m \in Nat /\ k <= a /\ a <= k + m /\ HasCeiling(job.opts)
      /\ k + m = c
  BY ReturnPlaces
<1>2. a <= b /\ b \in Nat
  BY ReturnPlaces, HeldIsPrefix
<1>3. a - k = m \/ m = 0
  OBVIOUS
<1>. HIDE DEF a, b, k, c, m
<1>4. b >= c
  BY ONLY <1>1, <1>2, <1>3
<1>. QED  BY <1>1, <1>4 DEF b, c

\* A return that ends a whole-buffer decode answers rightly.
LEMMA WholeCloses ==
    ASSUME LoopInv, pc = "codec", Whole, fed < Len(job.input) => fed % job.in_chunk = 0,
           NEW p, NEW o, NEW st \in Status, Advance(p, o), Return(st, p, o),
           Judged(job, fed, flush, call.out + call.allowance, st, p, o),
           Held(ReferenceOf(job), o), result' # Running
    PROVE  WholeRight(result', p, o)
<1>. DEFINE r == ReferenceOf(job)  v == VerdictOn(job, r)  n == Len(o)  N == Len(job.input)
            opts == job.opts  m == Len(r.out)
<1>1. PICK c, d : ReturnedWith(c, d, st, p, o)
  BY ReturnDecides
<1>2. /\ p \in Nat /\ fed \in Nat /\ p <= fed /\ fed <= N /\ N \in Nat
      /\ job \in Jobs /\ o \in Seq(Nat) /\ n \in Nat /\ opts \in LimitOpts
      /\ flush = ZU_FINISH <=> fed = N
  BY ReturnPlaces
<1>3. r \in RefRecord
  <2>1. 0 \in 0 .. Len(job.input)
    BY <1>2
  <2>. QED  BY <1>2, <2>1, ReferenceGrows
<1>4. n <= m /\ m \in Nat
  BY <1>2, <1>3, HeldIsPrefix
<1>5. opts.max_output \in Nat /\ opts.expected_size \in Nat
  BY <1>2, U64MaxAssumption DEF LimitOpts
<1>6. result' = WholeResult(d, o)
  BY <1>1 DEF ReturnedWith
<1>7. Decides(opts, c, d) /\ c.st = st /\ c.left = fed - p /\ c.total_out = n
      /\ c.capped = call.capped /\ c.allowance = call.allowance /\ c.produced = n - call.out
  BY <1>1 DEF ReturnedWith
<1>8. st = ZU_STREAM_END =>
         /\ o = r.out /\ v \in {ZU_STREAM_END, ZU_ERR_TRAILING}
         /\ p = N => v = ZU_STREAM_END
         /\ p # N => v = IF opts.reject THEN ZU_ERR_TRAILING ELSE ZU_STREAM_END
         /\ ~Joins(job) => p = r.end
         /\ \/ p = r.end
            \/ p = r.end + 1 /\ job.input[r.end + 1] = magic1 /\ p < N
         /\ Joins(job) => fed > p \/ p = N
  BY <1>2, EndVerdict DEF Judged
<1>9. st \in Errors => v = st
  BY DEF Judged
<1>10. st = ZU_NEED_INPUT => fed # N
  BY <1>2 DEF Judged
<1>11. /\ RightAnswer(result') <=>
            \/ result' = v
            \/ ~Joins(job) /\ r.end % job.in_chunk = 0 /\ v = ZU_ERR_TRAILING /\ result' = ZU_STREAM_END
       /\ RightLimit(result') <=>
            \/ result' = ZU_ERR_OUTPUT_LIMIT /\ opts.max_output # 0 /\ m >= opts.max_output
            \/ /\ result' = ZU_ERR_INVALID_DATA /\ opts.has_expected
               /\ m >= opts.expected_size \/ v \in {ZU_STREAM_END, ZU_ERR_TRAILING}
            \/ result' = ZU_ERR_RATIO_LIMIT /\ opts.max_ratio # 0
  BY DEF RightAnswer, RightLimit, Concat, Joins
<1>12. ASSUME c.capped, c.st # ZU_STREAM_END, d = OverStatus(opts),
              (c.st = ZU_NEED_OUTPUT /\ c.produced = c.allowance) \/ c.allowance = 0
       PROVE  /\ \/ d = ZU_ERR_INVALID_DATA /\ opts.has_expected /\ m >= opts.expected_size
                 \/ d = ZU_ERR_OUTPUT_LIMIT /\ opts.max_output # 0 /\ m >= opts.max_output
  <2>1. HasCeiling(opts) /\ m >= Ceiling(opts)
    <3>1. Len(o) - call.out = call.allowance \/ call.allowance = 0
      BY <1>7, <1>12
    <3>2. call.capped
      BY <1>7, <1>12
    <3>. HIDE DEF r
    <3>. QED  BY <1>3, <3>1, <3>2, CeilingReached DEF r
  <2>. QED  BY <1>2, <1>12, <2>1, OverIs
<1>. HIDE DEF r, v, n, N, opts, m
<1>13. d \in Errors => result' = d
  BY <1>6, Words DEF WholeResult, Progress
<1>14. d = ZU_STREAM_END => result' = d
  BY <1>6 DEF WholeResult
<1>15. result' = ZU_STREAM_END => d = ZU_STREAM_END
  BY <1>6, Words DEF WholeResult, Progress
<1>16. CASE c.st = ZU_STREAM_END /\ opts.has_expected /\ d = ZU_ERR_INVALID_DATA
  <2>1. result' = ZU_ERR_INVALID_DATA /\ result' # ZU_STREAM_END
    BY <1>13, <1>16, Words
  <2>. QED  BY <1>7, <1>8, <1>11, <1>16, <2>1 DEF WholeRight
<1>17. CASE c.st = ZU_STREAM_END /\ c.left > 0 /\ opts.reject /\ d = ZU_ERR_TRAILING
  <2>1. result' = ZU_ERR_TRAILING /\ result' # ZU_STREAM_END
    BY <1>13, <1>17, Words
  <2>2. p # N
    BY <1>2, <1>7, <1>17
  <2>. QED  BY <1>7, <1>8, <1>11, <1>17, <2>1, <2>2 DEF WholeRight
<1>18. CASE /\ c.capped /\ c.st # ZU_STREAM_END /\ d = OverStatus(opts)
            /\ (c.st = ZU_NEED_OUTPUT /\ c.produced = c.allowance) \/ c.allowance = 0
  <2>1. \/ d = ZU_ERR_INVALID_DATA /\ opts.has_expected /\ m >= opts.expected_size
        \/ d = ZU_ERR_OUTPUT_LIMIT /\ opts.max_output # 0 /\ m >= opts.max_output
    BY <1>12, <1>18
  <2>2. result' = d /\ result' # ZU_STREAM_END
    BY <1>13, <2>1, Words
  <2>. QED  BY <1>11, <2>1, <2>2 DEF WholeRight
<1>19. CASE opts.max_output # 0 /\ c.total_out > opts.max_output /\ d = ZU_ERR_OUTPUT_LIMIT
  <2>1. result' = d /\ result' # ZU_STREAM_END
    BY <1>13, <1>19, Words
  <2>2. m >= opts.max_output
    BY <1>2, <1>4, <1>5, <1>7, <1>19
  <2>. QED  BY <1>11, <1>19, <2>1, <2>2 DEF WholeRight
<1>20. CASE opts.has_expected /\ c.total_out > opts.expected_size /\ d = ZU_ERR_INVALID_DATA
  <2>1. result' = d /\ result' # ZU_STREAM_END
    BY <1>13, <1>20, Words
  <2>2. m >= opts.expected_size
    BY <1>2, <1>4, <1>5, <1>7, <1>20
  <2>. QED  BY <1>11, <1>20, <2>1, <2>2 DEF WholeRight
<1>21. CASE opts.max_ratio # 0 /\ d = ZU_ERR_RATIO_LIMIT
  <2>1. result' = d /\ result' # ZU_STREAM_END
    BY <1>13, <1>21, Words
  <2>. QED  BY <1>11, <1>21, <2>1 DEF WholeRight
<1>22. CASE /\ d = c.st
            /\ c.st = ZU_STREAM_END => /\ opts.has_expected => c.total_out = opts.expected_size
                                       /\ ~(c.left > 0 /\ opts.reject)
  <2>1. d = st
    BY <1>7, <1>22
  <2>2. CASE st \in Errors
    <3>1. result' = v /\ result' # ZU_STREAM_END
      BY <1>9, <1>13, <2>1, <2>2, Words
    <3>. QED  BY <1>11, <3>1 DEF WholeRight
  <2>3. CASE st = ZU_STREAM_END
    <3>1. result' = ZU_STREAM_END
      BY <1>14, <2>1, <2>3
    <3>2. RightEnd(p, o)
      <4>1. opts.has_expected => n = opts.expected_size
        BY <1>7, <1>22, <2>3
      <4>2. \/ p = r.end
            \/ p = r.end + 1 /\ job.input[r.end + 1] = magic1 /\ N >= r.end + 2
        <5>1. r.end \in Nat
          BY <1>3 DEF RefRecord
        <5>. QED  BY <1>2, <1>8, <2>3, <5>1
      <4>. QED  BY <1>8, <2>3, <4>1, <4>2 DEF RightEnd, opts, n, r, N
    <3>3. RightAnswer(result')
      <4>1. CASE p = N \/ ~opts.reject
        BY <1>8, <1>11, <2>3, <3>1, <4>1
      <4>2. CASE p # N /\ opts.reject
        <5>1. v = ZU_ERR_TRAILING
          BY <1>8, <2>3, <4>2
        <5>2. p = fed
          BY <1>2, <1>7, <1>22, <2>3, <4>2
        <5>3. ~Joins(job) /\ p = r.end /\ fed < N
          BY <1>2, <1>8, <2>3, <4>2, <5>2
        <5>4. r.end % job.in_chunk = 0
          BY <5>2, <5>3 DEF N
        <5>. QED  BY <1>11, <3>1, <5>1, <5>3, <5>4
      <4>. QED  BY <4>1, <4>2
    <3>. QED  BY <3>2, <3>3 DEF WholeRight
  <2>4. CASE st \in {ZU_NEED_INPUT, ZU_NEED_OUTPUT, ZU_OK}
    <3>1. st = ZU_NEED_INPUT => ~(fed >= Len(job.input))
      BY <1>2, <1>10 DEF N
    <3>2. result' = Running
      BY <1>6, <2>1, <2>4, <3>1, Words DEF WholeResult, Progress
    <3>. QED  BY <3>2
  <2>. QED  BY <2>2, <2>3, <2>4 DEF Status, Progress
<1>. QED  BY <1>7, <1>16, <1>17, <1>18, <1>19, <1>20, <1>21, <1>22 DEF Decides

\* What a one-shot call of this stream gives.
OneShotGives(res, o) ==
    LET r == ReferenceOf(job)
    IN  IF VerdictOn(job, r) = ZU_STREAM_END
          THEN IF Len(r.out) <= job.out_chunk THEN res = ZU_OK /\ o = r.out
               ELSE res = ZU_ERR_OUTPUT_LIMIT
          ELSE \/ res = VerdictOn(job, r)
               \/ res = ZU_ERR_OUTPUT_LIMIT /\ Len(r.out) >= job.out_chunk

\* A return that ends a one-shot decode without limits gives it.
LEMMA OneShotCloses ==
    ASSUME LoopInv, pc = "codec", ~Whole, fed = Len(job.input), Unlimited,
           NEW p, NEW o, NEW st \in Status, Advance(p, o), Return(st, p, o),
           Judged(job, fed, flush, call.out + call.allowance, st, p, o),
           Held(ReferenceOf(job), o), result' # Running
    PROVE  OneShotGives(result', o)
<1>. DEFINE r == ReferenceOf(job)  v == VerdictOn(job, r)  n == Len(o)  N == Len(job.input)
            opts == job.opts  m == Len(r.out)  cap == job.out_chunk
<1>1. PICK c, d : ReturnedWith(c, d, st, p, o)
  BY ReturnDecides
<1>2. /\ p \in Nat /\ fed \in Nat /\ p <= fed /\ fed = N /\ N \in Nat
      /\ job \in Jobs /\ o \in Seq(Nat) /\ n \in Nat /\ opts \in LimitOpts
      /\ flush = ZU_FINISH /\ cap \in Nat
  BY ReturnPlaces
<1>3. r \in RefRecord
  <2>1. 0 \in 0 .. Len(job.input)
    BY <1>2
  <2>. QED  BY <1>2, <2>1, ReferenceGrows
<1>4. n <= m /\ m \in Nat
  BY <1>2, <1>3, HeldIsPrefix
<1>5. opts.max_output = 0 /\ opts.has_expected = FALSE /\ opts.max_ratio = 0
  BY <1>2 DEF Unlimited, HasCeiling, LimitOpts
<1>6. result' = OneShotResult(d, p, o)
  BY <1>1 DEF ReturnedWith
<1>7. Decides(opts, c, d) /\ c.st = st /\ c.left = fed - p /\ c.capped = call.capped
  BY <1>1 DEF ReturnedWith
<1>8. call.capped = FALSE /\ call.out + call.allowance = cap /\ n <= cap
  <2>1. call.capped = FALSE
    BY ReturnPlaces DEF Unlimited
  <2>. QED  BY <2>1, ReturnPlaces
<1>9. st = ZU_STREAM_END =>
         /\ o = r.out /\ v \in {ZU_STREAM_END, ZU_ERR_TRAILING}
         /\ p = N => v = ZU_STREAM_END
         /\ p # N => v = IF opts.reject THEN ZU_ERR_TRAILING ELSE ZU_STREAM_END
  BY <1>2, EndVerdict DEF Judged
<1>10. st \in Errors => v = st
  BY DEF Judged
<1>11. st # ZU_NEED_INPUT /\ st # ZU_OK
  BY <1>2 DEF Judged
<1>12. st = ZU_NEED_OUTPUT => n = cap /\ (m > n \/ v # ZU_STREAM_END)
  BY <1>2, <1>8 DEF Judged
<1>13. OneShotGives(result', o) <=>
         IF v = ZU_STREAM_END
          THEN IF m <= cap THEN result' = ZU_OK /\ o = r.out ELSE result' = ZU_ERR_OUTPUT_LIMIT
          ELSE result' = v \/ (result' = ZU_ERR_OUTPUT_LIMIT /\ m >= cap)
  BY DEF OneShotGives
<1>14. st = ZU_STREAM_END => m = n
  BY <1>9
<1>15. st = ZU_NEED_OUTPUT /\ d = st => result' = ZU_ERR_OUTPUT_LIMIT
  BY <1>6, <1>12, Words DEF OneShotResult, Progress
<1>. HIDE DEF r, v, n, N, opts, m, cap
<1>16. d \in Errors => result' = d
  BY <1>6, Words DEF OneShotResult, Progress
<1>17. d = ZU_STREAM_END => result' = ZU_OK
  BY <1>6 DEF OneShotResult
<1>18. \/ c.st = ZU_STREAM_END /\ c.left > 0 /\ opts.reject /\ d = ZU_ERR_TRAILING
       \/ d = c.st /\ (c.st = ZU_STREAM_END => ~(c.left > 0 /\ opts.reject))
  BY <1>5, <1>7, <1>8 DEF Decides
<1>19. CASE c.st = ZU_STREAM_END /\ c.left > 0 /\ opts.reject /\ d = ZU_ERR_TRAILING
  <2>1. p # N
    BY <1>2, <1>7, <1>19
  <2>2. v = ZU_ERR_TRAILING /\ result' = ZU_ERR_TRAILING
    BY <1>7, <1>9, <1>16, <1>19, <2>1, Words
  <2>. QED  BY <1>13, <2>2, Words
<1>20. CASE d = c.st /\ (c.st = ZU_STREAM_END => ~(c.left > 0 /\ opts.reject))
  <2>1. d = st
    BY <1>7, <1>20
  <2>2. CASE st \in Errors
    <3>1. result' = v /\ v # ZU_STREAM_END
      BY <1>10, <1>16, <2>1, <2>2, Words
    <3>. QED  BY <1>13, <3>1
  <2>3. CASE st = ZU_STREAM_END
    <3>1. v = ZU_STREAM_END
      <4>1. CASE p = N \/ ~opts.reject
        BY <1>9, <2>3, <4>1
      <4>2. CASE p # N /\ opts.reject
        BY <1>2, <1>7, <1>20, <2>3, <4>2
      <4>. QED  BY <4>1, <4>2
    <3>2. result' = ZU_OK /\ o = r.out /\ m <= cap
      BY <1>8, <1>9, <1>14, <1>17, <2>1, <2>3
    <3>. QED  BY <1>13, <3>1, <3>2
  <2>4. CASE st = ZU_NEED_OUTPUT
    <3>1. result' = ZU_ERR_OUTPUT_LIMIT /\ n = cap /\ (m > n \/ v # ZU_STREAM_END)
      BY <1>12, <1>15, <2>1, <2>4
    <3>2. m >= cap /\ (m > n => ~(m <= cap))
      BY <1>2, <1>4, <3>1
    <3>. QED  BY <1>13, <3>1, <3>2
  <2>. QED  BY <1>11, <2>2, <2>3, <2>4 DEF Status, Progress
<1>. QED  BY <1>18, <1>19, <1>20

----------------------------------------------------------------------------
(***************************************************************************)
(* The invariant.                                                          *)
(***************************************************************************)
\* A decoder in use stands where its stream says; the slices of a
\* whole-buffer decode are whole but for the last, and a one-shot call sees
\* all the input.
AlongInv ==
    /\ pc \in {"open", "call", "codec"} => Along(job, fed, pos, out, s)
    /\ SlicesWhole

\* A decode that has ended answered rightly.
ClosedRight ==
    pc \in {"close", "closed"} /\ result # ZU_ERR_MEMORY =>
        /\ Whole => WholeRight(result, pos, out)
        /\ ~Whole /\ Unlimited => OneShotGives(result, out)

FaithfulInv ==
    DecoderInv /\ AlongInv /\ ClosedRight /\ IsPrefix(out, ReferenceOf(job).out)

\* More input does not move the decoder.
LEMMA AlongRefilled ==
    ASSUME NEW j, NEW f, NEW g, NEW p, NEW o, NEW st, Along(j, f, p, o, st),
           f = Len(j.input) => g = Len(j.input)
    PROVE  Along(j, g, p, o, st)
<1>1. InBody(j, f, p, o, st) => InBody(j, g, p, o, st)
  BY DEF InBody
<1>. QED  BY <1>1 DEF Along

\* At the start.
LEMMA AlongStart ==
    ASSUME NEW j \in Jobs
    PROVE  Along(j, 0, 0, <<>>, NewState(j.wrap))
<1>. DEFINE st == NewState(j.wrap)  r == Readings(j)[0]
<1>0. /\ Len(j.input) \in Nat /\ 0 \in 0 .. Len(j.input) /\ 1 \in 1 .. Len(j.input) + 1
      /\ j.wrap \in {"raw", "zlib", "gzip"} /\ <<>> \in Seq(Nat)
  BY JobTypes, WrapAssumption
<1>1. /\ st.state = IF j.wrap = "raw" THEN "BODY" ELSE "HEADER"
      /\ st.hdr = 0 /\ st.gz = NewHeader /\ st.sum = 0 /\ ~st.called /\ st.mz = FreshInflater
  BY DEF NewState
<1>2. /\ r.err = ZU_OK /\ r.start = 1 /\ r.member = 0 /\ r.out = <<>> /\ r.end = 0
      /\ j.wrap = "raw" => r.phase = "body"
      /\ j.wrap = "gzip" => r.phase = "header"
  BY <1>0, ReadingsAre, RefInitOk
<1>. HIDE DEF st, r
<1>3. CASE j.wrap = "raw"
  BY <1>0, <1>1, <1>2, <1>3, BodyBegins DEF st, r
<1>4. CASE j.wrap = "zlib"
  <2>1. st.state = "HEADER" /\ InHeader(j, 0, <<>>, st)
    BY <1>1, <1>4 DEF InHeader
  <2>. QED  BY <2>1 DEF Along, st
<1>5. CASE j.wrap = "gzip"
  <2>1. From(j, 1) \in Seq(STRING \X Nat)
    BY <1>0, FromIs
  <2>2. Parsed(From(j, 1), 0 - 1 + 1, st.gz) /\ st.gz.state # "DONE"
    BY <1>1, <2>1, NewHeaderParsed
  <2>3. HeaderAt(j, 0, 1, 0, <<>>, st)
    BY <1>2, <1>5, <2>2 DEF HeaderAt, r
  <2>4. st.state = "HEADER" /\ InHeader(j, 0, <<>>, st)
    BY <1>0, <1>1, <1>5, <2>3 DEF InHeader
  <2>. QED  BY <2>4 DEF Along, st
<1>. QED  BY <1>0, <1>3, <1>4, <1>5

\* The invariant holds at the start.
LEMMA FaithfulInit == Init => FaithfulInv
<1>. SUFFICES ASSUME Init PROVE FaithfulInv
  OBVIOUS
<1>1. /\ DecoderInv /\ job \in Jobs /\ pc = "open" /\ fed = 0 /\ pos = 0 /\ out = <<>>
      /\ s = NewState(job.wrap)
  BY DecoderInitInv DEF Init, LoopInit
<1>2. Along(job, 0, 0, <<>>, s)
  BY <1>1, AlongStart
<1>3. Len(job.input) \in Nat
  BY <1>1, JobTypes
<1>4. SlicesWhole
  BY SlicesAtStart DEF Init
<1>5. AlongInv
  BY <1>1, <1>2, <1>4 DEF AlongInv
<1>6. Held(ReferenceOf(job), out) /\ ReferenceOf(job) \in RefRecord /\ out \in Seq(Nat)
  <2>1. 0 \in 0 .. Len(job.input) /\ s \in DeflateRecord /\ <<>> \in Seq(Nat)
    BY <1>1, <1>3 DEF DecoderInv, DeflateInv
  <2>2. ReferenceOf(job) \in RefRecord
    BY <1>1, <2>1, ReferenceGrows
  <2>. QED  BY <1>1, <2>1, <2>2, HeldAll
<1>7. IsPrefix(out, ReferenceOf(job).out)
  BY <1>6, HeldIsPrefix
<1>8. ClosedRight
  BY <1>1 DEF ClosedRight
<1>. QED  BY <1>1, <1>5, <1>7, <1>8 DEF FaithfulInv

\* The loop's own steps.
LEMMA FaithfulLoop ==
    ASSUME FaithfulInv, LoopStep, s' = s
    PROVE  AlongInv' /\ ClosedRight' /\ IsPrefix(out, ReferenceOf(job).out)'
<1>0. LoopInv /\ AlongInv /\ ClosedRight /\ IsPrefix(out, ReferenceOf(job).out)
  BY DEF FaithfulInv, DecoderInv, DeflateInv
<1>1. job' = job /\ pos' = pos /\ out' = out
  BY DEF LoopStep, Open, CallCodec, ReserveFails, Close
<1>2. IsPrefix(out, ReferenceOf(job).out)'
  BY <1>0, <1>1
<1>3. Whole' = Whole /\ Unlimited' = Unlimited
  BY <1>1 DEF Whole, Unlimited
<1>9. SlicesWhole'
  BY <1>0, LoopKeepsSlices DEF AlongInv
<1>4. CASE Open
  <2>1. /\ pc = "open" /\ fed' = fed
        /\ pc' = "call" \/ (pc' = "closed" /\ result' = ZU_ERR_MEMORY)
    BY <1>4 DEF Open
  <2>2. AlongInv'
    BY <1>0, <1>1, <1>9, <2>1 DEF AlongInv
  <2>3. ClosedRight'
    BY <2>1 DEF ClosedRight
  <2>. QED  BY <1>2, <2>2, <2>3
<1>5. CASE CallCodec
  <2>1. pc = "call" /\ pc' = "codec" /\ Refill
    BY <1>5 DEF CallCodec
  <2>2. fed = Len(job.input) => fed' = Len(job.input)
    BY <1>0, <2>1, RefillSlices DEF AlongInv
  <2>3. Along(job, fed', pos, out, s)
    BY <1>0, <2>1, <2>2, AlongRefilled DEF AlongInv
  <2>4. AlongInv'
    BY <1>1, <1>9, <2>3 DEF AlongInv
  <2>5. ClosedRight'
    BY <2>1 DEF ClosedRight
  <2>. QED  BY <1>2, <2>4, <2>5
<1>6. CASE ReserveFails
  <2>1. pc' = "close" /\ result' = ZU_ERR_MEMORY
    BY <1>6 DEF ReserveFails
  <2>2. AlongInv'
    BY <1>9, <2>1 DEF AlongInv
  <2>3. ClosedRight'
    BY <2>1 DEF ClosedRight
  <2>. QED  BY <1>2, <2>2, <2>3
<1>7. CASE Close
  <2>1. pc = "close" /\ pc' = "closed" /\ result' = result
    BY <1>7 DEF Close
  <2>2. AlongInv'
    BY <1>9, <2>1 DEF AlongInv
  <2>3. \A p, o, res : /\ WholeRight(res, p, o)' = WholeRight(res, p, o)
                       /\ OneShotGives(res, o)' = OneShotGives(res, o)
    BY <1>1 DEF WholeRight, RightAnswer, RightEnd, RightLimit, Concat, OneShotGives
  <2>4. ClosedRight'
    BY <1>0, <1>1, <1>3, <2>1, <2>3 DEF ClosedRight
  <2>. QED  BY <1>2, <2>2, <2>4
<1>. QED  BY <1>4, <1>5, <1>6, <1>7 DEF LoopStep

\* A turn that ends the decode answers rightly.
LEMMA TurnCloses ==
    ASSUME LoopInv, AlongInv, pc = "codec", NEW p, NEW o, NEW st \in Status, Advance(p, o),
           Return(st, p, o), Judged(job, fed, flush, call.out + call.allowance, st, p, o),
           Held(ReferenceOf(job), o), pc' = "close"
    PROVE  /\ Whole => WholeRight(result', p, o)
           /\ ~Whole /\ Unlimited => OneShotGives(result', o)
<1>1. result' # Running
  BY ReturnGives
<1>2. /\ Whole /\ fed < Len(job.input) => fed % job.in_chunk = 0
      /\ ~Whole => fed = Len(job.input)
  BY DEF AlongInv, SlicesWhole
<1>3. ASSUME Whole PROVE WholeRight(result', p, o)
  BY <1>1, <1>2, <1>3, WholeCloses
<1>4. ASSUME ~Whole, Unlimited PROVE OneShotGives(result', o)
  BY <1>1, <1>2, <1>4, OneShotCloses
<1>. QED  BY <1>3, <1>4

\* A turn of the codec keeps the invariant.
LEMMA FaithfulCodec ==
    ASSUME FaithfulInv, CodecStep
    PROVE  AlongInv' /\ ClosedRight' /\ IsPrefix(out, ReferenceOf(job).out)'
<1>0. LoopInv /\ DecoderInv /\ AlongInv
  BY DEF FaithfulInv, DecoderInv, DeflateInv
<1>1. pc = "codec"
  BY DEF CodecStep, HeaderStarved, GzipHeaderByte, ZlibHeaderByte, ZlibHeaderCheck, Body,
         TrailerStarved, TrailerByte, TrailerCheck, MemberEndNoInput, MemberProbe,
         MemberProbeHeld, InState
<1>2. Along(job, fed, pos, out, s)
  BY <1>0, <1>1 DEF AlongInv
<1>3. PICK p, o : Advance(p, o) /\ Turned(p, o)
  BY <1>0, <1>2, CodecTurns
<1>4. pos' = p /\ out' = o /\ job' = job /\ fed' = fed
  BY <1>3 DEF Turned, Continue, Return
<1>5. Held(ReferenceOf(job), o)
  BY <1>0, <1>2, <1>4, TurnHeld
<1>6. Whole' = Whole /\ Unlimited' = Unlimited
  BY <1>4 DEF Whole, Unlimited
<1>7. IsPrefix(out, ReferenceOf(job).out)'
  <2>1. o \in Seq(Nat) /\ job \in Jobs /\ p \in 0 .. Len(job.input)
    BY <1>0, <1>1, <1>3, ReturnPlaces
  <2>2. ReferenceOf(job) \in RefRecord
    BY <2>1, ReferenceGrows
  <2>3. IsPrefix(o, ReferenceOf(job).out)
    BY <1>5, <2>1, <2>2, HeldIsPrefix
  <2>. QED  BY <1>4, <2>3
<1>8. SlicesWhole'
  BY <1>0, <1>1, <1>4, SlicesStay DEF AlongInv
<1>9. ASSUME Along(job, fed, p, o, s') PROVE AlongInv'
  BY <1>4, <1>8, <1>9 DEF AlongInv
<1>10. CASE Continue(p, o) /\ Along(job, fed, p, o, s')
  <2>1. pc' = "codec"
    BY <1>1, <1>10 DEF Continue
  <2>2. ClosedRight'
    BY <2>1 DEF ClosedRight
  <2>. QED  BY <1>7, <1>9, <1>10, <2>2
<1>11. ASSUME NEW st \in Status, Return(st, p, o),
              Judged(job, fed, flush, call.out + call.allowance, st, p, o),
              st \in {ZU_NEED_INPUT, ZU_NEED_OUTPUT} => Along(job, fed, p, o, s')
       PROVE  AlongInv' /\ ClosedRight'
  <2>1. pc' \in {"call", "close"}
    BY <1>11 DEF Return
  <2>2. CASE pc' = "close"
    <3>1. /\ Whole => WholeRight(result', p, o)
          /\ ~Whole /\ Unlimited => OneShotGives(result', o)
      BY <1>0, <1>1, <1>3, <1>5, <1>11, <2>2, TurnCloses
    <3>2. \A res : /\ WholeRight(res, p, o)' = WholeRight(res, p, o)
                   /\ OneShotGives(res, o)' = OneShotGives(res, o)
      BY <1>4 DEF WholeRight, RightAnswer, RightEnd, RightLimit, Concat, OneShotGives
    <3>3. ClosedRight'
      BY <1>4, <1>6, <3>1, <3>2 DEF ClosedRight, WholeRight, RightAnswer, RightEnd, RightLimit,
                                    Concat, OneShotGives
    <3>4. AlongInv'
      BY <1>8, <2>2 DEF AlongInv
    <3>. QED  BY <3>3, <3>4
  <2>3. CASE pc' = "call"
    <3>1. st # ZU_OK
      BY <1>11 DEF Judged
    <3>2. st \in {ZU_NEED_INPUT, ZU_NEED_OUTPUT}
      BY <1>0, <1>1, <1>3, <1>11, <2>3, <3>1, OnlyWaitingGoesOn
    <3>3. ClosedRight'
      BY <2>3 DEF ClosedRight
    <3>. QED  BY <1>9, <1>11, <3>2, <3>3
  <2>. QED  BY <2>1, <2>2, <2>3
<1>. QED  BY <1>3, <1>7, <1>10, <1>11 DEF Turned

\* Every step keeps it.
LEMMA FaithfulNext ==
    ASSUME FaithfulInv, [Next]_vars
    PROVE  FaithfulInv'
<1>0. DecoderInv'
  BY DecoderNextInv DEF FaithfulInv
<1>1. CASE LoopStep /\ UNCHANGED s
  BY <1>0, <1>1, FaithfulLoop DEF FaithfulInv
<1>2. CASE CodecStep
  BY <1>0, <1>2, FaithfulCodec DEF FaithfulInv
<1>3. CASE UNCHANGED vars \/ (Returned /\ UNCHANGED s)
  <2>1. /\ job' = job /\ pc' = pc /\ fed' = fed /\ pos' = pos /\ out' = out
        /\ result' = result /\ s' = s
    BY <1>3 DEF vars, loopVars, Returned
  <2>2. Whole' = Whole /\ Unlimited' = Unlimited
    BY <2>1 DEF Whole, Unlimited
  <2>3. AlongInv'
    BY <2>1, SlicesStay DEF FaithfulInv, AlongInv
  <2>4. WholeRight(result, pos, out)' = WholeRight(result, pos, out)
    BY <2>1 DEF WholeRight, RightAnswer, RightEnd, RightLimit, Concat
  <2>5. OneShotGives(result, out)' = OneShotGives(result, out)
    BY <2>1 DEF OneShotGives
  <2>6. ClosedRight'
    BY <2>1, <2>2, <2>4, <2>5 DEF FaithfulInv, ClosedRight
  <2>7. IsPrefix(out, ReferenceOf(job).out)'
    BY <2>1 DEF FaithfulInv
  <2>. QED  BY <1>0, <2>3, <2>6, <2>7 DEF FaithfulInv
<1>. QED  BY <1>1, <1>2, <1>3 DEF Next

\* The invariant has the four properties.
LEMMA FaithfulMeans ==
    ASSUME FaithfulInv
    PROVE  VerdictIsTheStreams /\ LimitsAreSafe /\ ConsumedIsExact /\ OneShotDecodes
<1>0. DecoderInv /\ ClosedRight /\ IsPrefix(out, ReferenceOf(job).out)
  BY DEF FaithfulInv
<1>1. Reference = ReferenceOf(job)
  BY DEF Reference
<1>2. RightVerdict(ReferenceOf(job)) <=> RightAnswer(result)
  BY DEF RightVerdict, RightAnswer
<1>3. Settled => WholeRight(result, pos, out)
  BY <1>0 DEF Settled, ClosedRight
<1>4. ASSUME Settled, result = ZU_STREAM_END PROVE RightAnswer(result) /\ RightEnd(pos, out)
  BY <1>3, <1>4 DEF WholeRight
<1>5. ASSUME Settled PROVE RightAnswer(result) \/ RightLimit(result)
  BY <1>3, <1>5 DEF WholeRight
<1>6. ASSUME Unlimited PROVE ~RightLimit(result)
  <2>1. job.opts \in LimitOpts
    BY <1>0, LoopFacts DEF DecoderInv, DeflateInv
  <2>2. job.opts.max_output = 0 /\ ~job.opts.has_expected /\ job.opts.max_ratio = 0
    BY <1>6, <2>1 DEF Unlimited, HasCeiling, LimitOpts
  <2>. QED  BY <2>2 DEF RightLimit
<1>7. VerdictIsTheStreams
  <2>1. ASSUME Settled, Unlimited
        PROVE  RightAnswer(result) /\ (result = ZU_STREAM_END => out = ReferenceOf(job).out)
    BY <1>4, <1>5, <1>6, <2>1 DEF RightEnd
  <2>. QED  BY <1>1, <1>2, <2>1 DEF VerdictIsTheStreams
<1>8. LimitsAreSafe
  <2>1. ASSUME Settled, result = ZU_STREAM_END
        PROVE  /\ RightVerdict(ReferenceOf(job)) /\ out = ReferenceOf(job).out
               /\ job.opts.has_expected => Len(out) = job.opts.expected_size
    BY <1>2, <1>4, <2>1 DEF RightEnd
  <2>2. ASSUME Settled, ~RightVerdict(ReferenceOf(job)) PROVE RightLimit(result)
    BY <1>2, <1>5, <2>2
  <2>. QED  BY <1>0, <1>1, <2>1, <2>2 DEF LimitsAreSafe, RightLimit
<1>9. ConsumedIsExact
  BY <1>1, <1>4 DEF ConsumedIsExact, RightEnd
<1>10. OneShotDecodes
  <2>1. ASSUME OneShotSettled, Unlimited PROVE OneShotGives(result, out)
    BY <1>0, <2>1 DEF OneShotSettled, ClosedRight
  <2>2. ASSUME OneShotSettled, Unlimited
        PROVE  OneShotRight({VerdictOn(job, ReferenceOf(job))}, ReferenceOf(job).out)
    <3>. DEFINE v == VerdictOn(job, ReferenceOf(job))
    <3>. HIDE DEF v
    <3>1. OneShotGives(result, out)
      BY <2>1, <2>2
    <3>2. {v} = {ZU_STREAM_END} <=> v = ZU_STREAM_END
      OBVIOUS
    <3>3. OneShotRight({v}, ReferenceOf(job).out)
      BY <3>1, <3>2 DEF OneShotGives, OneShotRight, v
    <3>. QED  BY <3>3 DEF v
  <2>. QED  BY <1>1, <2>2 DEF OneShotDecodes
<1>. QED  BY <1>7, <1>8, <1>9, <1>10

\* Every reachable state keeps the invariant.
LEMMA DecodesFaithfully == Spec => []FaithfulInv
<1>1. Init => FaithfulInv
  BY FaithfulInit
<1>2. FaithfulInv /\ [Next]_vars => FaithfulInv'
  BY FaithfulNext
<1>. QED  BY <1>1, <1>2, PTL DEF Spec

\* The verdict and the output of a whole-buffer decode without limits are
\* the stream's: for every job, every chunking of input and output, every
\* member probe held across a buffer, every header field, trailer and
\* dictionary left pending, the loop around codec_deflate.c ends with the
\* status and the bytes of the reference decoder.
THEOREM DeflateVerdictIsTheStreams == Spec => []VerdictIsTheStreams
BY DecodesFaithfully, FaithfulMeans, PTL

\* With limits: what has been written is always a prefix of the stream's
\* output, success is the whole of it with the right verdict, and a verdict
\* other than the stream's is a limit that the stream reaches.
THEOREM DeflateLimitsAreSafe == Spec => []LimitsAreSafe
BY DecodesFaithfully, FaithfulMeans, PTL

\* The consumed count a caller resumes from is the end of the stream, or one
\* byte beyond it when the member probe holds the first byte of the magic
\* and a byte of a later buffer disproved it.
THEOREM DeflateConsumedIsExact == Spec => []ConsumedIsExact
BY DecodesFaithfully, FaithfulMeans, PTL

\* zu_decompress_one succeeds in a buffer of exactly the stream's size and in
\* no smaller one, and otherwise reports the stream's own verdict.
THEOREM DeflateOneShotDecodes == Spec => []OneShotDecodes
BY DecodesFaithfully, FaithfulMeans, PTL
=============================================================================
