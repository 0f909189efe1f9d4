-------------------------- MODULE MCDeflateDecoder --------------------------
(***************************************************************************)
(* The streams the DEFLATE decoder is run on: every truncation of sound    *)
(* and corrupted streams, with every kind of tail.                         *)
(***************************************************************************)
EXTENDS DeflateDecoder

MCOpts(max, ratio, has, size, reject, concat) ==
    [max_output |-> max, max_ratio |-> ratio, has_expected |-> has,
     expected_size |-> size, reject |-> reject, concat |-> concat]

\* A body, and how many bytes it decodes to.
Bodies == {<<"end", 0>>, <<"end", 1>>}
Lits   == {<<"lit", 0>>, <<"lit", 2>>}

MCBodies ==
    {<<b>> : b \in Bodies} \cup {<<l, b>> : l \in Lits, b \in Bodies}
      \cup {<< <<"lit", 1>>, <<"lit", 2>>, <<"end", 0>> >>,
            << <<"lit", 1>>, <<"bad", 0>> >>}

SizeOf(b) == FoldLeft(LAMBDA n, t : n + t[2], 0, b)

Bytes(v) == [i \in 1 .. Len(v) |-> <<"byte", v[i]>>]

\* A header without optional fields (FTEXT announces none), and one with an
\* extra field of x bytes, a name, a comment and a checksum off by d, as flg
\* announces them.
Plain == Bytes(<<31, 139, 8, 1, 0>>)

Header(flg, x, name, comment, d) ==
    LET part(bit, v) == IF HasFlag(flg, bit) THEN v ELSE <<>>
        v == <<31, 139, 8, flg, 0>>
               \o part(GZ_FEXTRA, <<x, 0>> \o [i \in 1 .. x |-> 0])
               \o part(GZ_FNAME, [i \in 1 .. name |-> 7] \o <<0>>)
               \o part(GZ_FCOMMENT, [i \in 1 .. comment |-> 7] \o <<0>>)
    IN  Bytes(v \o part(GZ_FHCRC, <<Len(v) + d, 0>>))

\* Every combination of fields, empty, at and beyond their bounds, a wrong
\* checksum in either byte, an extra length in the high byte, and headers
\* that are malformed from the start.
Headers ==
    {Header(flg, x, x, x, 0) : flg \in {f \in 0 .. 31 : f % 2 = 0}, x \in {0, 2}}
      \cup {Header(30, 1, name, comment, d) :
             name \in {1, MaxField, MaxField + 1}, comment \in {MaxField, MaxField + 1},
             d \in {0, 1}}
      \cup {Bytes(<<31, 139, 8, 2, 0, 5, 1>>), Bytes(<<31, 139, 8, 4, 0, 0, 1, 0>>),
            Bytes(<<31, 139, 8, 32, 0>>), Bytes(<<31, 139, 9, 0, 0>>),
            Bytes(<<31, 138, 8, 0, 0>>), Bytes(<<30, 139, 8, 0, 0>>)}

\* A member whose checksum is off by `ds` and whose length field by `di`.
GzipMember(b, ds, di) ==
    Plain \o b
      \o << <<"sum", SizeOf(b) + ds>>, <<"isize", (SizeOf(b) + di) % ISizeMod>> >>

ZlibStream(b, ds) == << <<"cmf", 0>>, <<"flg", 0>> >> \o b \o << <<"sum", SizeOf(b) + ds>> >>

Tails == {<<>>, << <<"junk", 0>> >>, <<magic1>>, <<magic1, <<"junk", 0>> >>,
          <<magic1, magic2>>}

Truncations(S) == UNION {{SubSeq(x, 1, n) : n \in 0 .. Len(x)} : x \in S}

Short == << <<"lit", 2>>, <<"end", 0>> >>

GzipStreams ==
    Truncations({GzipMember(b, 0, 0) : b \in MCBodies}
              \cup {GzipMember(Short, 1, 0), GzipMember(Short, 0, 1)})
      \cup {GzipMember(Short, 0, 0) \o t : t \in Tails}
      \cup {GzipMember(Short, 1, 0) \o t : t \in Tails}
      \cup {GzipMember(b, 0, 0) \o GzipMember(<< <<"end", 1>> >>, d, 0) \o t :
              b \in {Short, << <<"end", 0>> >>}, d \in {0, 1}, t \in Tails}

ZlibStreams ==
    Truncations({ZlibStream(b, 0) : b \in MCBodies})
      \cup {ZlibStream(Short, d) \o t : d \in {0, 1}, t \in Tails}
      \cup {<< <<"cmf", c>>, <<"flg", f>>, <<"end", 0>> >> : c \in {0, 1}, f \in {1, 2}}
      \cup {<< <<"cmf", 1>>, <<"flg", 0>> >>}

RawStreams == Truncations(MCBodies) \cup {Short \o t : t \in Tails}

Streams == [gzip |-> GzipStreams, zlib |-> ZlibStreams, raw |-> RawStreams]

JobsOver(wraps, opts, ins, outs) ==
    UNION {[driver : {"whole"}, wrap : {w}, input : Streams[w], opts : opts,
            in_chunk : ins, out_chunk : outs] : w \in wraps}

\* No limits; whether tails are errors and members are joined.
FreeJobs ==
    JobsOver({"gzip", "zlib", "raw"},
             {MCOpts(0, 0, FALSE, 0, r, c) : r \in BOOLEAN, c \in BOOLEAN},
             1 .. 6, 1 .. 3)

\* Output limits around the streams' sizes, expected sizes, a ratio.
LimitJobs ==
    JobsOver({"gzip", "zlib", "raw"},
             {MCOpts(m, 0, FALSE, 0, TRUE, TRUE) : m \in 1 .. 3}
               \cup {MCOpts(m, 0, TRUE, 2, TRUE, TRUE) : m \in {0, 1, 2}}
               \cup {MCOpts(0, 1, FALSE, 0, FALSE, TRUE)},
             {1, 2, 3}, {1, 3})

\* One-shot calls into every buffer up to more than enough.
OneShotJobs ==
    UNION {[driver : {"one_shot"}, wrap : {w}, input : Streams[w],
            opts : {MCOpts(0, 0, FALSE, 0, r, c) : r \in BOOLEAN, c \in BOOLEAN}
                     \cup {MCOpts(2, 0, FALSE, 0, TRUE, TRUE), MCOpts(0, 0, TRUE, 2, TRUE, TRUE)},
            in_chunk : {1}, out_chunk : 0 .. 5] : w \in {"gzip", "zlib", "raw"}}

\* Every truncation of every kind of header, the last also as the header of
\* a second member.
HeaderJobs ==
    LET end == << <<"end", 0>>, <<"sum", 0>>, <<"isize", 0>> >>
    IN  [driver : {"whole"}, wrap : {"gzip"},
         input : Truncations({h \o end : h \in Headers}
                   \cup {Plain \o end \o Header(30, 2, 2, 2, d) \o end : d \in {0, 1}}),
         opts : {MCOpts(0, 0, FALSE, 0, TRUE, TRUE)}, in_chunk : {1, 2, 5, 8},
         out_chunk : {1}]

AllJobs == FreeJobs \cup LimitJobs \cup OneShotJobs \cup HeaderJobs

\* For termination and for the decoder handle: the tightest buffers, every
\* kind of limit.
TightJobs ==
    JobsOver({"gzip", "zlib", "raw"},
             {MCOpts(m, 0, FALSE, 0, TRUE, TRUE) : m \in {0, 1}}, {1}, {1})
      \cup [driver : {"whole"}, wrap : {"zlib"},
            input : {ZlibStream(Short, d) \o t : d \in {0, 1}, t \in Tails},
            opts : {MCOpts(2, 0, FALSE, 0, TRUE, FALSE), MCOpts(0, 1, TRUE, 1, FALSE, FALSE)},
            in_chunk : {2, 3}, out_chunk : {1, 3}]
=============================================================================
