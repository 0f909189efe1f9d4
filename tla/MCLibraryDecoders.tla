--------------------------- MODULE MCLibraryDecoders ---------------------------
(***************************************************************************)
(* What the library decoders are run on.  Frames: truncations, corrupt     *)
(* blocks and checksums, skippable frames, and tails that begin like a     *)
(* magic.  Blocks: sound, corrupt, cut and overlong ones whose sizes fall  *)
(* on, between and beyond the capacities the search tries.                 *)
(***************************************************************************)
EXTENDS LibraryDecoders

MCOpts(max, has, size, reject, concat) ==
    [max_output |-> max, max_ratio |-> 0, has_expected |-> has,
     expected_size |-> size, reject |-> reject, concat |-> concat]

SizeOf(bs) == FoldLeft(LAMBDA n, t : n + t[2], 0, bs)

\* A frame of the blocks bs, without a checksum and with one off by d.
Bare(bs) == Own \o << <<"head", 0>> >> \o bs
Checked(bs, d) == Own \o << <<"head", 1>> >> \o bs \o << <<"sum", SizeOf(bs) + d>> >>
Skippable == Skip \o << <<"size", 0>> >>

Blocks == [zstd |-> {<< <<"end", 2>> >>, << <<"lit", 2>>, <<"end", 0>> >>,
                     << <<"raw", 1>>, <<"lit", 1>>, <<"end", 1>> >>},
           lz4  |-> {<< <<"end", 0>> >>, << <<"lit", 2>>, <<"end", 0>> >>,
                     << <<"raw", 1>>, <<"raw", 1>>, <<"end", 0>> >>}]

Two == << <<"lit", 2>>, <<"end", 0>> >>

Tails == {<<>>, << <<"junk", 0>> >>, SubSeq(Own, 1, 1), SubSeq(Own, 1, 3),
          SubSeq(Skip, 1, 2) \o << <<"junk", 0>> >>,
          SubSeq(Own, 1, 3) \o << <<"junk", 0>> >>, Own}

Truncations(S) == UNION {{SubSeq(x, 1, n) : n \in 0 .. Len(x)} : x \in S}

Streams(w) ==
    Truncations({Bare(bs) : bs \in Blocks[w]} \cup {Checked(bs, 0) : bs \in Blocks[w]})
      \cup {Checked(Two, d) \o t : d \in {0, 1}, t \in Tails}
      \cup {Bare(bs) \o Checked(<< <<"lit", 1>>, <<"end", 0>> >>, 0) : bs \in Blocks[w]}
      \cup {Checked(Two, 0) \o Skippable \o t : t \in Tails}
      \cup {Skippable \o Bare(Two)}
      \cup {Own \o << <<"head", 2>> >>,
            Own \o << <<"head", 0>>, <<"lit", 1>>, <<"bad", 0>> >>,
            [i \in 1 .. 5 |-> <<"junk", 0>>], SubSeq(Own, 1, 2) \o << <<"junk", 0>> >>}

JobsOver(opts, ins, outs) ==
    UNION {[driver : {"whole"}, wrap : {w}, input : Streams(w), opts : opts,
            in_chunk : ins, out_chunk : outs] : w \in {"zstd", "lz4"}}

\* No limits, every chunking that can split a magic.
FreeJobs ==
    JobsOver({MCOpts(0, FALSE, 0, r, c) : r \in BOOLEAN, c \in BOOLEAN}, 1 .. 9, 1 .. 3)

\* Ceilings below, at and above what the streams decode to.
LimitJobs ==
    JobsOver({MCOpts(m, FALSE, 0, TRUE, TRUE) : m \in 1 .. 3}
               \cup {MCOpts(m, TRUE, 2, TRUE, TRUE) : m \in {0, 1, 2}}
               \cup {MCOpts(0, TRUE, 3, FALSE, TRUE), MCOpts(0, TRUE, 3, TRUE, TRUE)}
               \cup {[MCOpts(0, FALSE, 0, TRUE, TRUE) EXCEPT !.max_ratio = 1]},
             {1, 2, 3, 5, 7}, {1, 2, 3})

\* Blocks on both sides of each capacity the search tries, of INT_MAX and of
\* the largest input, and long ones corrupted or cut after every token.
Lits(n, size) == [i \in 1 .. n |-> <<"lit", size>>]

SoundBlocks == {Lits(n, s) \o << <<"end", e>> >> :
                n \in 0 .. MaxBlockInput, s \in {1, 4, 5, 16, Expand}, e \in {0, 1, Expand}}

BlockInputs ==
    SoundBlocks \cup {<<>>} \cup {Lits(n, Expand) : n \in 1 .. MaxBlockInput}
      \cup {Lits(n, Expand) \o << <<"bad", 0>> >> \o Lits(1, Expand) \o << <<"end", 0>> >> :
             n \in 0 .. MaxBlockInput - 2}
      \cup {<< <<"end", 1>>, <<"end", 1>> >>}

BlockJobs ==
    [driver : {"whole"}, wrap : {"lz4block"}, input : BlockInputs,
     opts : {MCOpts(m, FALSE, 0, TRUE, FALSE) : m \in {0, 1, 4, 5, 16, Expand, IntMax - 1, IntMax}}
              \cup {MCOpts(m, TRUE, e, TRUE, FALSE) :
                      m \in {0, 5}, e \in {0, 1, 5, 6, Expand, IntMax, IntMax + 1}},
     in_chunk : {1, 2, MaxBlockInput + 2}, out_chunk : {1, 5, 20}]

IdentityJobs ==
    [driver : {"whole"}, wrap : {"identity"}, input : {[i \in 1 .. n |-> <<"lit", 1>>] : n \in 0 .. 5},
     opts : {MCOpts(m, FALSE, 0, r, FALSE) : m \in {0, 3}, r \in BOOLEAN}
              \cup {MCOpts(m, TRUE, 3, TRUE, FALSE) : m \in {0, 2}},
     in_chunk : 1 .. 3, out_chunk : 1 .. 3]

\* One-shot calls into every buffer around the streams' sizes.
OneShotOf(wrap, inputs, caps) ==
    [driver : {"one_shot"}, wrap : {wrap}, input : inputs,
     opts : {MCOpts(0, FALSE, 0, r, TRUE) : r \in BOOLEAN}
              \cup {MCOpts(2, FALSE, 0, TRUE, TRUE), MCOpts(0, TRUE, 2, TRUE, TRUE)},
     in_chunk : {1}, out_chunk : caps]

OneShotJobs ==
    OneShotOf("zstd", Streams("zstd"), 0 .. 4) \cup OneShotOf("lz4", Streams("lz4"), 0 .. 4)
      \cup OneShotOf("lz4block", BlockInputs, {0, 1, 4, 5, 16, 20, 21})
      \cup OneShotOf("identity", {[i \in 1 .. n |-> <<"lit", 1>>] : n \in 0 .. 3}, 0 .. 4)

AllJobs == FreeJobs \cup LimitJobs \cup BlockJobs \cup IdentityJobs \cup OneShotJobs
=============================================================================
