-------------------------- MODULE Lz4BlockDecoder --------------------------
(***************************************************************************)
(* The decoder of lz4-block (lz4b_decoder_process and zu_int_lz4b_search   *)
(* in codec_lz4.c), driven by the loop of DecodeLoop.  A block carries     *)
(* neither its own length nor its decoded size: the codec gathers all of   *)
(* the input, then decodes it to the promised size or searches for one.    *)
(* Each try of the search is an action.                                    *)
(*                                                                         *)
(* Tokens are <<"lit", n>> and <<"end", n>>, which decode to n bytes, the  *)
(* second ending the block, and any other kind, which is corrupt.          *)
(***************************************************************************)
EXTENDS DecodeLoop, SequencesExt

CONSTANTS
    SearchFloor,      \* the least capacity tried first: 4096
    Expand, Slack,    \* what n bytes may decode to: n * 255 + 64
    IntMax,           \* INT_MAX
    MaxBlockInput     \* LZ4_MAX_INPUT_SIZE

ASSUME BlockSearchAssumption ==
    /\ SearchFloor \in Nat \ {0} /\ Expand \in Nat \ {0} /\ Slack \in Nat \ {0}
    /\ IntMax \in Nat \ {0} /\ MaxBlockInput \in Nat

\* The format's bound: no byte of a block stands for more than Expand.
ASSUME ExpansionAssumption ==
    \A j \in Jobs : j.wrap = "lz4block" =>
        \A i \in 1 .. Len(j.input) : j.input[i][2] <= Expand

VARIABLE b    \* lz4_state, and the locals of a search in progress

NewBlock == [in |-> 0, cap |-> 0, stage_cap |-> 0, stage |-> <<>>,
             stage_pos |-> 0, done |-> FALSE]

BlockInit == b = NewBlock

IsBlock == job.wrap = "lz4block"

(***************************************************************************)
(* liblz4 on the first n tokens of the input.                              *)
(***************************************************************************)
Sound(i) == job.input[i][1] \in {"lit", "end"}

\* The tokens up to the first that is corrupt or out of place: the whole
\* block when that is sound.
SoundPart(n) ==
    LET wrong == {i \in 1 .. n : ~Sound(i) \/ (job.input[i][1] = "end" /\ i < n)}
    IN  IF wrong = {} THEN n
        ELSE LET i == Min(wrong) IN IF Sound(i) THEN i ELSE i - 1

Decoded(n) == FlattenSeq([i \in 1 .. n |-> BytesOf(i)])

SoundBlock(n) == n > 0 /\ SoundPart(n) = n /\ job.input[n][1] = "end"

\* LZ4_decompress_safe(): the size, or -1 for a block that is corrupt or
\* larger than cap.
DecompressSafe(n, cap) ==
    LET size == Len(Decoded(SoundPart(n)))
    IN  IF SoundBlock(n) /\ size <= cap THEN size ELSE -1

\* LZ4_decompress_safe_partial(): stops at cap and validates no further.
DecompressPartial(n, cap) ==
    LET size == Len(Decoded(SoundPart(n)))
    IN  IF size >= cap THEN cap ELSE IF SoundBlock(n) THEN size ELSE -1

----------------------------------------------------------------------------
\* zu_int_lz4_drain, and what lz4b_decoder_process then returns.
DrainAndReturn(p, d) ==
    LET n    == LeastOf(Len(d.stage) - d.stage_pos, AvailOut)
        done == d.stage_pos + n = Len(d.stage)
    IN  /\ Return(IF done THEN ZU_STREAM_END ELSE ZU_NEED_OUTPUT, p,
                  out \o SubSeq(d.stage, d.stage_pos + 1, d.stage_pos + n))
        /\ b' = [d EXCEPT !.stage     = IF done THEN <<>> ELSE @,
                          !.stage_pos = IF done THEN 0 ELSE @ + n]

\* zu_int_lz4b_gather: its status and the gathered length.
Gather ==
    IF AvailIn = 0 THEN {<<ZU_OK, b.in>>}
    ELSE IF b.in + AvailIn > MaxBlockInput THEN {<<ZU_ERR_INVALID_DATA, b.in>>}
    ELSE {<<ZU_OK, b.in + AvailIn>>, <<ZU_ERR_MEMORY, b.in>>}

Gathered(g) == pos + g[2] - b.in

\* The block is decoded into the stage, its input given up.
Staged(bytes, cap) ==
    [b EXCEPT !.in = 0, !.cap = 0, !.done = TRUE, !.stage_cap = cap,
              !.stage_pos = 0, !.stage = bytes]

BlockDrain ==
    /\ pc = "codec" /\ IsBlock /\ b.done
    /\ DrainAndReturn(pos, b)

\* More input may come.
BlockGather ==
    /\ pc = "codec" /\ IsBlock /\ ~b.done /\ flush # ZU_FINISH
    /\ \E g \in Gather :
         /\ Return(IF g[1] = ZU_OK THEN ZU_NEED_INPUT ELSE g[1], Gathered(g), out)
         /\ b' = [b EXCEPT !.in = g[2]]

AtEnd == pc = "codec" /\ IsBlock /\ ~b.done /\ flush = ZU_FINISH

\* A promise no limit allows is refused before anything is allocated.
Refused ==
    IF job.opts.max_output # 0 /\ job.opts.expected_size > job.opts.max_output
      THEN ZU_ERR_OUTPUT_LIMIT
    ELSE IF job.opts.expected_size > IntMax THEN ZU_ERR_INVALID_DATA
    ELSE ZU_OK

\* Straight from the caller's input into his window.
ExpectedInPlace(want) ==
    IF AvailIn = 0 \/ AvailIn > MaxBlockInput \/ DecompressSafe(AvailIn, want) # want
      THEN Return(ZU_ERR_INVALID_DATA, pos, out) /\ UNCHANGED b
      ELSE /\ Return(ZU_STREAM_END, fed, out \o Decoded(AvailIn))
           /\ b' = [b EXCEPT !.done = TRUE]

\* Through the stage, which is first made as large as promised.
ExpectedStaged(g, want) ==
    LET Fails(st, cap) == /\ Return(st, Gathered(g), out)
                          /\ b' = [b EXCEPT !.in = g[2], !.stage_cap = cap]
        cap == Max({want, b.stage_cap})
    IN  IF g[1] # ZU_OK THEN Fails(g[1], b.stage_cap)
        ELSE IF g[2] = 0 THEN Fails(ZU_ERR_INVALID_DATA, b.stage_cap)
        ELSE \/ want > b.stage_cap /\ Fails(ZU_ERR_MEMORY, b.stage_cap)
             \/ IF DecompressSafe(g[2], want) = want
                  THEN DrainAndReturn(Gathered(g), Staged(Decoded(g[2]), cap))
                  ELSE Fails(ZU_ERR_INVALID_DATA, cap)

BlockExpected ==
    /\ AtEnd /\ job.opts.has_expected
    /\ LET want == job.opts.expected_size
       IN  IF Refused # ZU_OK THEN Return(Refused, pos, out) /\ UNCHANGED b
           ELSE IF b.in = 0 /\ AvailOut >= want THEN ExpectedInPlace(want)
           ELSE \E g \in Gather : ExpectedStaged(g, want)

----------------------------------------------------------------------------
(***************************************************************************)
(* The search.                                                             *)
(***************************************************************************)
\* What the format, or an int, lets n bytes decode to.
FormatCeiling(n) == LeastOf(n * Expand + Slack, IntMax)

Limited(n) == job.opts.max_output # 0 /\ job.opts.max_output < FormatCeiling(n)

SearchCeiling(n) == IF Limited(n) THEN job.opts.max_output ELSE FormatCeiling(n)

\* Mutant: the first capacity forgets the ceiling.
FirstCapUnclipped(n) == Max({n * 4, SearchFloor})

FirstCap(n) == LeastOf(Max({n * 4, SearchFloor}), SearchCeiling(n))

NextCap(n, cap) ==
    IF cap > SearchCeiling(n) \div 4 THEN SearchCeiling(n) ELSE cap * 4

SearchBegins ==
    /\ AtEnd /\ ~job.opts.has_expected /\ b.cap = 0
    /\ \E g \in Gather :
         IF g[1] = ZU_OK /\ g[2] > 0
           THEN /\ Continue(Gathered(g), out)
                /\ b' = [b EXCEPT !.in = g[2], !.cap = FirstCap(g[2])]
           ELSE /\ Return(IF g[1] = ZU_OK THEN ZU_ERR_INVALID_DATA ELSE g[1],
                          Gathered(g), out)
                /\ b' = [b EXCEPT !.in = g[2]]

\* Mutant: a block that fills the capacity exactly is taken for a corrupt one.
WorthMoreStrict(n, cap) == DecompressPartial(n, cap) > cap

\* Whether the block is well-formed as far as cap and goes on.
WorthMore(n, cap) == DecompressPartial(n, cap) >= cap

SearchFails(st, cap) ==
    Return(st, pos, out) /\ b' = [b EXCEPT !.cap = 0, !.stage_cap = cap]

\* One turn: allocate, decode, and on failure ask how far the block is sound.
SearchTry ==
    /\ AtEnd /\ ~job.opts.has_expected /\ b.cap > 0
    /\ LET n    == b.in
           room == Max({b.stage_cap, b.cap})
       IN  \/ b.cap > b.stage_cap /\ SearchFails(ZU_ERR_MEMORY, b.stage_cap)
           \/ IF DecompressSafe(n, b.cap) >= 0
                THEN DrainAndReturn(pos, Staged(Decoded(n), room))
              ELSE IF ~WorthMore(n, b.cap) THEN SearchFails(ZU_ERR_INVALID_DATA, room)
              ELSE IF b.cap >= SearchCeiling(n)
                THEN SearchFails(IF Limited(n) THEN ZU_ERR_OUTPUT_LIMIT
                                               ELSE ZU_ERR_INVALID_DATA, room)
              ELSE /\ Continue(pos, out)
                   /\ b' = [b EXCEPT !.stage_cap = room, !.cap = NextCap(n, b.cap)]

BlockStep == BlockDrain \/ BlockGather \/ BlockExpected \/ SearchBegins \/ SearchTry

----------------------------------------------------------------------------
\* What the whole input means.
BlockSize == Len(Decoded(SoundPart(Len(job.input))))

BlockFits ==
    /\ SoundBlock(Len(job.input)) /\ Len(job.input) <= MaxBlockInput
    /\ BlockSize <= IntMax

\* A promise above the limit is refused, unless an input too large for a
\* block is noticed first.
BlockVerdict ==
    LET o       == job.opts
        refused == o.has_expected /\ o.max_output # 0 /\ o.expected_size > o.max_output
        over    == /\ ~o.has_expected /\ o.max_output \in 1 .. IntMax - 1
                   /\ BlockSize >= o.max_output
        fits    == /\ BlockFits
                   /\ o.has_expected => BlockSize = o.expected_size
                   /\ o.max_output # 0 => BlockSize <= o.max_output
        large   == Len(job.input) > MaxBlockInput
    IN  IF refused THEN {ZU_ERR_OUTPUT_LIMIT} \cup (IF large THEN {ZU_ERR_INVALID_DATA} ELSE {})
        ELSE IF fits THEN {ZU_STREAM_END}
        ELSE IF over /\ ~large THEN {ZU_ERR_OUTPUT_LIMIT}
        ELSE {ZU_ERR_INVALID_DATA}

BlockSettled ==
    /\ Whole /\ IsBlock /\ job.opts.max_ratio = 0 /\ pc = "close"
    /\ last.st # ZU_ERR_MEMORY /\ result # ZU_ERR_MEMORY

\* A block gets the verdict it deserves however it is sliced and whichever
\* way it is decoded: a sound one succeeds, with all its bytes, exactly when
\* its size is within the limit and as promised; one that is sound up to the
\* limit and goes on is over the limit; any other is invalid.  No capacity
\* the search tries or skips shows.  (A ratio limit, which the driver alone
\* enforces, has a verdict of its own.)
BlockVerdictIsExact ==
    BlockSettled =>
        /\ result \in BlockVerdict
        /\ result = ZU_STREAM_END => out = Decoded(Len(job.input)) /\ pos = Len(job.input)

\* The memory a block can make the decoder allocate is bounded by what the
\* caller allows and by four times what the block has already shown to be
\* good for: the search grows only over output it has seen, so a corrupt
\* block costs the first try.
StageIsBounded ==
    IsBlock =>
        /\ job.opts.max_output # 0 => b.stage_cap <= job.opts.max_output
        /\ ~job.opts.has_expected =>
             b.stage_cap <= Max({SearchFloor, 4 * Len(job.input), 4 * BlockSize})
=============================================================================
