---------------------------- MODULE Lz4Encoders ----------------------------
(***************************************************************************)
(* The encoders of lz4-frame and lz4-block (codec_lz4.c), driven by the    *)
(* loops of EncodeLoop.  liblz4 wants room for the worst case, so both     *)
(* compress into a stage and drain it into whatever window the caller has. *)
(***************************************************************************)
EXTENDS EncodeLoop

CONSTANTS
    FrameChunk,      \* ZU_INT_LZ4F_CHUNK
    MaxBlockInput    \* LZ4_MAX_INPUT_SIZE

ASSUME Lz4Assumption == FrameChunk \in Nat \ {0} /\ MaxBlockInput \in Nat

\* zu_int_lz4_drain: what fits of the stage; `done` once it is empty.
Drain(e, o) ==
    LET n    == Least(Len(e.stage) - e.stage_pos, AvailOut)
        done == e.stage_pos + n = Len(e.stage)
    IN  [out  |-> o \o SubSeq(e.stage, e.stage_pos + 1, e.stage_pos + n),
         e    |-> [e EXCEPT !.stage     = IF done THEN <<>> ELSE @,
                            !.stage_pos = IF done THEN 0 ELSE @ + n],
         done |-> done]

\* zu_int_lz4_level.
Lz4Level(lv) == LevelAsked(lv, CodecTable[job.codec].level_default)

(***************************************************************************)
(* liblz4's frame compressor.  A header declares a content size, or 0 for  *)
(* none; a declared size that turns out wrong is an error at the end.      *)
(***************************************************************************)
NoCctx == [level |-> 0, size |-> 0, total |-> 0, sum |-> 0,
           lead |-> <<>>, held |-> <<>>, pend |-> <<>>]

CompressBegin(lv, size) ==
    [NoCctx EXCEPT !.level = lv, !.size = size, !.pend = << <<"frame", size, 0>> >>]

CompressUpdate(c, bytes) ==
    [Absorb(c, bytes) EXCEPT !.total = @ + Len(bytes), !.sum = ChecksumUpdate(@, bytes)]

SizeIsWrong(c) == c.size # 0 /\ c.size # c.total

CompressEnd(c) == CloseBlock(c, << <<"endmark", 0, 0>>, <<"xxh", c.sum, 0>> >>)

----------------------------------------------------------------------------
IsFrame == job.codec = "lz4frame"

FrameStart(lv, c) ==
    [level |-> lv, size |-> 0, started |-> FALSE, ended |-> FALSE, done |-> FALSE,
     flushed |-> FALSE, stage |-> <<>>, stage_pos |-> 0, cctx |-> c]

\* lz4f_encoder_new.
FrameNew == IsFrame /\ Open(FrameStart(job.level, NoCctx))

\* Mutant: the preferences of the previous frame are kept.
FrameResetKeepsPrefs(lv) ==
    {<<ZU_OK, [FrameStart(LevelAsked(lv, enc.level), enc.cctx) EXCEPT !.size = enc.size]>>}

\* Mutant: the stage of the previous frame is kept.
FrameResetKeepsStage(lv) ==
    {<<ZU_OK, [FrameStart(LevelAsked(lv, enc.level), enc.cctx) EXCEPT
                 !.stage = enc.stage, !.stage_pos = enc.stage_pos]>>}

\* lz4f_encoder_reset: fresh preferences, the context left as it was.
FrameReset(lv) == {<<ZU_OK, FrameStart(LevelAsked(lv, enc.level), enc.cctx)>>}

FrameResets == IsFrame /\ ResetByCaller([lv \in ResetLevels |-> FrameReset(lv)])

\* `flushed` is a local of the call.
FrameReturn(st, p, o, e) == Return(st, p, o, [e EXCEPT !.flushed = FALSE])

\* The library's answer goes to the stage.
Staged(p, o, e, c) ==
    Continue(p, o, [e EXCEPT !.stage = c.pend, !.stage_pos = 0,
                             !.cctx = [c EXCEPT !.pend = <<>>]])

\* LZ4F_compressBegin: with the end announced the frame can say how long it
\* is.  The context allocates its buffers here.
FrameBegin(o, e) ==
    LET size == IF flush = ZU_FINISH THEN AvailIn ELSE e.size
        b    == [e EXCEPT !.started = TRUE, !.size = size]
    IN  \/ Staged(pos, o, b, CompressBegin(Lz4Level(e.level), size))
        \/ FrameReturn(ZU_ERR_MEMORY, pos, o, b)

\* LZ4F_compressEnd.
FrameEnd(o, e) ==
    IF SizeIsWrong(e.cctx) THEN FrameReturn(ZU_ERR_INTERNAL, pos, o, e)
    ELSE Staged(pos, o, [e EXCEPT !.ended = TRUE], CompressEnd(e.cctx))

\* LZ4F_compressUpdate, of one chunk; the library takes all of it.
FrameUpdate(o, e) ==
    LET take == Least(AvailIn, FrameChunk)
    IN  Staged(pos + take, o, e, CompressUpdate(e.cctx, Take(Offered, take)))

\* Mutant: the call does not remember that it has flushed.
FrameFlushAgain(o, e) == Staged(pos, o, e, CloseBlock(e.cctx, <<>>))

\* LZ4F_flush, once in a call.
FrameFlush(o, e) ==
    Staged(pos, o, [e EXCEPT !.flushed = TRUE], CloseBlock(e.cctx, <<>>))

\* One turn of lz4f_encoder_process.
FrameTurn ==
    /\ Asked /\ IsFrame
    /\ \E d \in {Drain(enc, out)} :
         LET o == d.out
             e == d.e
         IN  IF ~d.done THEN FrameReturn(ZU_NEED_OUTPUT, pos, o, e)
             ELSE IF e.done \/ e.ended
               THEN FrameReturn(ZU_STREAM_END, pos, o, [e EXCEPT !.done = TRUE])
             ELSE IF ~e.started THEN FrameBegin(o, e)
             ELSE IF AvailIn > 0 THEN FrameUpdate(o, e)
             ELSE IF flush = ZU_FINISH THEN FrameEnd(o, e)
             ELSE IF flush = ZU_FLUSH /\ ~e.flushed THEN FrameFlush(o, e)
             ELSE FrameReturn(ZU_NEED_INPUT, pos, o, e)

----------------------------------------------------------------------------
IsBlock == job.codec = "lz4block"

\* zu_int_lz4b_clear leaves the level and forgets the rest.
BlockStart(lv) ==
    [level |-> lv, in |-> <<>>, stage |-> <<>>, stage_pos |-> 0, done |-> FALSE]

\* lz4b_encoder_new.
BlockNew == IsBlock /\ Open(BlockStart(job.level))

\* lz4b_encoder_reset.
BlockReset(lv) == {<<ZU_OK, BlockStart(LevelAsked(lv, enc.level))>>}

BlockResets == IsBlock /\ ResetByCaller([lv \in ResetLevels |-> BlockReset(lv)])

\* zu_int_lz4b_compress: a block of n bytes is n + 1 tokens here, and
\* LZ4_compressBound one more.
BlockOf(bytes, lv) == Append(Compressed(bytes, Lz4Level(lv)), <<"last", 0, 0>>)
CompressBound(n) == n + 2

\* zu_int_lz4b_gather: what the caller offers, or why not.
Gather ==
    IF AvailIn = 0 THEN {<<ZU_OK, enc.in>>}
    ELSE IF Len(enc.in) + AvailIn > MaxBlockInput THEN {<<ZU_ERR_INVALID_ARGUMENT, enc.in>>}
    ELSE {<<ZU_OK, enc.in \o Offered>>, <<ZU_ERR_MEMORY, enc.in>>}

Gathered(g) == pos + Len(g[2]) - Len(enc.in)

\* zu_int_lz4b_stage cannot get its memory: the input stays gathered.
BlockStagingFails(in) ==
    Return(ZU_ERR_MEMORY, pos + Len(in) - Len(enc.in), out, [enc EXCEPT !.in = in])

\* The block is made, the input given up, and the stage drained.
BlockStaged(in) ==
    \E d \in {Drain([enc EXCEPT !.in = <<>>, !.stage = BlockOf(in, enc.level),
                                !.stage_pos = 0, !.done = TRUE], out)} :
      Return(IF d.done THEN ZU_STREAM_END ELSE ZU_NEED_OUTPUT,
             pos + Len(in) - Len(enc.in), d.out, d.e)

\* Nothing gathered and room for the worst case: straight to the window.
OneShotBlock ==
    /\ enc.in = <<>>
    /\ AvailIn <= MaxBlockInput
    /\ AvailOut >= CompressBound(AvailIn)

\* lz4b_encoder_process.
BlockTurn ==
    /\ Asked /\ IsBlock
    /\ IF enc.done
         THEN \E d \in {Drain(enc, out)} :
                Return(IF d.done THEN ZU_STREAM_END ELSE ZU_NEED_OUTPUT, pos, d.out, d.e)
       ELSE IF flush = ZU_FINISH /\ OneShotBlock
         THEN Return(ZU_STREAM_END, fed, out \o BlockOf(Offered, enc.level),
                     [enc EXCEPT !.done = TRUE])
       ELSE \E g \in Gather :
              IF g[1] # ZU_OK \/ flush # ZU_FINISH
                THEN Return(IF g[1] # ZU_OK THEN g[1] ELSE ZU_NEED_INPUT,
                            Gathered(g), out, [enc EXCEPT !.in = g[2]])
                ELSE BlockStaged(g[2]) \/ BlockStagingFails(g[2])

Lz4Step == FrameNew \/ FrameResets \/ FrameTurn \/ BlockNew \/ BlockResets \/ BlockTurn

----------------------------------------------------------------------------
\* What the stream must be; a frame may declare its size.
Lz4FrameStreams(n, lv) ==
    LET input == [i \in 1 .. n |-> i]
        sum   == ChecksumUpdate(0, input)
    IN  {<< <<"frame", size, 0>> >> \o Compressed(input, lv)
           \o << <<"endmark", 0, 0>>, <<"xxh", sum, 0>> >> : size \in {0, n}}

Lz4BlockStream(n, lv) == Append(Compressed([i \in 1 .. n |-> i], lv), <<"last", 0, 0>>)
=============================================================================
