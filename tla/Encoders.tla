------------------------------ MODULE Encoders ------------------------------
(***************************************************************************)
(* Every built-in encoder under every caller: the three loops of           *)
(* EncodeLoop over the codec modules, and the identity codec               *)
(* (codec_identity.c), whose process function serves both directions.      *)
(***************************************************************************)
EXTENDS DeflateEncoder, Lz4Encoders, ZstdEncoder

IsIdentity == job.codec = "identity"

\* identity_encoder_new and _reset: there is no state.
IdentityNew == IsIdentity /\ Open([stateless |-> TRUE])
IdentityReset(lv) == {<<ZU_OK, enc>>}
IdentityResets == IsIdentity /\ ResetByCaller([lv \in ResetLevels |-> IdentityReset(lv)])

IdentityStatus(left) ==
    IF left > 0 THEN ZU_NEED_OUTPUT
    ELSE IF flush = ZU_FINISH THEN ZU_STREAM_END ELSE ZU_NEED_INPUT

\* identity_process.
IdentityTurn ==
    /\ Asked /\ IsIdentity
    /\ LET n == Least(AvailIn, AvailOut)
       IN  Return(IdentityStatus(AvailIn - n), pos + n,
                  out \o Compressed(Take(Offered, n), 0), enc)

IdentityStep == IdentityNew \/ IdentityResets \/ IdentityTurn

Next == \/ LoopStep
        \/ DeflateStep \/ Lz4Step \/ ZstdStep \/ IdentityStep
        \/ Returned

\* Sequential code: a step that can be taken is taken.
Spec == Init /\ [][Next]_encVars /\ WF_encVars(Next)

----------------------------------------------------------------------------
(***************************************************************************)
(* The codecs seen alike: what each has made and not delivered, the input  *)
(* each has taken and not compressed, and the streams it may produce.      *)
(***************************************************************************)
Opened == pc \notin {"open"} /\ enc # NoState

Undelivered ==
    CASE IsDeflate -> enc.mz.pend
      [] IsFrame \/ IsBlock -> Drop(enc.stage, enc.stage_pos)
      [] IsZstd -> enc.cctx.pend
      [] IsIdentity -> <<>>

HeldBack ==
    CASE IsDeflate -> enc.mz.held
      [] IsFrame -> IF enc.started THEN enc.cctx.held ELSE <<>>
      [] IsZstd -> enc.cctx.held
      [] IsBlock -> enc.in
      [] IsIdentity -> <<>>

Usable == IsDeflate => enc.mz.live

\* The level the codec compresses at.
LevelInUse ==
    CASE IsDeflate -> enc.mz.level
      [] IsFrame \/ IsBlock -> Lz4Level(enc.level)
      [] IsZstd -> enc.cctx.param
      [] IsIdentity -> asked

CompleteStreams(n, lv) ==
    CASE IsDeflate -> {DeflateStream(n, lv)}
      [] IsFrame -> Lz4FrameStreams(n, lv)
      [] IsZstd -> ZstdStreams(n, lv)
      [] IsBlock -> {Lz4BlockStream(n, lv)}
      [] IsIdentity -> {Compressed([i \in 1 .. n |-> i], 0)}

SyncMarks(s) == SelectSeq(s, LAMBDA t : t = Sync)

NoSyncMarks(s) ==
    FlattenSeq([i \in 1 .. Len(s) |-> IF s[i] = Sync THEN <<>> ELSE <<s[i]>>])

\* The input bytes the tokens carry, in their order.
BytesIn(s) ==
    FlattenSeq([i \in 1 .. Len(s) |-> IF s[i][1] = "data" THEN <<s[i][2]>> ELSE <<>>])

----------------------------------------------------------------------------
\* Input is neither lost, repeated nor reordered between the caller's
\* slices, the codec's and the library's buffers and windows of any size:
\* what was delivered, what waits and what is held back is the input so far.
NothingLost ==
    Opened /\ Usable /\ result # ZU_ERR_MEMORY =>
        BytesIn(out) \o BytesIn(Undelivered) \o HeldBack = [i \in 1 .. pos |-> i]

\* A stream that has ended is complete and is the one asked for: header,
\* body at the level last asked for, trailer over exactly the input, and a
\* declared size that is true, whatever windows, flushes and resets came
\* before.  The loops also leave no input behind.
StreamIsWhole ==
    Opened /\ finished =>
        /\ NoSyncMarks(out) \in CompleteStreams(pos, asked)
        /\ pos = fed
        /\ job.driver # "caller" => pos = job.n

\* A flush that is answered by asking for more input has put everything fed
\* so far on the wire.
FlushDelivers ==
    (/\ Opened /\ pc = "call"
     /\ flush = ZU_FLUSH /\ last.op = "process" /\ last.st = ZU_NEED_INPUT) =>
        pos = fed /\ Undelivered = <<>> /\ HeldBack = <<>>

\* An error has a cause outside the encoder: memory, a codec that does not
\* flush, input after the end, a block too large for liblz4, or a handle
\* whose reset failed.  In particular a declared size never turns out
\* wrong, and no loop mistakes a waiting codec for a stuck one.
ErrorsHaveACause ==
    /\ (pc # "process" /\ last.op = "process" /\ last.status \in Errors) =>
         CASE last.status = ZU_ERR_MEMORY -> last.st = ZU_ERR_MEMORY
           [] last.status = ZU_ERR_UNSUPPORTED ->
                flush = ZU_FLUSH /\ ~CodecTable[job.codec].can_flush
           [] last.status = ZU_ERR_INVALID_ARGUMENT ->
                \/ finished /\ last.left > 0
                \/ IsBlock /\ Len(enc.in) + last.left > MaxBlockInput
           [] last.status = ZU_ERR_INVALID_DATA -> ~Usable
           [] OTHER -> FALSE
    /\ result # ZU_ERR_INTERNAL

\* A reset leaves an encoder that works at the level last asked for, or says
\* that it does not.  One that fails leaves the codec untouched, unless it
\* was memory for another level that ran out: the DEFLATE stream is gone
\* then, every reset to the same level fails, and only another level brings
\* the handle back.
ResetsReopen ==
    [][resets' # resets =>
         /\ last'.status = ZU_OK =>
              /\ Usable' /\ LevelInUse' = asked'
              /\ ~Usable => asked' # asked
         /\ last'.status # ZU_OK =>
              /\ enc' = enc \/ (last'.status = ZU_ERR_MEMORY /\ ~Usable')
              /\ last'.status = ZU_ERR_INVALID_DATA => ~Usable]_encVars

\* zu_compress_one succeeds exactly when the stream fits the buffer, the
\* last byte included, and otherwise says that the buffer is too small.
OneShotVerdict ==
    (/\ job.driver = "one_shot" /\ pc \in {"close", "closed"}
     /\ result \notin {ZU_ERR_MEMORY, ZU_ERR_INVALID_ARGUMENT}) =>
        result = IF \E s \in CompleteStreams(job.n, asked) : Len(s) <= job.room
                   THEN ZU_OK ELSE ZU_ERR_OUTPUT_LIMIT

\* Every encode returns: no codec's loop spins, whatever the windows and
\* the flush interval, and no driver waits for output that never comes.
EncodesReturn == <>(pc = "closed")

\* Each loop drives the handle as ZuEncoder specifies it for any codec.
ImplementsHandle == Handle!Spec

\* zu_whole.c on what a flush costs: "every sync flush inserts an empty
\* stored block"; zukomp.h on ZU_FLUSH: "emit everything buffered so far,
\* stream continues".  One call that flushes emits at most one marker.
OneMarkerPerFlush ==
    (/\ pc = "call" /\ flush = ZU_FLUSH /\ last.op = "process") =>
        Len(SyncMarks(Drop(out, call.out))) <= 1
=============================================================================
