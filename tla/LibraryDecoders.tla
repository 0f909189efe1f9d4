-------------------------- MODULE LibraryDecoders --------------------------
(***************************************************************************)
(* The decoders other than the DEFLATE family's under the whole-buffer     *)
(* loop: zstd and lz4-frame, lz4-block, and the identity codec, whose      *)
(* process function serves both directions (codec_identity.c).             *)
(***************************************************************************)
EXTENDS FramedDecoder, Lz4BlockDecoder

\* To the identity codec a token is a byte.
ASSUME IdentityAssumption ==
    \A j \in Jobs : j.wrap = "identity" =>
        \A i \in 1 .. Len(j.input) : j.input[i][2] = 1

vars == <<loopVars, frameVars, b>>

Init == LoopInit /\ FrameInit /\ BlockInit

\* identity_process: tokens are bytes that decode to themselves.
IdentityDecode ==
    /\ pc = "codec" /\ job.wrap = "identity"
    /\ LET n == LeastOf(AvailIn, AvailOut)
       IN  Return(IF n < AvailIn THEN ZU_NEED_OUTPUT
                  ELSE IF flush = ZU_FINISH THEN ZU_STREAM_END ELSE ZU_NEED_INPUT,
                  pos + n, out \o FlattenSeq([i \in 1 .. n |-> BytesOf(pos + i)]))

Next == \/ LoopStep /\ UNCHANGED <<frameVars, b>>
        \/ FrameStep /\ UNCHANGED b
        \/ BlockStep /\ UNCHANGED frameVars
        \/ IdentityDecode /\ UNCHANGED <<frameVars, b>>
        \/ Returned /\ UNCHANGED <<frameVars, b>>

\* Sequential code: a step that can be taken is taken.
Spec == Init /\ [][Next]_vars /\ WF_vars(Next)

\* The identity codec under the driver's limits is exact: what comes out is
\* what went in, cut at the ceiling, and the verdict is the ceiling's exactly
\* when the input is larger.
IdentityIsExact ==
    Whole /\ job.wrap = "identity" /\ pc \in {"close", "closed"} /\ result # ZU_ERR_MEMORY =>
        LET n    == Len(job.input)
            over == HasCeiling(job.opts) /\ n > Ceiling(job.opts)
        IN  /\ out = FlattenSeq([i \in 1 .. IF over THEN Ceiling(job.opts) ELSE n |-> BytesOf(i)])
            /\ result = IF over THEN OverStatus(job.opts)
                        ELSE IF job.opts.has_expected /\ n # job.opts.expected_size
                          THEN ZU_ERR_INVALID_DATA
                        ELSE ZU_STREAM_END

\* The verdict of the codecs without a frame of their own is exact.
UnframedVerdicts == BlockVerdictIsExact /\ IdentityIsExact

\* zu_decompress_one needs no spare room with any of these codecs: it
\* succeeds in a buffer of exactly the stream's size and in no smaller one.
OneShotDecodes ==
    OneShotSettled /\ ~HasCeiling(job.opts) /\ job.opts.max_ratio = 0 =>
        CASE IsFramed -> OneShotRight({RefVerdict}, Reference.out)
          [] IsBlock -> OneShotRight(BlockVerdict, Decoded(SoundPart(Len(job.input))))
          [] OTHER -> OneShotRight({ZU_STREAM_END}, Decoded(Len(job.input)))

\* Every decode returns: no decoder's loop spins and no search goes on
\* forever.
DecodesReturn == <>(pc = "closed")
=============================================================================
