---------------------------- MODULE EncoderRules ----------------------------
(***************************************************************************)
(* The decisions the encoder's entry points take before a codec is asked   *)
(* (zu_stream.c): which levels a codec accepts, and when a process() call  *)
(* is answered by the handle alone.  ZuEncoder puts these rules around an  *)
(* arbitrary codec, EncodeLoop around the concrete ones.                   *)
(***************************************************************************)
EXTENDS Integers, ZuTypes

CONSTANT ZU_LEVEL_DEFAULT   \* INT32_MIN: a level no codec advertises

ASSUME LevelAssumption == ZU_LEVEL_DEFAULT \in Int

EncoderVtables == [registered : BOOLEAN, can_encode : BOOLEAN,
                   can_flush : BOOLEAN, has_reset : BOOLEAN,
                   level_min : Int, level_max : Int, level_default : Int]

\* No level axis: the only level is 0.
NoLevels(v) == v.level_min = 0 /\ v.level_max = 0 /\ v.level_default = 0

\* zu_int_check_level.
CheckLevel(v, level) ==
    \/ level = ZU_LEVEL_DEFAULT
    \/ NoLevels(v) /\ level = 0
    \/ ~NoLevels(v) /\ level >= v.level_min /\ level <= v.level_max

\* Whether zu_encoder_process() answers without asking the codec: the stream
\* has ended, or the codec does not flush.
Refused(v, finished, flush) ==
    finished \/ (flush = ZU_FLUSH /\ ~v.can_flush)

\* What it then answers.  Feeding a terminated stream is a caller's bug.
Refusal(finished, left) ==
    IF ~finished THEN ZU_ERR_UNSUPPORTED
    ELSE IF left > 0 THEN ZU_ERR_INVALID_ARGUMENT
    ELSE ZU_STREAM_END
=============================================================================
