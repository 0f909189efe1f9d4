------------------------------- MODULE RCalls -------------------------------
(***************************************************************************)
(* The two user-level calls, komp_compress() and komp_decompress(), from   *)
(* their R arguments down to the handle the core opens for them: the       *)
(* argument checks of R/compress.R, which read the cached codec table; the *)
(* narrowing of R numbers to the C ABI's integers (zukomp_r.c); and the    *)
(* checks of zu_encoder_new() and zu_decoder_new() (zu_stream.c).  What    *)
(* the handle then does with the bytes is WholeCall's, and the codecs'.    *)
(*                                                                         *)
(* An R argument is NULL, a string, NA, Inf or a number; numbers are       *)
(* counted in halves, so that fractions exist.                             *)
(***************************************************************************)
EXTENDS Registry

CONSTANTS
    IntMax,         \* .Machine$integer.max
    RealMax,        \* 2^53: whole numbers stop being exact in a double
    LevelArgs,      \* what users pass as `level`
    LimitArgs       \* ... as `max_output` and `max_ratio`, in pairs

ASSUME CallAssumption ==
    /\ IntMax \in Nat /\ RealMax \in Nat
    /\ "auto" \notin Names
    /\ ZU_LEVEL_DEFAULT = -IntMax - 1
    /\ \A a \in LevelArgs :
          a.kind \in {"null", "name", "na", "inf", "num"} /\ a.halves \in Int
    /\ \A m \in LimitArgs : \A a \in {m.out, m.ratio} :
          a.kind \in {"null", "na", "inf", "num"} /\ a.halves \in Int

VARIABLE outcome    \* the call in progress: what it asked, what it opened

rvars == <<vars, outcome>>

NoCall == [call |-> "none"]

RInit == Init /\ outcome = NoCall

Whole(a) == a.kind = "num" /\ a.halves % 2 = 0

Value(a) == a.halves \div 2

----------------------------------------------------------------------------
(***************************************************************************)
(* Levels.  What R hands to C is NULL, an integer (which may be NA), or    *)
(* nothing because the check raised a condition.                           *)
(***************************************************************************)
Raised       == [kind |-> "raised", level |-> 0]
PassNull     == [kind |-> "null", level |-> 0]
PassLevel(n) == [kind |-> "level", level |-> n]

\* zu_level_from_name.
LevelFromName(row, name) ==
    IF name \notin {"fast", "default", "best"} THEN Raised
    ELSE IF row.levels.min = NA \/ name = "default" THEN PassNull
    ELSE PassLevel(IF name = "fast" THEN row.levels.fast ELSE row.levels.best)

\* zu_check_level.
ZuCheckLevel(row, a) ==
    CASE a.kind = "null" -> PassNull
      [] a.kind = "name" -> LevelFromName(row, a.name)
      [] OTHER ->
           IF \/ ~Whole(a) \/ Value(a) > IntMax \/ Value(a) < -IntMax
              \/ row.levels.min = NA /\ Value(a) # 0
              \/ row.levels.min # NA /\ (\/ Value(a) < row.levels.min
                                         \/ Value(a) > row.levels.max)
             THEN Raised
           ELSE PassLevel(Value(a))

\* Mutant: NA is not told apart from the default, which it looks like.
LevelFromSexpTrusting(p) == [ok |-> TRUE, level |-> IF p.kind = "null" THEN ZU_LEVEL_DEFAULT
                                                    ELSE p.level]

\* zu_int_level_from_sexp.
LevelFromSexp(p) ==
    [ok    |-> p.kind = "null" \/ p.level # NA,
     level |-> IF p.kind = "null" THEN ZU_LEVEL_DEFAULT ELSE p.level]

----------------------------------------------------------------------------
(***************************************************************************)
(* Limits.  0 is "no limit" to the core.                                   *)
(***************************************************************************)

\* Mutant: a fraction is truncated on the way to C.
ZuCheckLimitTruncating(a, upper) ==
    CASE a.kind \in {"null", "inf"} -> PassLevel(0)
      [] a.kind = "na" -> Raised
      [] OTHER -> IF a.halves < 0 \/ Value(a) > upper THEN Raised ELSE PassLevel(Value(a))

\* zu_check_limit; Inf is a spelling of 0.
ZuCheckLimit(a, upper) ==
    CASE a.kind \in {"null", "inf"} -> PassLevel(0)
      [] a.kind = "na" -> Raised
      [] OTHER -> IF ~Whole(a) \/ a.halves < 0 \/ Value(a) > upper THEN Raised
                  ELSE PassLevel(Value(a))

\* zu_int_u64_from_real and zu_int_u32_from_int, on what R lets through.
NarrowsTo(n, upper) == n >= 0 /\ n <= upper

----------------------------------------------------------------------------
\* zu_codec_lookup at the top of zu_int_whole, then zu_int_resolve.
ResolveStatus(codec, encode) ==
    IF ~Registered(codec) THEN ZU_ERR_UNSUPPORTED
    ELSE IF ~(IF encode THEN VtableOf(codec).can_encode ELSE VtableOf(codec).can_decode)
      THEN ZU_ERR_UNSUPPORTED
    ELSE ZU_OK

\* zukomp_compress, on a level R let through.
CompressStatus(codec, l) ==
    IF ~l.ok THEN ZU_ERR_INVALID_ARGUMENT
    ELSE IF ResolveStatus(codec, TRUE) # ZU_OK THEN ZU_ERR_UNSUPPORTED
    ELSE IF ~CheckLevel(VtableOf(codec), l.level) THEN ZU_ERR_INVALID_ARGUMENT
    ELSE ZU_OK

\* zukomp_decompress, on limits R let through.
DecompressStatus(codec, out, ratio) ==
    IF ~NarrowsTo(out, RealMax) \/ ~NarrowsTo(ratio, IntMax) THEN ZU_ERR_INVALID_ARGUMENT
    ELSE ResolveStatus(codec, FALSE)

\* komp_compress().  The name check comes first; a call it refuses ends there.
KompCompress(name, a) ==
    /\ outcome = NoCall
    /\ CheckCodecName(name)
    /\ LET row == CHOOSE r \in cache'.rows : r.id = name
           p   == ZuCheckLevel(row, a)
           l   == LevelFromSexp(p)
       IN  outcome' =
             IF answer'.r # "available" THEN NoCall
             ELSE [call |-> "compress", codec |-> Lookup(name), asked |-> a,
                   status |-> IF p = Raised THEN NotAsked
                              ELSE CompressStatus(Lookup(name), l),
                   level |-> l.level]

\* The rest of komp_decompress(), once the codec has a name.
Decompress(name, x, m) ==
    LET o == ZuCheckLimit(m.out, RealMax)
        r == ZuCheckLimit(m.ratio, IntMax)
    IN  [call |-> "decompress", codec |-> Lookup(name), input |-> x, asked |-> m,
         status |-> IF Raised \in {o, r} THEN NotAsked
                    ELSE DecompressStatus(Lookup(name), o.level, r.level),
         out |-> o.level, ratio |-> r.level]

\* komp_decompress() of a named codec.
KompDecompress(name, m) ==
    /\ outcome = NoCall
    /\ CheckCodecName(name)
    /\ outcome' = IF answer'.r # "available" THEN NoCall
                  ELSE Decompress(name, "none", m)

\* komp_decompress(codec = "auto"): zukomp_detect() turns the bytes into a
\* name, which the core looks up again; the cached table is not asked.
KompDecompressAuto(x, m) ==
    /\ outcome = NoCall
    /\ Loaded
    /\ outcome' = IF Sniff(x) = ZU_CODEC_NONE
                    THEN [call |-> "undetectable", input |-> x]
                    ELSE Decompress(VtableOf(Sniff(x)).name, x, m)
    /\ UNCHANGED vars

\* The call returns to R, one at a time; satellites load in between.
CallReturns ==
    /\ outcome # NoCall
    /\ outcome' = NoCall
    /\ UNCHANGED vars

RNext ==
    \/ outcome = NoCall /\ Next /\ UNCHANGED outcome
    \/ \E name \in Names, a \in LevelArgs : KompCompress(name, a)
    \/ \E name \in Names, m \in LimitArgs : KompDecompress(name, m)
    \/ \E x \in Inputs, m \in LimitArgs : KompDecompressAuto(x, m)
    \/ CallReturns

RSpec == RInit /\ [][RNext]_rvars

----------------------------------------------------------------------------
\* A codec whose level columns R can read, and whose names fall in its range.
\* Registration checks neither.
LevelsAreReadable(v) ==
    /\ v.level_min # NA
    /\ NoLevels(v) \/ \A n \in {LevelFast(v), LevelBest(v)} : n # NA /\ CheckLevel(v, n)

\* The two layers that validate a level agree: a whole number is refused by
\* R exactly when the core would refuse it, and one that is let through is
\* the one the encoder is opened with; the abstract names work for every
\* codec; and the codec's default is used only when it was asked for, never
\* because a level was lost in narrowing (NA_INTEGER is ZU_LEVEL_DEFAULT).
LevelsAgree ==
    outcome.call = "compress" =>
        LET v    == VtableOf(outcome.codec)
            a    == outcome.asked
            open == outcome.status = ZU_OK
        IN  /\ open /\ outcome.level = ZU_LEVEL_DEFAULT =>
                  \/ a.kind = "null"
                  \/ a.kind = "name" /\ (a.name = "default" \/ NoLevels(v) \/ v.level_min = NA)
            /\ open /\ a.kind = "num" => 2 * outcome.level = a.halves
            /\ v.can_encode /\ LevelsAreReadable(v) =>
                  /\ a.kind = "num" =>
                        (open <=> /\ Whole(a) /\ Value(a) # ZU_LEVEL_DEFAULT
                                  /\ CheckLevel(v, Value(a)))
                  /\ a.kind = "name" => (open <=> a.name \in {"fast", "default", "best"})
                  /\ open \/ outcome.status = NotAsked

\* A decoder that was opened enforces the limits that were asked for: a
\* guard is off only when NULL, Inf or 0 said so, and is never a rounded or
\* wrapped number.
LimitsSurvive ==
    (outcome.call = "decompress" /\ outcome.status = ZU_OK) =>
        \A p \in {<<outcome.asked.out, outcome.out>>, <<outcome.asked.ratio, outcome.ratio>>} :
            \/ p[1].kind \in {"null", "inf"} /\ p[2] = 0
            \/ p[1].kind = "num" /\ p[1].halves = 2 * p[2]

\* Bytes some registered codec recognises are decoded by that codec, although
\* its identity goes through a name and back; and a caller who was not told
\* "undetectable" or "unsupported" got a codec that can decode.
DetectionIsFollowed ==
    (outcome.call = "decompress" /\ outcome.input # "none") =>
        /\ outcome.codec = Sniff(outcome.input)
        /\ outcome.status # NotAsked =>
              (outcome.status = ZU_OK <=> VtableOf(Sniff(outcome.input)).can_decode)
=============================================================================
