---------------------------- MODULE DriverRules ----------------------------
(***************************************************************************)
(* The decisions zu_decoder_process() takes around one call of a codec, as *)
(* operators (zu_stream.c).  The driver shrinks the window it shows the    *)
(* codec to what the limits leave, then turns the codec's status into the  *)
(* status the caller sees.  ZuDecoder puts these rules around an arbitrary *)
(* codec, DecodeLoop around the concrete ones.                             *)
(***************************************************************************)
EXTENDS Naturals, ZuTypes

CONSTANT U64Max   \* UINT64_MAX: the width of the driver's byte counters

ASSUME U64MaxAssumption == U64Max \in Nat \ {0}

(***************************************************************************)
(* zu_decoder_opts as the core reads it.  0 means unlimited for both       *)
(* limits; a size of 0 is a real expected size, hence the separate flag.   *)
(***************************************************************************)
LimitOpts == [max_output    : 0 .. U64Max,
              max_ratio     : 0 .. U64Max,
              has_expected  : BOOLEAN,    \* ZU_DEC_EXPECTED_SIZE
              expected_size : 0 .. U64Max,
              reject        : BOOLEAN,    \* ZU_DEC_REJECT_TRAILING
              concat        : BOOLEAN]    \* ZU_DEC_CONCAT_MEMBERS

NoLimits == [max_output |-> 0, max_ratio |-> 0, has_expected |-> FALSE,
             expected_size |-> 0, reject |-> FALSE, concat |-> FALSE]

(***************************************************************************)
(* The output ceiling: max_output, or the expected size when that is the   *)
(* tighter of the two.  On a tie the expected size explains the failure.   *)
(***************************************************************************)
ExpectedBinds(o) ==
    o.has_expected /\ (o.max_output = 0 \/ o.expected_size <= o.max_output)

HasCeiling(o) == o.max_output # 0 \/ o.has_expected

Ceiling(o) == IF ExpectedBinds(o) THEN o.expected_size ELSE o.max_output

\* Mutant: whichever limit binds, the policy is blamed.
OverStatusAlwaysPolicy(o) == ZU_ERR_OUTPUT_LIMIT

OverStatus(o) ==
    IF ExpectedBinds(o) THEN ZU_ERR_INVALID_DATA ELSE ZU_ERR_OUTPUT_LIMIT

Remaining(o, total_out) ==
    IF total_out < Ceiling(o) THEN Ceiling(o) - total_out ELSE 0

\* Whether the limits, and not the caller's own buffer, bound this call.
Capped(o, total_out, room) ==
    HasCeiling(o) /\ Remaining(o, total_out) < room

\* Mutant: the window is not shrunk, only checked afterwards.
AllowanceUnshrunk(o, total_out, room) == room

\* The room the codec is shown.
Allowance(o, total_out, room) ==
    IF Capped(o, total_out, room) THEN Remaining(o, total_out) ELSE room

\* Mutant: the 64-bit product wraps.
RatioAllowedWrapping(o, total_in) == (total_in * o.max_ratio) % (U64Max + 1)

(***************************************************************************)
(* The ratio check: what `total_in` bytes of input may have expanded to,   *)
(* saturating where the 64-bit product would wrap.                         *)
(***************************************************************************)
RatioAllowed(o, total_in) ==
    IF total_in = 0 THEN 0
    ELSE IF total_in > U64Max \div o.max_ratio THEN U64Max
    ELSE total_in * o.max_ratio

\* Mutant: no input consumed yet is taken for nothing to check.
RatioExceededNeedsInput(o, st, total_in, total_out) ==
    /\ st # ZU_ERR_OUTPUT_LIMIT
    /\ o.max_ratio # 0
    /\ total_in > 0
    /\ total_out > RatioAllowed(o, total_in)

RatioExceeded(o, st, total_in, total_out) ==
    /\ st # ZU_ERR_OUTPUT_LIMIT
    /\ o.max_ratio # 0
    /\ total_out > 0
    /\ total_out > RatioAllowed(o, total_in)

(***************************************************************************)
(* The status zu_decoder_process() returns once the codec has answered:    *)
(* the chain of early returns after the call, in the code's order.  `c`    *)
(* describes the call: the codec's status st, whether the window was       *)
(* capped and to what allowance, how much was produced, how much input is  *)
(* left in the caller's buffer, and the totals including this call.        *)
(***************************************************************************)
DriverStatus(o, c) ==
    IF c.st = ZU_STREAM_END /\ o.has_expected /\ c.total_out # o.expected_size
      THEN ZU_ERR_INVALID_DATA
    ELSE IF c.st = ZU_STREAM_END /\ c.left > 0 /\ o.reject
      THEN ZU_ERR_TRAILING
    ELSE IF c.capped /\ c.st = ZU_NEED_OUTPUT /\ c.produced = c.allowance
      THEN OverStatus(o)
    ELSE IF c.capped /\ c.allowance = 0 /\ c.st # ZU_STREAM_END /\ c.left > 0
      THEN OverStatus(o)
    ELSE IF o.max_output # 0 /\ c.total_out > o.max_output
      THEN ZU_ERR_OUTPUT_LIMIT
    ELSE IF o.has_expected /\ c.total_out > o.expected_size
      THEN ZU_ERR_INVALID_DATA
    ELSE IF RatioExceeded(o, c.st, c.total_in, c.total_out)
      THEN ZU_ERR_RATIO_LIMIT
    ELSE c.st
=============================================================================
