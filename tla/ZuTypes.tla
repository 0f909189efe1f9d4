------------------------------ MODULE ZuTypes ------------------------------
(***************************************************************************)
(* The vocabulary of the public C ABI (inst/include/zukomp.h) that every   *)
(* other module shares: what a call returns and what a caller may ask for. *)
(***************************************************************************)
EXTENDS Naturals

\* The four progress reports of zu_status.
ZU_OK          == "ZU_OK"
ZU_NEED_INPUT  == "ZU_NEED_INPUT"
ZU_NEED_OUTPUT == "ZU_NEED_OUTPUT"
ZU_STREAM_END  == "ZU_STREAM_END"

\* The errors: everything from ZU_ERR_INVALID_ARGUMENT on.
ZU_ERR_INVALID_ARGUMENT == "ZU_ERR_INVALID_ARGUMENT"
ZU_ERR_UNSUPPORTED      == "ZU_ERR_UNSUPPORTED"
ZU_ERR_INVALID_DATA     == "ZU_ERR_INVALID_DATA"
ZU_ERR_TRUNCATED        == "ZU_ERR_TRUNCATED"
ZU_ERR_CHECKSUM         == "ZU_ERR_CHECKSUM"
ZU_ERR_TRAILING         == "ZU_ERR_TRAILING"
ZU_ERR_MEMORY           == "ZU_ERR_MEMORY"
ZU_ERR_OUTPUT_LIMIT     == "ZU_ERR_OUTPUT_LIMIT"
ZU_ERR_RATIO_LIMIT      == "ZU_ERR_RATIO_LIMIT"
ZU_ERR_INTERNAL         == "ZU_ERR_INTERNAL"

Progress == {ZU_OK, ZU_NEED_INPUT, ZU_NEED_OUTPUT, ZU_STREAM_END}

Errors == {ZU_ERR_INVALID_ARGUMENT, ZU_ERR_UNSUPPORTED, ZU_ERR_INVALID_DATA,
           ZU_ERR_TRUNCATED, ZU_ERR_CHECKSUM, ZU_ERR_TRAILING, ZU_ERR_MEMORY,
           ZU_ERR_OUTPUT_LIMIT, ZU_ERR_RATIO_LIMIT, ZU_ERR_INTERNAL}

Status == Progress \cup Errors

\* What a caller asks of a process() call.
ZU_RUN    == "ZU_RUN"
ZU_FLUSH  == "ZU_FLUSH"
ZU_FINISH == "ZU_FINISH"

Flush == {ZU_RUN, ZU_FLUSH, ZU_FINISH}

(***************************************************************************)
(* A record of one call of a handle's entry points, kept so that           *)
(* properties can speak of it: the entry point, the status it returned,    *)
(* the codec's own status when it was asked, and the input left in the     *)
(* caller's buffer afterwards.                                             *)
(***************************************************************************)
NotAsked == "NotAsked"

Answers == [op     : {"none", "new", "process", "reset", "free"},
            status : Status,
            st     : Status \cup {NotAsked},
            left   : Nat]

Answer(op, status, st, left) ==
    [op |-> op, status |-> status, st |-> st, left |-> left]
=============================================================================
