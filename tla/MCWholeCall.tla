---------------------------- MODULE MCWholeCall ----------------------------
(* Two frames over three heap blocks, so that an address freed by one call *)
(* is reused by the next while finalizers are still pending.               *)
EXTENDS WholeCall

CONSTANTS b1, b2, b3, f1, f2
=============================================================================
