---------------------------- MODULE MCZuEncoder ----------------------------
(* A small instance of ZuEncoder: a codec with levels that can flush and   *)
(* reset, one without a level axis that can do neither, one that cannot    *)
(* encode, and levels below, inside and above the range.                   *)
EXTENDS ZuEncoder

MCLevelDefault == -100

MCCodecs == {"a", "b", "c"}

MCVtable ==
    [c \in MCCodecs |->
        [registered |-> TRUE, can_encode |-> c # "c",
         can_flush |-> c = "a", has_reset |-> c = "a",
         level_min |-> IF c = "a" THEN -1 ELSE 0,
         level_max |-> IF c = "a" THEN 2 ELSE 0,
         level_default |-> IF c = "a" THEN 1 ELSE 0]]

MCGiven ==
    [size : {"full"}, codec : MCCodecs, level : (-2 .. 3) \cup {ZU_LEVEL_DEFAULT}]
      \cup [size : {"short"}, codec : {"a"}, level : {1}]
=============================================================================
