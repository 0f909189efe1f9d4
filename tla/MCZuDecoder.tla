---------------------------- MODULE MCZuDecoder ----------------------------
(* A small instance of ZuDecoder: a codec that can flush and reset, one    *)
(* that can do neither, one that cannot decode, and options that combine   *)
(* every limit.                                                            *)
EXTENDS ZuDecoder

MCCodecs == {"a", "b", "c"}

MCVtable ==
    [c \in MCCodecs |->
        [registered |-> TRUE, can_decode |-> c # "c",
         can_flush |-> c = "a", has_reset |-> c = "a"]]

Lim(max, ratio, has, size, reject) ==
    [max_output |-> max, max_ratio |-> ratio, has_expected |-> has,
     expected_size |-> size, reject |-> reject, concat |-> FALSE]

MCLimits ==
    {Lim(0, 0, FALSE, 0, FALSE), Lim(2, 0, FALSE, 0, TRUE),
     Lim(0, 2, FALSE, 0, FALSE), Lim(0, 3, TRUE, 2, FALSE),
     Lim(1, 0, TRUE, 2, TRUE),   Lim(2, 1, TRUE, 2, FALSE)}

MCGiven ==
    [size : {"full"}, codec : {"a", "b"}, lim : MCLimits]
      \cup [size : {"full"}, codec : {"c"}, lim : {Lim(2, 0, FALSE, 0, TRUE)}]
      \cup [size : {"short", "v1"}, codec : {"a"},
            lim : {Lim(2, 0, FALSE, 0, TRUE), Lim(0, 0, TRUE, 2, FALSE)}]
=============================================================================
