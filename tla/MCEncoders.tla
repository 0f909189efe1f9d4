----------------------------- MODULE MCEncoders -----------------------------
(***************************************************************************)
(* The encodes to check: every codec under each of the three callers.      *)
(***************************************************************************)
EXTENDS Encoders

MCLevelDefault == -100

V(min, max, default, flushes) ==
    [registered |-> TRUE, can_encode |-> TRUE, can_flush |-> flushes,
     has_reset |-> TRUE, level_min |-> min, level_max |-> max,
     level_default |-> default]

MCCodecTable ==
    [raw      |-> V(0, 9, 6, TRUE),
     zlib     |-> V(0, 9, 6, TRUE),
     gzip     |-> V(0, 9, 6, TRUE),
     lz4frame |-> V(-8, 12, 1, TRUE),
     lz4block |-> V(-8, 12, 1, FALSE),
     zstd     |-> V(-8, 22, 3, TRUE),
     identity |-> V(0, 0, 0, TRUE)]

MCLevelsTried == {9, 30}

J(driver, codecs, levels, ns, ins, rooms, every, cmax, rmax) ==
    [driver : {driver}, codec : codecs, level : levels, n : ns, in_chunk : ins,
     room : rooms, flush_every : every, max_calls : {cmax}, max_resets : {rmax}]

All == DOMAIN MCCodecTable

\* Around the block size, a slice per call and windows of a byte or two.
WholeJobs == J("whole", All, {MCLevelDefault}, {0, 3, 5}, {1, 2, 5}, {1, 2, 5}, {0, 1, 2}, 0, 0)

\* Every capacity from none to more than enough.
OneShotJobs == J("one_shot", All, {MCLevelDefault}, {0, 1, 3, 5}, {1}, 0 .. 11, {0}, 0, 0)

\* zlib stands for its family: only its header depends on the level.
CallerJobs == J("caller", All \ {"raw", "gzip"}, {MCLevelDefault}, {3}, {1}, {3}, {0}, 4, 1)

\* Several resets around a one-byte stream; zlib stands for its family here too.
ResetJobs == J("caller", All \ {"raw", "gzip"}, {MCLevelDefault}, {1}, {1}, {2}, {0}, 2, 3)

MCJobs == WholeJobs \cup OneShotJobs \cup CallerJobs \cup ResetJobs
FlushJobs == J("whole", {"gzip"}, {MCLevelDefault}, 1 .. 4, {1, 2}, {4, 8}, {1, 2}, 0, 0)
=============================================================================
