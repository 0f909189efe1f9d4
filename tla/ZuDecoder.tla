----------------------------- MODULE ZuDecoder -----------------------------
(***************************************************************************)
(* The decoder handle of the C ABI (zu_decoder_new, _process, _reset and   *)
(* _free in zu_stream.c) around an arbitrary registered codec.             *)
(*                                                                         *)
(* The codec is the environment.  All that is assumed of it is the cursor  *)
(* contract of zu_buffer: one call consumes no more than it was offered,   *)
(* writes no more than the window it was shown, and returns some zu_status *)
(* - any one, at any time.  Whatever is stated here therefore binds a      *)
(* third-party codec that registered itself as much as the built-in ones.  *)
(***************************************************************************)
EXTENDS DriverRules

CONSTANTS
    Codecs,     \* codec identities a caller may name
    Vtable,     \* the registry, fixed while a handle lives
    Given,      \* the option structs callers pass
    SrcSizes,   \* how many input bytes a process() call may offer
    DstSizes    \* how much output room a process() call may offer

(***************************************************************************)
(* `size` is the caller's struct_size: too short to be legal, the first    *)
(* release's struct without expected_size, or the current one.             *)
(***************************************************************************)
GivenOpts == [size : {"short", "v1", "full"}, codec : Codecs, lim : LimitOpts]

ASSUME DecoderAssumption ==
    /\ Vtable \in [Codecs -> [registered : BOOLEAN, can_decode : BOOLEAN,
                              can_flush : BOOLEAN, has_reset : BOOLEAN]]
    /\ Given \subseteq GivenOpts
    /\ SrcSizes \subseteq Nat
    /\ DstSizes \subseteq Nat

VARIABLES
    handle,     \* "none" or "live"
    vtable,     \* d->vtable: the codec the handle is bound to
    codec,      \* d->opts.codec
    opts,       \* the limits and flags of d->opts
    finished,   \* d->finished
    total_in,   \* d->total_in
    total_out,  \* d->total_out
    last        \* the call that returned last, and what it returned

vars == <<handle, vtable, codec, opts, finished, total_in, total_out, last>>

stream == <<handle, vtable, codec, opts, finished, total_in, total_out>>

Init ==
    /\ handle = "none"
    /\ vtable \in Codecs
    /\ codec = vtable
    /\ opts = NoLimits
    /\ finished = FALSE
    /\ total_in = 0
    /\ total_out = 0
    /\ last = Answer("none", ZU_OK, NotAsked, 0)

----------------------------------------------------------------------------
(***************************************************************************)
(* Options.  ZU_DEC_EXPECTED_SIZE on a struct that has no such field is a  *)
(* caller bug; whatever a short struct lacks is zero-filled when copied.   *)
(***************************************************************************)
CheckDecOpts(g) == g.size # "short" /\ (g.lim.has_expected => g.size = "full")

CopyOpts(g) ==
    IF g.size = "full" THEN g.lim ELSE [g.lim EXCEPT !.expected_size = 0]

Resolves(c) == Vtable[c].registered /\ Vtable[c].can_decode

\* A call that returns `status` and leaves the stream as it was.
Refuse(op, status, st, left) ==
    /\ last' = Answer(op, status, st, left)
    /\ UNCHANGED stream

\* zu_decoder_new: `st` is the codec constructor's status; ZU_ERR_MEMORY
\* also stands for the handle's own calloc() failing.
New(g, st) ==
    /\ handle = "none"
    /\ IF ~CheckDecOpts(g)
         THEN Refuse("new", ZU_ERR_INVALID_ARGUMENT, NotAsked, 0)
       ELSE IF ~Resolves(g.codec)
         THEN Refuse("new", ZU_ERR_UNSUPPORTED, NotAsked, 0)
       ELSE IF st # ZU_OK
         THEN Refuse("new", st, st, 0)
       ELSE /\ handle' = "live"
            /\ vtable' = g.codec
            /\ codec' = g.codec
            /\ opts' = CopyOpts(g)
            /\ finished' = FALSE
            /\ total_in' = 0
            /\ total_out' = 0
            /\ last' = Answer("new", ZU_OK, st, 0)

----------------------------------------------------------------------------
\* A corrupt zu_buffer or an unknown flush value.
ProcessMalformed ==
    /\ handle = "live"
    /\ Refuse("process", ZU_ERR_INVALID_ARGUMENT, NotAsked, 0)

\* The stream already ended: nothing is consumed, only the trailing policy
\* is applied to what the caller offers now.
ProcessFinished(src) ==
    /\ handle = "live"
    /\ finished
    /\ Refuse("process",
              IF src > 0 /\ opts.reject THEN ZU_ERR_TRAILING ELSE ZU_STREAM_END,
              NotAsked, src)

ProcessCannotFlush(src, flush) ==
    /\ handle = "live"
    /\ ~finished
    /\ flush = ZU_FLUSH /\ ~Vtable[vtable].can_flush
    /\ Refuse("process", ZU_ERR_UNSUPPORTED, NotAsked, src)

\* The bound on the counters: no stream reaches 2^64 bytes.
WithinCounters(used, produced) ==
    total_in + used <= U64Max /\ total_out + produced <= U64Max

\* Mutant: d->finished is not looked at.
MayAskAfterEnd(src, room, flush, used, produced) ==
    /\ ~(flush = ZU_FLUSH /\ ~Vtable[vtable].can_flush)
    /\ used <= src
    /\ produced <= Allowance(opts, total_out, room)
    /\ WithinCounters(used, produced)

\* The codec is asked: the stream is still open, and the cursor contract
\* bounds what the call can have moved.
MayAsk(src, room, flush, used, produced) ==
    /\ ~finished
    /\ ~(flush = ZU_FLUSH /\ ~Vtable[vtable].can_flush)
    /\ used <= src
    /\ produced <= Allowance(opts, total_out, room)
    /\ WithinCounters(used, produced)

\* Mutant: the cursor difference is taken the wrong way round.
AccountBackwards(used, produced) ==
    /\ total_in' = total_in - used
    /\ total_out' = total_out + produced

Account(used, produced) ==
    /\ total_in' = total_in + used
    /\ total_out' = total_out + produced

\* One call of the codec behind a window of `room` bytes, of which it
\* consumed `used`, produced `produced`, and returned `st`.
Process(src, room, flush, used, produced, st) ==
    /\ handle = "live"
    /\ MayAsk(src, room, flush, used, produced)
    /\ Account(used, produced)
    /\ finished' = (st = ZU_STREAM_END)
    /\ last' = Answer("process",
                 DriverStatus(opts,
                   [st        |-> st,
                    capped    |-> Capped(opts, total_out, room),
                    allowance |-> Allowance(opts, total_out, room),
                    produced  |-> produced,
                    left      |-> src - used,
                    total_in  |-> total_in + used,
                    total_out |-> total_out + produced]),
                 st, src - used)
    /\ UNCHANGED <<handle, vtable, codec, opts>>

----------------------------------------------------------------------------
\* Mutant: reset() takes the new options without comparing the codec.
ResetToAnyCodec(c, lim, st) ==
    IF ~Vtable[vtable].has_reset
      THEN Refuse("reset", ZU_ERR_UNSUPPORTED, NotAsked, 0)
    ELSE IF st # ZU_OK
      THEN Refuse("reset", st, st, 0)
    ELSE /\ opts' = lim
         /\ codec' = c
         /\ finished' = FALSE
         /\ total_in' = 0
         /\ total_out' = 0
         /\ last' = Answer("reset", ZU_OK, st, 0)
         /\ UNCHANGED <<handle, vtable>>

\* What zu_decoder_reset is given: a new struct, or NULL for the old options.
ResetTo(c, lim, st) ==
    IF c # codec
      THEN Refuse("reset", ZU_ERR_INVALID_ARGUMENT, NotAsked, 0)
    ELSE IF ~Vtable[vtable].has_reset
      THEN Refuse("reset", ZU_ERR_UNSUPPORTED, NotAsked, 0)
    ELSE IF st # ZU_OK
      THEN Refuse("reset", st, st, 0)
    ELSE /\ opts' = lim
         /\ codec' = c
         /\ finished' = FALSE
         /\ total_in' = 0
         /\ total_out' = 0
         /\ last' = Answer("reset", ZU_OK, st, 0)
         /\ UNCHANGED <<handle, vtable>>

Reset(g, st) ==
    /\ handle = "live"
    /\ IF ~CheckDecOpts(g)
         THEN Refuse("reset", ZU_ERR_INVALID_ARGUMENT, NotAsked, 0)
         ELSE ResetTo(g.codec, CopyOpts(g), st)

ResetSame(st) ==
    /\ handle = "live"
    /\ ResetTo(codec, opts, st)

Free ==
    /\ handle = "live"
    /\ handle' = "none"
    /\ last' = Answer("free", ZU_OK, NotAsked, 0)
    /\ UNCHANGED <<vtable, codec, opts, finished, total_in, total_out>>

Next ==
    \/ \E g \in Given, st \in Status : New(g, st)
    \/ ProcessMalformed
    \/ \E src \in SrcSizes : ProcessFinished(src)
    \/ \E src \in SrcSizes, flush \in Flush : ProcessCannotFlush(src, flush)
    \/ \E src \in SrcSizes, room \in DstSizes, flush \in Flush, st \in Status :
         \E used \in 0 .. src, produced \in 0 .. room :
            Process(src, room, flush, used, produced, st)
    \/ \E g \in Given, st \in Status : Reset(g, st)
    \/ \E st \in Status : ResetSame(st)
    \/ Free

Spec == Init /\ [][Next]_vars

----------------------------------------------------------------------------
TypeOK ==
    /\ handle \in {"none", "live"}
    /\ vtable \in Codecs
    /\ codec \in Codecs
    /\ opts \in LimitOpts
    /\ finished \in BOOLEAN
    /\ total_in \in 0 .. U64Max
    /\ total_out \in 0 .. U64Max
    /\ last \in Answers

\* Limits bind every codec: however often the handle is fed, reset and fed
\* again, and whatever the codec answers, the bytes it has written to this
\* stream never pass max_output nor the expected size.  zu_stream.c enforces
\* this by shrinking the window, not by checking afterwards.
CeilingHeld ==
    /\ opts.max_output # 0 => total_out <= opts.max_output
    /\ opts.has_expected => total_out <= opts.expected_size

\* Success is earned: when process() reports the end of a stream on the call
\* that reached it, the output has exactly the promised size, is within the
\* ratio in true (unbounded) arithmetic, and nothing follows it if the
\* caller asked for trailing bytes to be an error.
SuccessIsEarned ==
    (/\ last.op = "process"
     /\ last.status = ZU_STREAM_END
     /\ last.st = ZU_STREAM_END) =>
        /\ opts.has_expected => total_out = opts.expected_size
        /\ opts.max_ratio # 0 => total_out <= total_in * opts.max_ratio
        /\ opts.reject => last.left = 0

\* Blame is fair: a limit error the codec did not raise itself is reported
\* only with the limit really reached - the output standing at max_output,
\* the true product of the ratio really exceeded (so the 64-bit saturation
\* neither lets an expansion through nor refuses a legitimate one).
BlameIsFair ==
    last.op = "process" =>
        /\ (last.status = ZU_ERR_OUTPUT_LIMIT /\ last.st # ZU_ERR_OUTPUT_LIMIT)
              => opts.max_output # 0 /\ total_out = opts.max_output
        /\ (last.status = ZU_ERR_RATIO_LIMIT /\ last.st # ZU_ERR_RATIO_LIMIT)
              => opts.max_ratio # 0 /\ total_out > total_in * opts.max_ratio

\* A live handle keeps to one codec, one that can decode: reset() never
\* moves a stream to the state functions of another codec.
BoundToOneCodec ==
    handle = "live" => codec = vtable /\ Resolves(vtable)

\* Once the codec has ended the stream, no later process() call moves either
\* total or asks the codec anything, until a reset gives a fresh budget; the
\* caller is never told to go on, and what he offers after the end is judged
\* as SuccessIsEarned has it of the call that reached the end, also when he
\* ignored the error that call returned.
EndIsFinal ==
    [][(handle = "live" /\ finished /\ last'.op = "process") =>
          /\ UNCHANGED <<total_in, total_out>>
          /\ last'.st = NotAsked
          /\ last'.status \notin {ZU_OK, ZU_NEED_INPUT, ZU_NEED_OUTPUT}
          /\ (opts.reject /\ last'.left > 0) <=> last'.status = ZU_ERR_TRAILING]_vars
=============================================================================
