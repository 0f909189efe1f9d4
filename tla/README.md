# A verification of zukomp

zukomp is an R package with a streaming compression C ABI: a core that drives
registered codecs behind encoder and decoder handles, codecs for
DEFLATE/zlib/gzip, zstd, LZ4 and identity, a registry other packages add codecs
to, and an R layer that compresses and decompresses whole vectors. The
modules here model that system from the R argument checks down to where the
vendored compressors begin, check it on small instances with TLC, and prove
with TLAPS, for every value of the constants, what does not depend on a codec,
that the built-in codecs implement it, what the encoders put on the wire, and
that the decoders give their streams' verdict and bytes for every slicing.

Everything in zukomp is sequential C and R. What makes it hard is not threads.
It is resumable state machines fed in arbitrary slices, limits enforced from
outside a codec that is not trusted, a status that passes through three layers
that may each replace it, a registry strangers write to, numbers narrowed
between three languages' integers, and R's `longjmp` out of the middle of C
functions that own malloc'd memory.

## The system

| Component | State | Operations | Talks to |
|---|---|---|---|
| C ABI (`inst/include/zukomp.h`) | option structs, `zu_buffer` cursors | - | all |
| Decoder handle (`zu_stream.c`) | bound codec, options, `finished`, two 64-bit totals | new, process, reset, free | codec vtable; called by the loops or a linking package |
| Encoder handle (`zu_stream.c`) | bound codec, level, `finished` | new, process, reset, free | the same |
| One-shot calls (`zu_stream.c`) | one fixed buffer | compress_one, decompress_one | handles |
| Whole-buffer loop (`zu_whole.c`) | fed count, cursors, flush | one pass: refill, reserve, process, decide | handle, sink, R interrupts |
| Output sink (`zu_whole.c`, `zu_buf.c`) | block, capacity, used, live counter | owner, reserve, release, finalizer | malloc, R external pointers |
| DEFLATE family (`codec_deflate.c`, `zu_gzip.c`) | header, body, trailer, member-end state, checksum, held probe byte | process, reset, both directions | miniz |
| zstd (`codec_zstd.c`) | library contexts, level | process, reset, both directions | libzstd |
| lz4 frame and block (`codec_lz4.c`) | staging buffer, gathered input, preferences | process, reset, both directions | liblz4 |
| Frame loop (`zu_frames.c`) | held magic bytes, frame state | between frames, stall | zstd and lz4-frame decoders |
| Identity (`codec_identity.c`) | none | process | - |
| Registry and detection (`zu_registry.c`) | table of 32 vtables, generation | register, lookup, from_content_encoding, sniff | satellites, R table |
| R codec table and arguments (`R/codecs.R`, `R/compress.R`, `zukomp_r.c`) | cached frame and its generation | refresh, check a name, level or limit, narrow it | registry, handles |
| R conditions | none | name and word an error | - |

What makes each correct:

- **Handles**: whatever the codec answers, no byte passes a limit; success means
  every limit and policy was met; a limit is blamed only when it is set and
  reached; an ended stream stays ended until a reset succeeds; options and level
  belong to the bound codec.
- **Loop + decoder**: the verdict, the bytes and the consumed count are those of
  the stream, not of how it was cut into buffers; every decode returns.
- **Loop + encoder**: no input byte is lost, repeated or compressed at another
  level than the one asked for; an ended stream is a complete one; a flush delivers;
  an error has a cause; every encode returns.
- **Registry**: a name or token leads to one codec, whoever registered first;
  the cached R table is never stale; the R and C verdicts on names, levels and
  limits agree.
- **Sink**: freed once, by its owner, whenever R jumps; never written past its end.

`PROJECT.json` lists the hazards at their lines.

## The modules

| Module | Models | EXTENDS / INSTANCEs |
|---|---|---|
| `ZuTypes` | statuses and flushes | |
| `DriverRules` | the decisions of `zu_decoder_process` as operators | `ZuTypes` |
| `ZuDecoder`, `ZuDecoderProofs` | the decoder handle around an **arbitrary** codec | `DriverRules` |
| `DecodeLoop`, `DecodeLoopProofs` | `zu_int_run_whole` and `zu_int_one_shot` with the decoder handle, codec left open | `DriverRules`, INSTANCE `ZuDecoder` |
| `GzipHeader` | the byte states of the gzip header parser | `ZuTypes` |
| `DeflateDecoder`, `DeflateDecoderProofs` | the deflate-raw, zlib and gzip decoder over `mz_inflate` | `DecodeLoop`, `GzipHeader` |
| `FramedDecoder` | `zu_frames.c` with the zstd and lz4-frame decoders | `DecodeLoop` |
| `Lz4BlockDecoder` | the lz4-block decoder and its size search | `DecodeLoop` |
| `LibraryDecoders`, `LibraryDecodersProofs` | the last two and identity under one loop | both |
| `EncoderRules` | the decisions of the encoder entry points | `ZuTypes` |
| `ZuEncoder`, `ZuEncoderProofs` | the encoder handle around an **arbitrary** codec | `EncoderRules` |
| `BlockCompressor` | what the three compression libraries have in common (external) | |
| `EncodeLoop` | the whole-buffer loop, the one-shot call and a C caller, codec left open | `EncoderRules`, `BlockCompressor`, INSTANCE `ZuEncoder` |
| `DeflateEncoder`, `Lz4Encoders`, `ZstdEncoder` | the encoders | `EncodeLoop` |
| `Encoders`, `EncodersProofs` | every encoder, and identity, under every caller | the three |
| `Registry` | registration, lookups, detection, R table | `EncoderRules` |
| `RCalls`, `RegistryProofs` | `komp_compress()` and `komp_decompress()` down to the handle; the proofs of both | `Registry` |
| `ZuBuf` | checked size arithmetic | |
| `WholeCall`, `WholeCallProofs` | ownership of sink and handle in one `.Call` | `ZuBuf` |
| `MC*` | constants for TLC | |

### ZuDecoder and ZuEncoder: the contracts

The codec is the environment. One `Process` step is one call of
`zu_decoder_process` or `zu_encoder_process`: the codec consumes at most what it
was offered, writes at most the window it was shown, and returns any status at
any time. That is the cursor contract of `zu_buffer`, nothing more, so the
results bind third-party codecs too. The variables are the fields of `struct
zu_decoder` and `struct zu_encoder`; `last` records what the last entry point
returned, for the properties. The chain of early returns after the decoding
codec's call is `DriverStatus`, in the order of the code. The registry is a
constant: entries never change once made.

### DecodeLoop and DeflateDecoder: the implementation

A job is one decode: driver, wrapper, input, options, chunk sizes. The
input is a sequence of tokens, each the bytes the format tells apart (a gzip
header byte, CMF, FLG, a literal block of n bytes, the last
block, a checksum, a length field, junk). An output byte is named after the
token it came from, so a lost, repeated or reordered byte is visible; a
checksum is the number of bytes it covers, so it distinguishes members of
different lengths.

`CallCodec` is the loop from its top to the codec (refill, flush, reserve,
window shrinking). While `pc = "codec"` each action is one turn of
`deflate_process`'s own loop. `Return` is everything from the codec's return to
the loop's next turn: the totals, `DriverStatus`, the stuck check. The one-shot
driver offers all the input with `ZU_FINISH` into one buffer and ends with
`OneShotResult`. `CallCodec` never chooses `ZU_FLUSH`: the flush interval
(`zu_whole.c:241`) is 0 for every decode, `zukomp_r.c` leaves it so and only the
tests' encodes set it, so that branch is `EncodeLoop`'s `WholeFlush`.
`MzInflate` keeps the parts of miniz that the codec works
around: its dictionary holding back output, the sticky failure, and the
`MZ_FINISH` of a first call (`SingleShot`), which decodes straight into the
caller's window and fails the stream for good when it does not fit. The codec
never lets it be taken: `MzFlush` is `mz_called`'s guard, and without it
(`MzFlushAtOnce`) `VerdictIsTheStreams` fails. `tinfl` itself is external.

`ImplementsHandle` is the refinement: under the mapping in `DecodeLoop`, the loop,
the driver and the codec are a behaviour of `ZuDecoder!Spec`. TLC checks it on the
`deflate_contract` run; `DeflateDecoderProofs` proves it for every job.

`size_t` is taken to be as wide as the driver's 64-bit counters
(`JobsAssumption`), so that a window is never larger than a counter can hold. A
stream of more than 2^64 bytes is left out, as in `ZuDecoder`.

### LibraryDecoders

The two framed decoders are one loop over two libraries, and one module over
the wrapper of the job. `f` is `zu_int_frames` (state, held magic bytes, owed
byte), `lib` the library's context. The actions split `zu_int_frames_between`
by its early returns (`BetweenNoMore`, `BetweenLook`, `BetweenHeld`); `Pay`,
`Body` and `Stalled` are the rest of a turn. `Decompress` keeps what the
decoders have to cope with. libzstd rejects a wrong
magic at its first wrong byte, reads without output room, and withholds the
last input byte of a frame until its output is written. liblz4 looks at a
header only when it is complete and does not read an uncompressed block
without room. Neither says why it stopped, which is what `Stalled` and its
probe are for. Not kept: libzstd's counter of calls without progress (an error
after 16; the loop never makes more than two in a row) and its single-pass shortcut,
which gives the same bytes.

A bare lz4 block states neither its length nor its decoded size. The decoder
gathers the whole input, and then either decodes to the promised size, in place
or through a stage, or searches: `SearchTry` is one capacity. On failure
`LZ4_decompress_safe_partial` tells a block that goes on from one that is
corrupt, and only the first is worth a larger try.

### Encoders

A job is one encode of the bytes 1, 2, ..., n. An output token carries the
input byte it encodes and the level it was compressed at. Three callers share
the codecs: the whole-buffer loop with its flush interval, the one-shot call,
and a C caller who picks every slice, window and flush and may reset the handle
between calls, with any level. `BlockCompressor` is what the libraries do as far as
the codecs can tell: input is held until a block is full or closed by
request, and what a closed block yields waits for room. Each library adds its
own: miniz emits another empty stored block on every sync flush; libzstd
pledges the size when the first call is the last and reports what it still
holds; liblz4 needs worst-case room and checks a declared size at the end.
`ResetsReopen` follows a handle through resets that succeed, fail for
memory, and fail because an earlier one did: `LevelInUse` is the level the codec
then compresses at, `Usable` whether it can.

### Registry and RCalls

One vtable is what identifies, detects and advertises a codec; tokens are compared through
`Lower`. Built-ins load one step at a time, satellites register in any order
between R-level calls, and `CheckCodecName` goes through the cached table and
through the core, recording both answers. `RCalls` adds the two user-level
calls: the level through `zu_check_level`, `zu_int_level_from_sexp` and
`CheckLevel`, the limits through `zu_check_limit` and the narrowing, `"auto"`
from the bytes to an identity to a name and back. Numbers are counted in halves so
that fractions exist, and `ZU_LEVEL_DEFAULT` and `NA_integer_` are the same
integer, as they are in the build.

### WholeCall

Blocks are heap addresses that malloc may reuse. `Abort` and `Unwound` are the
longjmp: the frame's external pointers become garbage and the finalizer of each
runs at any later time, in the middle of other calls.

## Runs

| Run | Shows | Bounds |
|---|---|---|
| `zudecoder` | the decoder handle's contract | 3 codecs (flush and reset, neither, cannot decode), every limit alone and combined, offers of 0 or 2 bytes and rooms of 0, 1, 3; `U64Max` = 5 so that the saturating product saturates and every counter reaches its end |
| `zuencoder` | the encoder handle's contract | the same 3 codecs with a level range and with none; levels below, at, inside and above it |
| `deflate` | any chunking gives the reference decoder's verdict, bytes and consumed count; limits never corrupt and never blame wrongly; a one-shot call needs no spare room | all truncations of streams with 0 to 5 output bytes, corrupted headers, bodies and trailers, one and two members, five tails, every combination of optional header fields at and beyond their bounds; input chunks 1 to 8, output chunks 1 to 3, buffers 0 to 5; `max_output` 1 to 3 (below, at, above the sizes), expected size 2, ratio 1 |
| `deflate_contract` | refinement of `ZuDecoder`; every decode returns | the same streams byte by byte with and without a limit, and ten zlib streams with limits and size promises |
| `library` | the same for zstd, lz4-frame, lz4-block and identity, refinement aside: magics held across buffers, the exact verdict at a ceiling, the search's verdict and its memory | truncations of three block layouts per format with and without checksum, two frames, skippable frames, seven tails (parts of a magic, disproved or cut off); blocks on both sides of each capacity the search tries, of `INT_MAX` and of the largest input, corrupted or cut after every token; input chunks 1 to 9, ceilings around every size, a ratio limit of 1 |
| `encode` | every encoder under every caller; refinement of `ZuEncoder`; every encode returns | inputs of 0 to 5 bytes around a block of 2 and a staging chunk of 3; windows 1, 2, 5; flush intervals 0, 1, 2; every one-shot capacity from 0 to 11; a C caller with 4 calls, every slice, window 0 to 3 and flush, and one reset to the same level, the default, another one and an impossible one; the same caller with one input byte, 2 calls and 3 resets, enough for one to lose the stream, one to the same level and one that brings it back |
| `registry` | names, tokens, cache, detection, levels and limits from R to the handle | 2 built-ins, 1 declared codec without one, 23 satellites of which most misbehave, a table of 4; integers of -8 to 7 with arguments on, beside and one past every end, fractions, NA, Inf and NULL |
| `wholecall` | ownership, growth | 3 addresses, 2 frames: an address freed by one call is reused by the next while a finalizer is pending; `SizeMax` 11 with chunk 3, so growth doubles, falls back and fails |

The chunk bounds are enough in this sense: every token can fall at the start,
the middle and the end of a window, two tokens that the code looks at together
(the two magic bytes of gzip, the four of a frame) can fall in one window or
two, and output can be held back across several calls. For the encoders a
window can be smaller than, equal to and larger than a header, a block and a
trailer, and the caller's four calls cover a slice, a flush that does not fit,
its resumption and an end, before or after the reset.

The reference decoders in `DeflateDecoder` and `FramedDecoder` (`RefStep`,
`Readings`, `Reference`) read the input once, a token at a time, with unlimited
room; `Readings(j)` is what is known of job j's stream after each of its tokens.
They know the format and none of the code's states; a gzip header
(`RefHeader`) is read by its layout. `BlockVerdict` says what a block
deserves from its size alone. `CompleteStreams` is the encoders' reference.

**Fairness.** `DeflateDecoder`, `LibraryDecoders` and `Encoders` state
`WF_vars(Next)` and nothing else. The code is
sequential, so a step that can be taken is taken; nothing is assumed about
which. `ReserveFails` and a failing `Open` stay possible and are never
required; the C caller may go on until the job's `max_calls` and `max_resets`, which bound only the exploration, and then stops. Deadlock is
checked everywhere; `Returned` is the finished call.

## Disagreements with the repository's own words

Each is a run that TLC must refute.

- `trailing_is_reported`: a zlib or raw stream that ends exactly at an input
  chunk (64 KiB in `komp_decompress`) is accepted with anything after it.
- `exact_cap`: a sound stream of exactly `max_output` bytes can be refused,
  when a window boundary leaves the codec an empty window and no input.
- `checksum_surfaces`: with the allowance used up and a tail present, a
  checksum error is replaced by the limit's.
- `flush_once`: one `ZU_FLUSH` of a DEFLATE stream fills the caller's whole
  window with empty stored blocks and is answered `ZU_NEED_OUTPUT`, so a caller
  who drains until the flush is complete never gets there.

`VerdictIsTheStreams` and `LimitsAreSafe` exclude exactly the first and the
second of these, and the runs' other properties hold beside them. A ratio is
judged on the totals at each return, so whether it is exceeded depends on how the
input was cut: `LimitsAreSafe` and `FrameVerdicts` leave that one error open for
jobs that set a ratio, and the one-shot properties are stated for jobs that do not.

At the ceiling itself `FrameVerdicts` is exact but for the third of these:
a framed stream of exactly `max_output` bytes is accepted, one cut short there is
truncated and not over the limit, and only an error found in its bytes
may be replaced by the limit's.

Smaller things met on the way, which the models contain:

- `zu_whole.c:227` says `ZU_FINISH` only comes with an empty buffer. The flush
  is derived from what was fed, after the refill, so it comes with the last
  chunk too.
- A framed stream shorter than promised, followed by part of a magic
  held across buffers, is reported as trailing bytes (`zu_frames.c:148`) and
  not as the short body of `zu_stream.c:367`. That is the one case in which the
  promised size is not judged before the tail: `HeldTail` says when, by where the
  buffers end, and `LimitedVerdict` holds every other tail to the order.
- After a size or ratio error at the end of a stream, a caller who asks again
  is answered `ZU_STREAM_END`, or `ZU_ERR_TRAILING` for what he still offers
  (`zu_stream.c:312`): the error is returned once and not kept. `EndIsFinal`
  holds the handle to exactly that, and never to an answer that asks him to go on.
- If `R_MakeExternalPtr` fails (`zu_whole.c:189`) the handle, still a bare local,
  is lost.
- `zukomp.h:97` has `ZU_LEVEL_DEFAULT` mean the codec's default; on a reset
  it keeps the level of the previous stream. `StreamIsWhole` is stated for the
  level last asked for.
- When re-initialising miniz for another level fails, a reset to the level
  the handle still remembers answers `ZU_ERR_INVALID_DATA`, however often it is
  tried; only yet another level brings the handle back (`ResetsReopen`).
- The block search allocates up to four times what the block has
  shown to be good for, not up to its own size (`StageIsBounded`).
- An lz4 block too large for the format with a promise above the limit is
  `ZU_ERR_INVALID_DATA` or `ZU_ERR_OUTPUT_LIMIT` depending on the slicing.
- A satellite named `"auto"` can register and cannot be reached from R; one
  whose `level_min` is `INT32_MIN` shows `NA` to R, which takes it for a codec
  without levels; `level_fast` and `level_best` are not checked at registration,
  so an odd pair makes the named levels fail. `LevelsAreReadable` names these.

## Proofs

All are for arbitrary constants under the named assumptions, which TLC evaluates
on every run. They say no more than the code does: integers are as wide as the
build has them (`U64MaxAssumption`, `BufAssumption`), a job is one the callers can
start (`JobsAssumption`, `EncodeJobsAssumption`: chunks are not empty, a level
passed `zu_int_check_level`), block and chunk sizes are positive
(`BlockAssumption`, `Lz4Assumption`, `BlockSearchAssumption`), a gzip header is at
least its two magic bytes, method and flags (`GzipHeaderAssumption`), and the
DEFLATE family has three vtables (`WrapAssumption`). Four describe data: a token
of an uncompressed block is one byte, as such a block is copied byte by byte
(`RawAssumption`); no byte of an lz4 block stands for more than `Expand` bytes, which
is the format's bound and what the search's ceiling relies on
(`ExpansionAssumption`); to the identity codec a token is a byte
(`IdentityAssumption`); and every built-in codec is registered, encodes and
resets, and lz4-block does not flush (`CodecTableAssumption`, from the vtables). The
rest give constants their types and state what the sources fix about them: the
length field's modulus (`ISizeModAssumption`), the default level and R's
integers (`LevelAssumption`, `RCalls!CallAssumption`), vtables and options
(`DecoderAssumption`, `EncoderAssumption`), a declared table without two entries
for one name, token or codec (`RegistryAssumption`), and a non-empty chunk
(`WholeCall!CallAssumption`).

- **`ZuDecoderProofs`**. `TypeCorrect` first; `CeilingIsHeld` next, since the
  others rest on it: total output never exceeds the ceiling because the
  window is shrunk to what is left *before* the codec writes, and reset sets the
  total to 0 together with the new limits. `SuccessEarned` and `FairBlame` go
  through the cases of `DriverStatus`; the ratio needs the lemma that the saturating product is
  the exact product whenever a 64-bit total can exceed it. `OneCodec` needs
  that `codec` and `vtable` are equal while the handle lives. `EndFinal` is an
  action property from the guard of `MayAsk`.
- **`ZuEncoderProofs`**. `TypeCorrect`; `CodecAndLevelKept`, for which a reset has to
  compare with the codec it is bound to and not with the one it is given; the
  action property `EndFinal`.
- **`DecodeLoopProofs`** holds no listed theorem: it is what the two decoder
  proofs share. Its invariant `LoopInv` says that the cursors are in order, that the
  handle's totals are the cursors of the last call (they are updated only when the
  codec returns), and, while a call is in progress, that the window and the
  allowance are what the driver computed on entry. `CodecMoves` is the cursor contract as
  an action: a codec that only takes such steps preserves `LoopInv`, and each is a
  step of `ZuDecoder` or a stutter (`CodecMovesAreHandles`). For the refinement a codec's proof has to
  show no more than `CodecMoves`. For the verdicts it holds what happens to a
  codec's answer on its way out: `Decides` lists the ways the driver's status comes
  about, and the lemmas around it say with which answers the whole-buffer loop and
  the one-shot call go on or end. `SlicesWhole` says that every slice but the last is
  a whole chunk, which is why a tail can go unseen only at a multiple of the
  chunk size.
- **`DeflateDecoderProofs`**. `DeflateImplementsTheHandle` is that refinement for
  the DEFLATE family under both callers, and `DecoderStaysInItsBuffers` its inductive invariant:
  the parser's state and its offset into each header field, the trailer's fill
  and the held probe byte stay within the arrays of `struct deflate_decoder` for every
  slicing. `HeaderFits` is what carries it: which parts of the header are complete is
  a function of the parser's state.
  `DeflateVerdictIsTheStreams`, `DeflateLimitsAreSafe`, `DeflateConsumedIsExact` and
  `DeflateOneShotDecodes` come from one invariant, `FaithfulInv`: **a decoder
  in use stands where its stream says** (`Along`). Every state in which the decoder can
  stop is matched with the reading after the tokens it has consumed, or close to
  it. In the body, what miniz holds back is exactly what the reading has decoded
  and the caller does not have yet (`BodyAt`), and the checksum covers the
  member without it. In a trailer the reading is the one at its first byte, since the
  code collects and then checks (`InTrailer`). At a member's end with a held magic
  byte it is one token back (`InBetween`). In a gzip header the reference goes by the
  layout and the code byte by byte, and `Parsed` matches the parser's state
  with the layout, so that both stop at the same wrong byte. What makes it
  inductive is that miniz is told `MZ_FINISH` only with all of the input visible
  (`InBody`) and never on its first call: `CalledHolds` says that a codec that has
  called miniz once has a miniz that knows it, so `MzFlush` keeps `SingleShot` out of reach. `Judged` is what an answer may say of the stream; it is shown once for each
  action of the codec, and the four properties follow from it through `Decides`.
- **`LibraryDecodersProofs`**. `LibrariesImplementTheHandle` is the refinement for
  zstd, lz4-frame, lz4-block and identity, which no run checks: TLC would need the
  product of both. Its point is `Stalled`: the probe may write one byte, and the
  proof shows that `Pay` has room for it. `UnframedVerdictsAreExact` proves, for lz4-block and identity,
  verdict and bytes for every input, slicing and limit, and `StageStaysBounded`
  that the search never allocates past the caller's limit or four times what the
  block has shown. The invariant behind both, `BlockInv`, says that nothing comes out
  while the input is gathered, that a search runs within one call over all of
  the input and below its ceiling, and that what is being delivered is the decoded
  block. `BlockVerdictIsExact` speaks of jobs without a ratio limit, as its run
  does: a ratio is judged on the totals at each return and not on the block.
  `FrameVerdictsAreExact`, `FrameConsumedIsExact` and `LibraryOneShotDecodes` rest on
  `FollowingInv`, which does for frames what `FaithfulInv` does for DEFLATE. Inside a frame
  the library stands at the reading of the byte it has really read, one past the cursor while
  libzstd gives back the last byte of the frame (`Place`, `LibStands`); between frames
  the reading is the one at the end of the frame, before the magic bytes held
  (`FrameEnds`); an owed byte counts as written. `SliceInSight` says where the buffers
  end, so that magic bytes can only be held over one of those ends: it is what decides
  between the driver's verdict on a tail and the codec's (`HeldTail`). `TurnAlong` follows a library call
  up to its reason to stop, and `FrameJudged` says what the codec may then
  answer. The exactness at a ceiling is one clause of it: `ZU_NEED_OUTPUT` is only
  said when the stream has more to give, because `Stalled` has probed (`Probed`).
  `FrameWholeCloses` goes through the ways the driver decides. For the one-shot call
  `PlainReturn` says that without limits the driver passes the codec's answer on; the block
  and identity cases then follow from `BlockInv` and the identity codec's invariant.
- **`EncodersProofs`**. One inductive invariant for seven encoders and three
  callers. The idea is the `Image` of a library's context: what it would still
  deliver if it were closed now, that is its pending bytes, then its header, then the
  input it holds, compressed at its level. Then every encoder keeps the
  same equation at every turn of its loop: **delivered, staged and image
  together are the stream so far** (`DeflateOk`, `FrameWire`, `ZstdFrame`, `BlockCodecOk`,
  `IdentityOk`). Flush markers, the one thing a stream may have more or fewer of,
  are filtered out on both sides (`Matches`), except under the one-shot caller, who never
  flushes. A library call moves tokens from the image to the wire and input into
  the image, and the lemmas on `Absorb`, `Pump` and `Deliver` say so once for the
  three libraries, for any set of contexts that is closed under those
  moves. The rest of the invariant is why the equation survives: the declared size of a frame
  is only set once the end is announced and is then the size of the input
  (`SizeIsWrong` and `PledgeBroken` never hold); the trailer's checksum and length
  are those of exactly the input taken (`ChecksumConcat`); `held` is empty when
  an ending has begun; the level of each context is the one last asked for, which is the delicate part of
  a reset (`FreshState`). From it follow `EndedStreamsAreWhole` (at the end
  nothing is left in the image), `NoInputIsLost` (the bytes the equation's two sides
  carry), `FlushesDeliver`, `EveryErrorHasACause` and
  `OneShotVerdictIsExact`: when a codec asks for output of a full one-shot buffer,
  the image is not empty, so every complete stream is longer than the buffer.
  `FlushDelivers`, `ErrorsHaveACause` and `OneShotVerdict` speak of the last answer, so they are
  conjuncts of the invariant `Good` and are carried through each step.
  `EveryResetReopens` is the action property of a reset: `ResetOutcome` lists what each
  codec's reset comes to, and that a remembered level is the one asked for, from `Good`,
  tells a reset to another level from one to the same.
  `EncodersImplementTheHandle` is the refinement of `ZuEncoder`.
- **`RegistryProofs`**. The inductive invariant `IInv` adds to the type invariant
  that every slot honours the declared table and that slots are pairwise distinct.
  `Unique` alone is inductive, but `LookupsReachTheirOwner` is not: a
  lookup scans the declared table first, so it needs that no slot holds a name or token
  declared for somebody else. The cache theorem needs that the cached
  generation never runs ahead of the registry's. `LayersNeverDisagree` puts the
  two together: a check that refreshed its cache judged the name by the
  registry's own table, and a row of that table is either a slot's or a declared one's.
  `RegistrationNeverSteals` is the action property that a registration changes
  nobody's name, token or identity. `CallsImplementRegistry`: a user-level call changes only
  the registry's cache and answer, as `CheckCodecName` does, or nothing, so
  every registry theorem holds while calls run. `LimitsAreKept` is arithmetic on
  halves. `LevelsAlwaysAgree` follows a level from the R check through the narrowing to
  `CheckLevel`; `LevelsAreReadable` excludes the one level whose R value is `NA`, which
  is `ZU_LEVEL_DEFAULT` itself. `DetectionIsKept` takes the registry's invariant with it: the codec that
  detected the input is a slot, so its name leads back to it. That a longest
  matching literal and a first slot exist at all comes from the
  well-foundedness of `<` on the naturals (`WFMin`), not from induction over the table.
- **`WholeCallProofs`**. `WindowInsideSink` speaks of one point of the loop;
  `SinkInv` adds that the bytes in use never exceed the capacity, and the
  lemmas on `Grow` say that what `zu_int_grow` returns covers the need and is
  still a `size_t`, through both its branches. `FreedOnce` and `SinkKept` follow
  from `OwnInv`: every pointer names a block allocated as what it will free,
  no two name the same one, every sink has a pointer, and the call in progress
  holds its own pointers and they are not garbage. The last part is what makes it
  inductive: it keeps the finalizers away from the block `realloc` moves and
  from the handle still in use, and it says that a handle not yet given to R
  is named by no pointer. `Process` and `Result` also need `SinkInv`: a
  non-empty window means a sink was allocated.

**Induction over data.** What a recursive definition or a fold computes for
every input cannot be proved with the library's induction theorems here: they take an operator as
a parameter, which the installed provers cannot instantiate. Two lemmas take
their place. `UpTo` is induction for a *set* of naturals, from
`WFMin`; `IteratesExist` builds a finite iteration step by step,
so that a recursive function is known to have the value its equation promises. From
them come the facts about `FlattenSeq` (`FlattenConcat`), `ChecksumUpdate`,
what a run of tokens decodes to, and that the reference decoders' `Readings` exist,
stay in their types and never take back a byte or an error. This is why
`ChecksumUpdate` and `Readings` are recursive functions, and why `BytesIn` and
`NoSyncMarks` are written with `FlattenSeq`.

**Only model-checked.** Termination (`Terminates`, `DecodesReturn`,
`EncodesReturn`): liveness is outside the prover. Every other property of a
passing run is also a theorem.

## Not modelled

- `tinfl`, `tdefl`, libzstd, liblz4 (vendored): only the streaming state
  machines the codecs work around, never the coding of blocks.
- The ceiling on zstd's window (`codec_zstd.c`, the `window_log` parameter):
  it decides whether libzstd accepts a frame header, which is inside the library.
- Wording of conditions, `zu_status_string`, `zu_compress_bound` (a sum of
  constants whose claim is about the vendored coders), the test and fuzz
  harnesses, and the sample packages under `tools/`, which are callers of the ABI.
- 64-bit counters that wrap: `WithinCounters` bounds the totals, as no stream
  reaches 2^64 bytes.
- The C caller of the encoders gives up or resets after a codec's error, as the
  header asks. What a caller who ignores one gets is unspecified.

## Plan

1. Done: both handles and their proofs; every built-in codec in both
   directions; the three callers; the registry, the R arguments and their
   proofs; the sink, with its window and ownership theorems; the refinement of
   both handles by every built-in codec; the encoders' streams.
2. Done: the verdicts of the DEFLATE and framed decoders against their
   references, for every job. With them every safety and action property the
   passing runs check is a theorem.
3. A C caller who resets a decoder in the middle of a stream.
