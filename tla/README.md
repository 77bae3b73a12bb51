# Verification of rs-codec

This directory holds TLA+ models of `qubit-codec` (repository `rs-codec`): its
transcoding engines, the blocking and asynchronous I/O bridges around them, the
one-shot calls, the value codecs and their registry; the TLC configurations that
check them on small instances; and TLAPS proofs about all of these parts for
every instance. The models are translated from the Rust source; `PROJECT.json`
maps every definition to the lines it stands for. Some two thirds of the lines of the
crate are rustdoc, examples and `use` lists; the map covers 31 % of all its lines
and 56 % of those that are code.

## The system

A `Codec` encodes one value to units and decodes one value from units. The crate
turns codecs into streaming transcoders: an engine owns a codec and a hooks
object (the policy for malformed, incomplete and unencodable data), is driven by
a caller that owns all buffers, and reports after each call how much input it
read, how much output it wrote and why it stopped. Everything is sequential
inside one engine (`&mut self`); what makes it hard is that a stream is cut into
calls at arbitrary places, that output runs out at arbitrary places, that calls
fail half way and are repeated, and that codecs and hooks are foreign code whose
counts index unchecked writes. Around the engines, the asynchronous bridges add
futures that are polled, suspended and dropped, and the registry adds threads
that race for one cell.

| Component | State | Operations | Talks to | What makes it correct |
|---|---|---|---|---|
| `LifecycleGuard` | phase: Uninitialized, Fresh, Streaming, Finished, Poisoned | `on_reset_start/success`, `on_transcode`, `on_finish_attempt/start/success` | embedded in each engine | poisoned before foreign code runs, so an error or unwinding panic cannot leave an engine half open |
| `TranscodeProgress`, `TranscodeFailure` | none | constructors, `validate`, `ensure_*`, checked bounds | engines and drivers | a progress is consistent with the windows of its call; refusals happen before effects |
| `TranscodeDecodeEngine` + `TranscodeDecodeHooks` | codec, hooks, guard; per call two cursors | `reset`, `transcode`, `transcode_eof`, `finish`, `decode_one` | codec, hooks, caller | same values for every cutting of the stream; planned bound suffices; cursors in bounds |
| `TranscodeEncodeEngine` + `TranscodeEncodeHooks` | same | `reset`, `transcode`, default `transcode_eof`, `finish`, `encode_one` | codec, hooks, caller | same units for every cutting; one hook call per value; planned bound suffices |
| `TranscodeConvertEngine` | the two engines, a slot for one decoded value, its own guard | `reset`, `transcode`, `transcode_eof`, `finish` | both engines past or through their guards | the waiting value is neither lost, repeated nor overtaken; the two engines stay in step |
| strict adapters (`CodecTranscode*`) | an engine with rejecting hooks | forwarding | engines | the tighter output bound suffices |
| `Transcoder::transcode_complete_into` | none | reset, transcode_eof, finish in one buffer | any transcoder | the output is one whole stream, with nothing of an earlier one; the planned sum suffices |
| `TranscodeDecodeInput` | buffered reader, `eof_retry_pending` | `transcode_step`, `transcode_eof_step`, batch `transcode`, `reset`, `finish`, `fill_until`, `consume`, raw reads, `seek`, `read_decoded_with` | any decoder, the wrapped input | every unit reaches the decoder once, every value the caller once and in order; the end of input is announced only when it is there, and again after it was |
| `CodecDecodeDriver` | borrows the reader | `read_one`: prepare, decode, refill, retry at the end | a codec, the reader | takes exactly the value at the read position, waits for nothing behind it, always returns |
| `TranscodeEncodeOutput` | buffered writer | `transcode_step`, batch `transcode`, `reset`, `finish_to_buffer`, `finish`, `flush`, `ensure_spare_capacity`, `write_encoded_with`, `write_all` | any encoder, the wrapped output | what an accepted report made is committed once, what a failed call made never; raw units are counted as they were taken; what is reserved is enough; the stream gets out |
| `transcode_progress_validation` | none | three validators | the bridges | no report of a foreign transcoder moves a cursor out of its window |
| `AsyncTranscodeDecodeInput` | buffered async reader | `transcode_async`, `fill_more_async`, `fill_until_async`, async reads; `transcode_eof_step`, `reset`, `finish`, `consume` | any decoder, executor, async input | no unit or value is lost or seen twice, wherever a future is dropped; the stream is read to its end |
| `AsyncTranscodeEncodeOutput` | buffered async writer, `required_spare` | `reset_async`, `transcode_async`, `finish_async`, `flush_async`, `drain_async` | any encoder, executor, async output | every unit is delivered, buffered or with the encoder; the stream gets out |
| value codecs (`CodecValueEncoder`, `CodecValueDecoder`) | a codec | `encode`, `encode_into`, `decode`, `decode_lifecycle`, `decode_lifecycle_with_scratch` | codec, the caller's vector | whole values only; a failure leaves the vector as it was |
| `ValueCodecId` | bytes | `new`, `try_new` | | accepts exactly the well-formed ids, and says truly why not |
| value codec registry | sorted registrations, index; a `OnceLock` per wire | `try_global`, `global`, `from_registrations`, `empty`, `get`, erased `encode`/`decode` | registration macros, threads | one answer for all, whatever the link order and the race |
| JSON codecs, registration macros | none | | serde_json, inventory | in the registry, by their outcome |
| byte-order markers | none | | | not modelled: no state |

The hard behaviours, each at its line, are listed under `hazards` in
`PROJECT.json`.

## The modules

`Lifecycle` and `TranscodeContract` hold the guard and the contract that all
engines share, as operators. `DecodeStep` and `EncodeStep` describe one attempt:
what a codec and its hooks may answer for the value at the cursor, and what
`decode_one` / `encode_one` make of the answer, assertions included. The hooks of
a decoder are taken narrower than their documentation allows: it lets them skip or
emit over any units the decoder sees (`transcode_decode_hooks.rs:229`), while
`DecodeStepAssumption` keeps an honest policy inside the malformed span. A policy
that looks past the span depends on how the caller cut the stream, so no
specification of the stream alone could hold for it; the faulty instance has hooks
that consume any count, and the safety properties hold for those as well.

**DecodeEngine** is `TranscodeDecodeEngine` with its caller. The caller owns a
stream of `StreamLen` units, of which `visible` have arrived and `base` are
consumed; units arrive one at a time between calls. A transcode call takes the
visible prefix, `base` and some output window, passes the guard and the index
check (`Begin...`), and then takes one step per loop iteration (`StopComplete`,
`StopNeedInput`, `StopNeedOutput`, `Decode`). What it wrote moves to `delivered`
at the return. `reset` and `finish` are one step each; every `?` and every
assertion in them is a disjunct. A caller does not go on after a data error:
the engine reports no position then, so `Begin` needs `~failed`, until the next
successful reset.

*Data.* Bytes are abstracted to the *item* that a decoder standing at a unit
finds there: a value of some width, one whose prefix `decode_eof` also accepts at
the end of input (maximal munch), or a malformed span with the policy's answer.
`Init` chooses the item of every unit independently, so resynchronising inside
a span finds anything. A codec that sees too little answers `Incomplete` with
any requirement between what it sees and the width. With `Faulty`, codec and
hooks answer any count up to one beyond the declared maximum.

**EncodeEngine** is built the same way over values; a value is its width, or an
encoding error, or unencodable with the policy's answer. `asked` counts the hook
calls per value. `transcode_eof` is the trait's default, whose index check comes
before the guard.

**ConvertEngine** reuses both steps. Here every call into an inner engine is a
step of its own (`resetEncoder`, `resetDecoder`, `resetValues`, `finishDrain`,
...), so that a reset or finish that fails in the middle is a state. `transcode`
reaches `decode_one` and `encode_one` past the inner guards, as the code does;
`reset` and `finish` go through the inner engines' own, whose three guards are
all in the state.

**DecodeStream, EncodeStream, ConvertStream** are the abstract specifications:
a stream is consumed item by item from position to position, and what comes out
is determined by the items, with no calls, buffers, cursors or slots. A
prefix is taken for a whole value only when nothing follows it in the stream.

**BufferedInput, BufferedOutput** describe the reader and the writer of the
`qubit_io` library (external) through the calls the bridges make: of a buffer
only the counts matter. A refill gets any portion the source can give and may
fail after some of it was buffered; a drain delivers any prefix before it fails; a
raw write may be interrupted, take part, bypass the buffer or take nothing.

**DecodeBridge, EncodeBridge** hold what a blocking bridge and its asynchronous
sibling share: the buffer's counts, the foreign transcoder and what it may report,
validation and commit, reset and finish. The encoder of `EncodeBridge` goes on
once it has the room it asked for (`asked`), which is all the trait promises.

**DecodeInput** is `TranscodeDecodeInput` with a source that grows up to
`StreamLen` units and may report its end more than once in between, as a
terminal does. The decoder is a parameter of every call in the code and any
honest decoder in the model: it must see unit `decNext` next, has `made` values, of which up
to `MaxHeld` are still kept back, and answers any report that fits its window.
With `FaultyDecoder` it may instead report any counts, once (`decSt = "lied"`),
and what it says afterwards is not relied on. The batch loop takes one step
per refill and per decoder call; `out` is the caller's slice and `got` what the
caller learnt from the returned counts. What the caller may do follows the doc
comments: no streaming call on a decoder that raw reads, a seek or a single value
has passed by (`"stale"`), no use after a data error but reset, and
`transcode_eof_step` only after the source reported its end.

**DecodeDriver** is the loop below `read_decoded_with` and its variants, over the
items of `DecodeStep`; **ValueReader** is what it promises: reads take items
from position to position, however the source cut the stream.

**EncodeOutput** is `TranscodeEncodeOutput`. `owed` is a ledger kept beside the
buffer: it grows by what the encoder made in an accepted call, by the units of a
whole value and by what `write_all` counts as written (`Counted`), and shrinks by
what the output delivers. `pend` moves by what the bridge commits and by what the
output took. `NoUnitLostOrInvented` compares the two; what a drain delivers is the
library's own doing and moves both. The batch call commits the units of a report
(line 744) before it fails with "encoder output bound was insufficient" (line 753):
that encoder call has not failed, so the units count as made, and this is the one
error after which units of the call are in the buffer. The encoder is
any honest one that keeps at most `MaxHeld` units back and plans for them, or one
that reports anything. **ValueLifecycle** gives the results
`encode_complete_value_into_reserved` can have for one value (reset,
`encode_len`, encode, finish, with their checks). The batch loop of the code is
modelled as a loop, and `SafeForAnyEncoder` says among others that it never goes
round (`call.calls`).

**AsyncDecodeInput, AsyncEncodeOutput** put futures over the bridges. A future is
created (which does nothing), polled any number of times and finished, or
dropped after any poll. A poll is one step: it runs to the point where the I/O
would block (`Blocks`), having buffered or delivered any part that the library
could, or to its return; the transcoder is only called after the last such
point. The asynchronous reader and writer of the library and the executor are
external. `need` is what the caller remembers of a NeedInput, `spare` is the
bridge's `required_spare`; `CancellationIsSafe` says of an open encoder that it is
what its last NeedOutput asked for, or 1 once that is served or the stream is new.

**OneShot** is `transcode_complete_into` over any transcoder that keeps the trait's
contract or breaks it, with the trait's default `transcode_eof` or one of its
own; each phase of the call is a step, and between calls the caller may leave a
stream half way (`Abandon`). `stale` marks a transcoder that carries something
of an earlier stream, `made` counts what reset, input and finish of this call
made. **ValueCodecs** are the value codecs' calls, one step each, since nothing
can happen between the codec's calls; the two are independent and share a run.

**ValueCodecId** is the parser of ids over byte classes. **ValueCodecRegistry** has
threads that call for the registry of a wire: `OnceLock::get_or_init` is three
entries (full, first, busy), the build and the wake-up. `linked` is the inventory
of the program in the order the linker left, chosen in `Init`. Ids and descriptors
are their ranks in the orders the code sorts by; a descriptor stands for its codec
and value type. A sort is the set of the arrangements that put the keys in order
and keep equal ones in theirs (`SortOrders`); there is one, and that it exists is
part of what the deadlock check shows, since without it a build would never end and
leave the builder and the waiters stuck. The factories run inside the build: those
the registration macros declare make a record of an id checked at compile time, a
static descriptor and the place of the declaration, so they neither panic nor ask
for the registry themselves, and a waiter never finds the cell empty again. A
factory put into the inventory by hand, past the macros, is not modelled. JSON
codecs are codecs that succeed or fail.

`*Props` modules state the properties, the refinement mappings and the inductive
invariants; `*Proofs` modules hold the theorems, those of both bridges of a
direction in one (`DecodeBridgeProofs`, `EncodeBridgeProofs`): the names that the
asynchronous bridges share with the blocking ones begin with `Async` there. Where an instance is more than
numbers in the `.cfg`, an `MC*` module or the end of the `*Props` module gives it.
Operators marked `Mutant:` are the deliberately wrong variants that show that each
property can fail.

## Properties and runs

| Run | Instance | Checks |
|---|---|---|
| `decode` | minimum 2, widths 2-3, four units, four windows (none, one slot at an offset, two, index past the end), all tail policies, a hook bound that overflows | `HonestCodecNeverPanics`; `EofNeverNeedsInput`; `CapacityFailureIsRetryable`; implements DecodeStream |
| `decode_faulty` | any counts, panics | `DecodesOnlyOpenStreams`; `CursorsStayInBuffers`; `ProgressHonoursContract` |
| `decode_caller` | strict hooks, five units, a caller to the end | the `div_ceil` bound suffices; `StreamIsConsumed` |
| `encode` | three values of widths 0-2, failing, unencodable and lying ones, four windows | `SafeForAnyTarget`; `HookAskedOncePerValue`; the planned bound suffices; implements EncodeStream; `SourceIsEncoded` |
| `convert` | three units, minimum 2, widths 2-3, encodings of up to two units, windows of 1, 3 and 5 units, values and decoders that lie, resets, finishes and allocations that fail, decoders with reset and finish values that encode or fail | `SafeForAnyCodec`; `ReservedOutputSuffices`; the bounds of transcode, finish and a whole stream suffice; implements ConvertStream; `StreamIsConverted` |
| `decode_input` | two units, needs and rooms up to two, one value kept back, batches of 0-2 slots, I/O errors, decoders that lie | commits in their windows; `DeliveredInOrder`; `BatchKeepsEndOfInput`; `ShortReturnIsExplained`; `StreamIsDelivered` |
| `encode_output` | two values of up to two units, one unit kept back, a buffer of one unit that grows, I/O errors, encoders that lie, values and raw writes in between | `SafeForAnyEncoder`; `NoUnitLostOrInvented`; `StreamIsWritten` |
| `decode_driver` | minimum 2, widths 2-3, five units in any portions, a buffer of one unit that grows, I/O errors, codecs that lie | `SafeForAnyCodec`; `NeverWaitsForNextValue`; implements ValueReader; `EveryReadReturns` |
| `async_decode` | as `decode_input`, every refill may be pending, every pending future dropped | `CancellationIsSafe`; `DeliveredDespiteDrops` |
| `async_encode` | as `encode_output`, every drain may be pending after any part of it | `CancellationIsSafe`; `WrittenDespiteDrops` |
| `one_shot` | inputs up to four units, outputs up to ten, a trailer of two units, one unit kept back; values of one or two units, `usize` small enough to overflow | `CompleteStreamIsWhole`; `ValueIsWhole` |
| `registry` | two threads, two wires, up to three registrations of two ids and two descriptors, ids of up to four bytes | `SameAnswerForEveryone`; `IdErrorIsTrue` |

All runs pass; the code and its documentation agree on everything that is checked.
In the runs whose codecs or transcoders may lie, `faulty` is chosen in `Init`, and
the properties about honest ones are stated for the behaviours where it is FALSE.

*Bounds.* The streams are long enough for a value that is cut by a call boundary
after another value, for a tail behind a complete value, below the minimum as
well, and for a malformed span followed by resynchronisation. Windows of zero,
one and more slots make output run out before, between and after values, and one
window has its index past its end. The bridges need a refill that fails in the
middle (two units), a value kept back across calls (`MaxHeld = 1`) and a buffer
that has to grow (`FirstCap = 1`), up to `MaxCap`, beyond which allocations fail.
Three registrations of two ids are the least with a duplicate that a third keeps
apart, four bytes the least for two segments with a malformed one after an empty
one or before it. Two threads are enough for one to build and one to wait.
`UsizeMax` is the bound of `usize`: a small number, above every
count of an instance, so that checked additions overflow only where `HookBounds`
or a small `UsizeMax` make them.

*Fairness.* The steps of a running call are sequential code, hence weakly fair.
The source delivers, and the caller repeats calls that announce the end of
input (decode, convert) or are batches (decode bridge) and offer the room a
decoder or encoder may ask for; these are disabled while a call runs, so they are
strongly fair. On the output side the caller repeats its step, its finish and,
after an error, its flush: each stays enabled until it is done, so weak fairness
is enough. A poll of an asynchronous call that is not pending is strongly fair:
the I/O is ready again and again, however often the caller drops the future
before it is. Nothing is assumed of the other calls the caller may mix in. Except in
`decode_caller`, where the specification itself is that of such a caller, the
liveness properties have the form `<>[][CallerNext]_vars => []<>P`: after any
history, once the caller does nothing but drive its stream (and, for the
bridges, reads, writes and allocations have stopped failing), `P` is reached. The
instance of `decode_caller` ends after `finish` and does not check deadlock; all
others do.

## What is proved

The theorems hold for every value of the constants: every stream, window, width
bound, buffer size, policy and answer of foreign code. Assumed are the named
ASSUMEs, that is the compile-time `assert_unit_bounds`, the types of the
constants and that no slice is longer than `usize::MAX`, and for the two encode bridges a hypothesis of the theorem (below).

| Module | Theorem | States |
|---|---|---|
| `DecodeEngineProofs` | `TypeCorrect`, `OpenStreamsOnly`, `CursorsInBuffers`, `NoPanic` | `TypeOK`, `DecodesOnlyOpenStreams`, `CursorsStayInBuffers`, `HonestCodecNeverPanics` |
| | `ProgressIsValid`, `EofNeedsNoInput`, `CapacityRetryable` | the action properties `ProgressHonoursContract`, `EofNeverNeedsInput`, `CapacityFailureIsRetryable` |
| | `DefaultBoundSuffices`, `StrictBoundSuffices` | `OutputBoundSuffices`, for the default hooks and for the strict adapter |
| | `DecoderImplementsStream` | the refinement of DecodeStream |
| `EncodeEngineProofs` | `SafeEncoder`, `HookAskedOnce`, `BoundSuffices` | `SafeForAnyTarget`, `HookAskedOncePerValue`, `OutputBoundSuffices` |
| | `EncoderImplementsStream` | the refinement of EncodeStream |
| `ConvertEngineProofs` | `SafeConverter`, `ReservedSuffices`, `BoundsSuffice` | `SafeForAnyCodec`, `ReservedOutputSuffices`, `OutputBoundSuffices` |
| | `ConverterImplementsStream` | the refinement of ConvertStream |
| `DecodeDriverProofs` | `SafeReader`, `NoReadAhead` | `SafeForAnyCodec`, `NeverWaitsForNextValue` |
| | `DriverImplementsReader` | the refinement of ValueReader |
| `DecodeBridgeProofs` | `TypeCorrect`, `InOrder` | `TypeOK`, `DeliveredInOrder` |
| | `EndKept`, `ShortReturns` | the action properties `BatchKeepsEndOfInput`, `ShortReturnIsExplained` |
| | `CancellationSafe` | `CancellationIsSafe` of the asynchronous bridge |
| `EncodeBridgeProofs` | `SafeBridge`, `UnitsConserved` | `SafeForAnyEncoder`, `NoUnitLostOrInvented` |
| | `CancellationSafe` | `CancellationIsSafe` of the asynchronous bridge |
| `OneShotProofs` | `CompleteStream`, `WholeValues` | `CompleteStreamIsWhole`, `ValueIsWhole` |
| `ValueCodecRegistryProofs` | `SameAnswer`, `IdErrors` | `SameAnswerForEveryone`, `IdErrorIsTrue` |

Each module proves `InductiveInvariant`, `Spec => []IInv`, first, with one lemma per
action, and the rest from it (`AsyncInductiveInvariant` for an asynchronous
bridge). Every `IInv` stands with the properties and was checked by TLC on the
instance of its run before it was proved. What the safety properties lack to be
inductive:

* *Decode engine.* That a loop iteration keeps the cursors in bounds needs that
  the guards of the loop leave at least one unit and one slot, that the item at
  the cursor exists and that between calls the consumed prefix is visible; that
  the second line of assertions (`accept_emitted`, `skip`) never fires needs the
  bounds on every outcome of `decode_one` (`DecodeOneFacts`). `CallsLeaveNoState`
  adds the cursors between calls, that a call which announced the end of input
  sees the whole stream, and that a running call has not reported anything yet.
  The action properties follow from `IInv` and `LoopStepFacts`: an iteration goes
  on silently, returns a progress its cursors justify, or fails. The output
  bounds need one more invariant each: a value of the running call has cost at
  least one unit (`ValuesCostInput`), with strict hooks at least the minimum
  width but for the last one (`ValuesCostMinimum`; `RoundedUp` is the arithmetic
  of `div_ceil`). For the refinement, `DecodeOneIsWhole` shows that what
  `decode_one` takes is what stands in the stream, although it saw a prefix only.
* *Encode engine.* A hook is asked once only because nobody has asked about a
  value that was not reached (`HooksAskedInOrder`), and the room suffices because
  what a call has written is paid for by the values it has read
  (`UnitsCostValues`), a nonlinear bound.
* *Convert engine.* `CallsInStep` and `SlotInStep` tie the place in a call to the
  three guards and to the waiting value; `RoomIsReserved` says at each place of
  reset and finish how much of the reservation is left, which is what its
  assertions rest on. The bounds have an invariant of their own, `PlanIsKept`:
  what a call has written, and a value that waits, is paid for by the units it has
  read and one value of an earlier call (`UnitsArePaid`), and a stream has as many
  encodings as its decoder's reset and finish and its units allow, none of them
  wider than the codec's bound (`EncodingsArePlanned`, `EncodingsAreNarrow`). The
  total is stated as a count and a width, which is more than a bound on the sum
  and needs no induction over the encodings.
* *Single values.* `CallsKeepWindow` says what the reader knows of its window
  between the codec's calls, and that the last attempt is made on the whole rest
  of the source; `AcceptedIsWhole` that an accepted value is the one in the
  stream, which the refinement needs when the lifecycle is closed a step later.
* *Decode bridges.* In the middle of a batch the caller knows fewer values than
  were made: `SlotsFollowGot` says that the slots written so far hold exactly the
  values that come next, so that appending the first `written` of them keeps the
  order, and that a failed call loses them and nothing else. `CallInStep` holds at
  every place of the loop, among others that no batch runs while
  `eof_retry_pending` is set, and `EndIsRemembered` that the flag stands as long
  as the decoder's answer does: cleared with the first unit that comes, also in
  a refill that fails afterwards. The asynchronous bridge keeps nothing of a batch
  when its future is dropped, so that `CancellationIsSafe` lacks only that no more
  is kept back than was made; the work is in the steps of a future, each of
  which must account for the units it took and the values it handed over before
  it may be dropped.
* *Encode bridges.* `EncodeBridgeProofs` holds what both rest on: an accepted report
  fits the spare room of the buffer, an honest one is accepted, and each call
  keeps `owed = pend + held`. The blocking bridge needs that a batch entered its
  loop with the room for all its values (`BatchHasRoom`), the asynchronous one
  that what it remembers of a NeedOutput across a dropped future can be reserved
  again, and that `required_spare` and the last report agree (`OpenAfterStep`).

* *One-shot calls.* `CallOnFreshStream` says what reset, transcode and finish find
  when `transcode_complete_into` calls them, `PlanHolds` that at every phase the room
  that is left covers the sum of the bounds of the phases to come. The sum is what
  the checked additions of the planner gave, so an overflow would have been refused
  before the first phase; the product in `max_transcode_output_len` makes it
  nonlinear (`ProductSplits`).
* *Registry.* The invariant is that what a thread or a cell holds was built from the
  registrations of a wire, which do not change. The argument is about `build`
  (`FreezeDescribes`): sorted registrations are a one-to-one rearrangement, so every
  id and every declaration is counted as often as before (`ArrangedCount`), in link
  order as in the opposite one; among them an id is there twice iff it is at two
  neighbouring places (`TwinsAreTwice`), the first such pair is of the least
  duplicate and begins its run (`FirstTwin`), and `take_while` from there meets all
  its registrations (`RunIsPlaces`). For ids, `SegmentsFacts` shows that cutting at
  each dot is cutting from the last dot before it, which is how the one pass of
  `validate` finds the segments.

The theorems about the encode bridges say `ASSUME BoundsFit` or `OutputBoundsFit`:
no sum of an encoder's own bounds passes `usize::MAX`. An encoder whose bounds
overflow is refused by the checked arithmetic, so that "an honest encoder is never
refused" needs it; the instances of the runs satisfy it (the largest sum is 9,
`UsizeMax` 12). Nothing else is assumed of the encoder.

`DefaultBoundSuffices` is proved and not run: with `Strict` TLC checks the tighter
bound.

Only model-checked:

* the six liveness properties (`StreamIsConsumed`, `SourceIsEncoded`,
  `StreamIsConverted`, `StreamIsDelivered`, `StreamIsWritten`, `EveryReadReturns`)
  and the two of the asynchronous bridges
  (`DeliveredDespiteDrops`, `WrittenDespiteDrops`): fairness and ENABLED are out of
  the prover's reach.

## What is not modelled, and the plan

Left out for good: error wording and source chains, `Debug`/`Default`, what serde
computes, byte-order markers (no state), accessors, `codec_mut`, `hooks_mut` and
`into_parts` (they give the caller the objects themselves), values and bytes as
such, and the `debug_assert!`s. Concrete codecs live in other crates; the models
take the contract of the `Codec` trait.

Every part of the crate that keeps state has a module and theorems. What could
come next: in the registry, that a wire is built once, which no caller can
observe today because every build of a wire gives the same answer.
