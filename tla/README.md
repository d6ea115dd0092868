# A verification development for the SofaBuffers corelib (no_std Rust)

These modules model the wire codec in `src/src/`: the streaming decoder
`IStream`, the streaming encoder `OStream` with its flush sinks, the payload
accumulator `PayloadAcc` and the wrapper-array slots of `seq`. TLC checks them on
small instances; TLAPS proves every invariant that the passing runs check, the action
properties and the three refinements for every value of the constants, down to the
round trip: what is written reads back, and arrives at a decoder behind the sink.
Only liveness is left to TLC. Source references below are relative to `src/src/`
unless they say otherwise.

`PROJECT.json` lists the runs, maps each definition to the source lines it
models, and lists the hazards with the properties that cover them.

## 1. The system

| component | source | state it keeps | operations |
|---|---|---|---|
| Wire format | `types.rs`, `varint.rs` | none | tags, ceilings, ZigZag, one varint byte |
| Decoder `IStream` | `istream.rs` | one accumulator for varints and floats (`acc`, on narrow builds also `acc_lo`), `shift`, state, depth, id, two counters | `new`, `feed` |
| Visitor contract | `istream.rs`, trait `Visitor` | the visitor's own | ten callbacks |
| Encoder `OStream` | `ostream.rs` | active buffer and cursor, nesting depth, the window of held-back sequence ids | twelve field writers, `write_sequence_begin_lazy`, `_end`, `_end_keep`, `flush`, `buffer_set`, `bytes_used` |
| Sinks and `Handover` | `ostream.rs` | replacement installed, buffer retired | `Flush::flush`, `install`, `taken` |
| Payload accumulator | `payload.rs` | storage, length, a completed flag | `feed`, `reset`, `buffered`, `capacity` |
| Wrapper-array slots | `seq.rs` | the container's; generated code records an index | `check_index`, `check_len`, `reserve_elem`, `place_elem`, `reserve_row`, `grow_to`, `slot_mut`, `clear` |
| Float comparison | `floats.rs` | none | two pure functions |
| Configuration, errors | `lib.rs`, `error.rs`, `Cargo.toml` | none | cargo features |

**How they interact.** A caller feeds bytes to an `IStream` in chunks of any
size; the decoder calls the `Visitor` synchronously, at most twice per byte. A
visitor that wants whole strings passes the chunks on to a `PayloadAcc`. Generated
code is such a visitor: it puts the elements of a sequence of strings, structs or
rows into a container through `seq`, by the id each element arrives under. A caller
writes fields to an `OStream`, which pushes single bytes; a full buffer calls the
sink in the middle of a header, a length word or a float, and the sink may take
that buffer and install another before it returns. Encoder and decoder share only
the wire format; a sink may well feed a decoder.

**What is hard.** There are no threads. The difficulty is re-entry and cutting:
every loop can be suspended at any byte (the end of a chunk, the end of a buffer),
state is shared between unlike uses (one accumulator, one counter that is also a
flag), a callback may swap the buffer the write is going into, a full buffer
without a sink leaves a call half done and the caller makes it again, and numbers
run up to the edge of a type chosen at build time. The hazards in `PROJECT.json`
are these, line by line.

**What makes each component correct.**

- *Decoder*: events and verdict are a function of the bytes, not of the chunks;
  no bit of one value reaches another; INVALID is final; every feed returns; the
  visitor sees well-formed callbacks.
- *Encoder*: the bytes out are those of the calls in one piece, whatever the
  buffers; a sequence is framed exactly when it has content or is kept; with a
  sink nothing is ever cut; without one a cut leaves a prefix the caller can
  resume from.
- *Accumulator*: each payload once, whole, never spliced; refusal depends on the
  announced total alone.
- *Slots*: an element is found at its id whatever was left out before it; a
  request that is refused changes nothing, and none fails half way.
- *Both codecs*: what is written reads back, and arrives while it is being written.

## 2. Modules

```
Wire ── IStream ── Decoding ── Accumulating        PayloadAcc ── PayloadSource
  │        │     ⟨WireGrammar⟩  ⟨PayloadAcc⟩
  │     ⟨VisitorContract⟩                          SeqSlots ⟨SparseArray⟩
  └─ Encoding ── OStream ── RoundTrip ── Loopback
        │           │     WireGrammar   ⟨Decoding⟩
        │           ├────── Recovery
   MessageWriter ⟨┄┄┘└───── Recycling              ── EXTENDS   ⟨M⟩ INSTANCE or reference
```

| module | what it is | how it corresponds to the code |
|---|---|---|
| `Wire` | constants and one-byte arithmetic | `types.rs`, `varint.rs`, `payload_at`, the overlong check of `Core::push` |
| `IStream` | the decoder | variables are the fields of `Core` and `IStream` under their own names, plus `left` (bytes unread), `status` (what `feed` returned) and `calls` (callbacks of the last step). One step is one turn of `feed`'s loop: a byte with everything `step` dispatches it to, or one bulk run of payload bytes |
| `VisitorContract` | abstract specification: which callback may follow which | documentation of `Visitor` and the order `istream.rs` calls in |
| `WireGrammar` | reference definition: the events and the verdict of a whole message, item by item; a reading is a function of the number of items read, so that it can be proved about | the format, independent of any decoder state |
| `Decoding` | decoder with its history | a visitor that joins chunks |
| `Encoding` | the bytes of each writer | `write_*` of `ostream.rs` |
| `OStream` | the encoder | one step per pushed byte, per drain, per callback. `sinks` and `takes` are what the constructor fixed. `pc` is where inside `push_byte` the call is: `push` before the room test, `sink` in the callback, `store` after it. The sink acts through `install` and `taken` while `pc = "sink"` |
| `MessageWriter` | abstract specification: writes add their bytes in one piece, or a prefix | what the encoder promises its caller |
| `RoundTrip` | encoder with what its caller said, read by `WireGrammar` | |
| `Loopback` | both codecs: the sink feeds what it is handed to an `IStream` before it returns | the decoder is an instance of `Decoding`; where buffers end and where feeds begin are independent |
| `Recovery` | encoder, a caller that installs and repeats the failed call, and a one-shot encoder beside it | the `BufferFull` recipe of `src/README.md` |
| `Recycling` | encoder with a sink that keeps a pool | the example in the documentation of `Handover` |
| `PayloadAcc`, `PayloadSource` | the accumulator; a source that keeps no contract | `PayloadAcc::feed`, `reset` |
| `Accumulating` | decoder, visitor and accumulator together, messages abandoned half way | |
| `SeqSlots` | the slots and the generated code that fills them | a call that grows is a call in progress, one step per `push`; `limit` is `N` of a `heapless::Vec`, or all a `usize` counts; between calls generated code fills the slot it recorded, fetching it anew for each part |
| `SparseArray` | abstract specification: a value at every index, nothing grows, refusals change nothing | what the documentation of `seq.rs` promises generated code |
| `WireProofs`, `DecodingProofs`, `AccumulatingProofs`, `OStreamProofs`, `LoopbackProofs`, `RecyclingProofs`, `PayloadProofs`, `SeqSlotsProofs` | theorems; `WireProofs` includes the grammar, `DecodingProofs` the machine and the visitor contract, `OStreamProofs` the message writer and `Recovery` | |

`MC...` modules only give constants small values. A definition named
`X_but_mistake` is `X` with a plausible bug. It is not part of the model; it
stands before `X` so that each property can be shown to notice the difference.

**Data.** Bytes are numbers. Values are naturals below `2^ValueBits`, so `|` of
disjoint fields is `+`, `<<` is a product modulo the width and `>>` is `\div`.
Floats are their bit patterns. A buffer's address does not matter, so a buffer is
an element of `Buffers` with a size. The lifetime of an installed buffer is
modelled by membership of `free`: what is active, installed or retired is not there.

**Widths.** 7 payload bits, 4-byte fp32 and 64- or 32-bit values are constants.
Small instances keep the relations the code relies on (`WidthAssumption`): a tag
fits one byte; a value is as wide as an fp32 (two words are then needed for an
fp64, as with `value64` off) or as an fp64; a value is never a whole number of
varint bytes, which is what gives the last byte its reduced room. `Target32`
selects the code of 32-bit targets, which shift payload bits into the accumulator
as two words with a carry.
`PowerAssumption` states two facts about `^` for TLAPS, that it is positive and that
exponents add, up to twice the width of a value.

**Fields.** `FieldAssumption` says of the fields a caller writes what the writers'
argument types say (`IsField`: the writer is compiled in, values are of the value
type, floats of their width, `write_fixlen` is not refused); ids may still be too
large, which is `Refused`. `ReadableAssumption`, in `Loopback` and its theorems only,
adds the limits no writer checks (`Readable`): a payload's length word and an array's
count fit the value type and the format's ceiling, the words of the floats themselves
do so too, and `write_fixlen` is given a float in its own width. `long_blob`
(section 6) runs without it. TLC evaluates each assumption in every run that extends
its module.

## 3. Runs

| run | what is asked | instance |
|---|---|---|
| `decoder` | `TypeOK`, `BitsBelowShift`, `CleanAccumulator`, `CountsMatchState`, `InvalidIsLatched`, `KeepsContract` (IStream implements VisitorContract), `FeedTerminates` | all features, 12 byte values, chunks of up to 2, for ever: 50 000 states |
| `decoding_wide` | `EventsAreTheMessages`, `VerdictIsTheMessages` | all messages of up to 5 bytes over 12 byte values, every cutting, on a 32-bit target that shifts by halves |
| `encoder` | `TypeOK`, `NoBufferFullWithASink`, `KeepsPromise` (OStream implements MessageWriter) | buffers of 1, 2 and 4 bytes, offsets 0 and 1; without a sink, with one that copies and with one that installs and takes back at any time, and a caller that flushes and swaps: 620 000 states |
| `recovers` | `HeldBackAreOpen`, `KeepsPromise`, `ResumesUnlessOpening` | no sink; buffers of 2, 1 and 12 bytes, two-byte headers, so cuts fall inside and between headers |
| `round_trip` | `Arrives`, `ReceiverClean`, `ReadsBack` | a build where an fp64 takes two words; every writer at the least, greatest and middle values, two fields and sequences through a two-byte buffer into a decoder fed one or two bytes at a time, messages of up to 9 bytes |
| `takes_first` | `NeverStarves`, `NothingLost`, `CallsReturn` | one buffer active, one spare |
| `payload_source` | `NeverSpliced`, `HandedBackOnce`, `RefusedHoweverTorn` | 3 bytes of storage, totals and offsets to 4, any chunk in any order, for ever |
| `accumulating` | `PayloadsArriveWhole` | storage of 2, messages of up to 6 bytes, abandoned anywhere |
| `slots` | `TypeOK`, `NeverHalfGrown`, `IsSparseArray` (SeqSlots implements SparseArray) | capacities 0, 2 and all a `usize` counts, schema counts and caps 0, 1 and the largest, ids up to the largest `usize`, in any order, for ever |
| `recovers_eager`, `installs_first`, `long_blob` | see section 6 | |

**Bounds and why they suffice.** The decoder keeps counters, not history, so
unbounded input over a byte set with every header type, both float words, legal
and illegal subtypes and the last legal and first illegal final byte of a varint
reaches every combination of its states; `FormatMax` and `MaxDepth` of 1 to 3 make
each counter take 0, 1, "several" and "one too many". The histories are bounded by
message length: 5 bytes hold an array with elements, a cut payload in a sequence
and a three-byte varint with its header. The 9 bytes of `round_trip` hold two fields,
one of them with a two-word float, between the frames of two sequences. An
encoder's behaviour depends on where in a part the buffer ends and on the window;
buffers smaller than a two-byte header and a window of one or two sequences with
a deeper nesting reach every such place. `MaxMessage` is in the guard of `Begins`
(no *new* write begins), so every write that begins runs to its end. The slots
distinguish an id only by how it compares to the length, the capacity and the
bound, and by whether adding one wraps; four ids with `UsizeMax` the largest meet
every such case.

**Deadlock.** `recovers` and `recovers_eager` switch the test off: a caller
without a buffer left stops. In all other runs it is on.

**Fairness.** `decoder`: `feed` is a `while` loop that waits for nothing, so a
feed that has begun takes its next turn: weak fairness of `Decodes`. Nothing is
assumed of the caller, who may never feed again. `takes_first`: `push_byte` is a
loop, the drain a call and the sink's callback a few pops and pushes, none of
which waits: weak fairness of `RunsOn`, the steps of a call that has begun. The
caller need never write again. What `CallsReturn` shows is that the loop of drain
and store makes progress: each drain leaves room for at least one byte.

## 4. What is proved

Every proof is for arbitrary widths, depth limits, feature sets, buffers, sizes,
offsets, window depths, bounds and inputs that satisfy the named assumptions:
those above, `RecyclingAssumption` (a buffer is larger than the header room the
sink asks for), `SourceAssumption` (chunks are byte sequences) and
`SlotsAssumption` (ids, lengths, bounds and capacities are in the range of a
`usize`).

- `WireProofs`, the arithmetic: `ZigZagRoundTrip`; `HalvesAreTheShift` (the split shift of 32-bit
  targets is the plain one at every shift and width; every theorem about the
  decoder holds for both values of `Target32` through it); and lemmas on the room
  in an accumulator (`PushFits`: a byte that passes the overlong test lands above
  the bits already there and inside the type) and on `WireGrammar`: a reading exists
  for every message, an item that has ended is not changed by bytes after it, and an
  ended reading stays as it is (`VarintReads`, `NextItem`, `EndStays`).
- `WireProofs`, writing and reading: `VarintShape`: what `write_varint`'s loop puts out
  is the value's digits, the last byte the only one without a continuation bit and
  within its reduced room; `VarintReadBack`: so the grammar reads the value again,
  whatever follows. The lemmas after it speak of bytes as something that *adds* to a
  reading: `Adds(w, nest1, at1, nest2, at2, events)` says that wherever a reading gets
  to nest1 and at1, it gets through w as well, to nest2 and at2, with these events
  more, whatever follows. `AddsThen` puts two such runs together, so a field is taken
  apart the way its writer puts it together: `HeaderAdds`, `IntegerAdds`, `CountAdds`,
  `WordAdds`, `FloatAdds`, `PayloadAdds`, and for the elements of an array `PartsAdd`,
  by induction over how many have been read.
- `DecodingProofs`, the machine: `TypeCorrect`, `BitsStayBelowShift`, `CountsAlwaysMatchState`,
  `InvalidLatched`. The inductive invariant `Inv` is the four properties with
  `CleanHigh` (a float starts on a zero accumulator, else the next varint could
  exceed its shift), `ShiftAligned` (shift is a multiple of the payload bits, so
  the reduced room is met exactly once) and `Latched` (state Invalid and verdict
  INVALID go together). Each lemma handles a group of handlers. `AlwaysClean` is
  about the second word, which only a narrow build has. `LowInv` says that it is
  zero outside an fp64, in an fp32 too: `BytesOnTop` keeps the float's bytes above
  the place where the next would go, so the fp32 ends before its first byte gets
  down there.
  `ContractKept`: the decoder implements `VisitorContract`. The
  simulation needs `Inv` and one fact more, `ArraysCompiledIn` (the array states are
  reached only in builds with arrays); one lemma per handler says which step of
  the contract its callbacks are, or that it makes none.
- `DecodingProofs`, the meaning: the decoder means what the message means.
  `EventsAlwaysTheMessages`: at every byte the visitor has seen the events
  `WireGrammar` reads in the bytes so far, however they are cut.
  `VerdictAlwaysTheMessages`: what `feed` returns is their verdict. `InvalidIsFinal`:
  nothing that may follow an INVALID message would make it a message, nor change its
  events, so INVALID never comes too early. The inductive invariant `HInv` is not a
  statement about the bytes so far but about every continuation of them:
  `Reached(n, p, events)` says that whatever follows, the reading gets through n items
  and stands at p, at the decoder's depth and expecting what the decoder expects;
  `InItem` that the accumulator, the shift and the counters are what the bytes from
  p on say (a varint read little-endian, a float at the top of its window, a run of
  payload); `History` that the log is the events of those items and, in a payload,
  the chunk so far; `Malformed` that whatever follows, the reading ends INVALID with
  this log. A byte inside an item keeps `Reached` and moves `InItem` on; one that
  ends an item is a step of the reading, one lemma per kind of item
  (`HeaderIsRead`, `CountIsRead`, `FloatEndsKept`, ...). The theorem then takes the empty continuation. `Returned`
  adds to it what the verdict needs. This is an invariant over all ways to go on
  because an item's reading must not depend on bytes after it: that locality is
  where most of the work is.
- `AccumulatingProofs`: `PayloadsAlwaysArriveWhole`: behind a decoder the accumulator
  has handed back exactly the whole payloads of the message that fit its storage, in
  order, for every storage size, every cutting and whatever was abandoned before.
  `AInv` needs `Held`: while a payload that fits is arriving, the accumulator is not
  complete, its length is what has arrived, and its storage starts with the last
  `len` bytes of the message. Nothing need be said of the storage otherwise, since
  the first chunk of every payload is at offset 0: that is why a message abandoned
  half way does no harm. With `HInv` a chunk then extends the event under way.
- `OStreamProofs`: `TypeCorrect`, `HeldBackAlwaysOpen`, `NeverFullWithASink`. The
  inductive invariant `IInv` adds `Phases` (what `pc`, `call`, `part` and `then`
  say of one another), `CallIsPossible` (the depth change a call will make is in
  range) and `DrainsMakeRoom` (with a sink the active buffer is never of size 0, so
  after a drain there is room for the byte: that is why `BufferFull` at `store` is
  unreachable).
  `PromiseKept`: the encoder implements `MessageWriter`. `PInv`
  adds to `IInv` where a call is: what it was called with is a write the promise
  knows (`CallIsLegal`); what has come out since it began is the first k headers
  of the run it found and the part of the next header, or of its own bytes, that
  is not in `part` (`Progress`); and in a callback all there is has been handed
  over. A byte is then a stutter unless it is the last of its call, and a cut is a
  prefix. The run of headers is a recursive function of the run, so the module first
  proves that the function exists, by induction over a set of numbers.
  `CutsAreResumed`: the recipe after `BufferFull`, with the one exception of
  section 6, yields the bytes of an encoder that never ran out. `Resumable` relates
  the two encoders: during a call the one-shot encoder is ahead by exactly what the
  call has yet to put out, the rest of the run and its own bytes (`Underway`); after a
  cut by the headers still held back and the whole of the failed call, which, made
  again, is the call it was (`CutShort`, `SameAgain`); otherwise the two are level.
  `RecoveringKeepsPromise`: what such a caller does is within the promise.
- `LoopbackProofs`: `ReceiverAlwaysClean`. The receiver in `Loopback` is an instance of
  the decoder whose input is what the encoder has handed over. `Same...` say that
  its steps are the decoder's; `Fed` that it has taken a prefix of what was handed over, and is
  inside a feed only while the sink runs; `ReceivesMoves` that what the sink does is
  then a step of the decoder's history, and `WritesReceived` that the encoder's own
  steps, which only lengthen what is handed over, change nothing the receiver has
  seen. So the invariants of `DecodingProofs` hold of the receiver (`Received`), its history
  being the first `fed` bytes the encoder emitted.
- `LoopbackProofs`, the round trip: `AlwaysReadsBack`: between calls the grammar reads in
  the bytes that came out exactly what the caller said. `FieldAdds`, one lemma per
  kind of writer under it, says that a field's bytes add what `Says` says, and `RunAdds`
  that a run of headers opens its sequences. The inductive invariant
  `SaidInv` has to hold in the middle of a call, where the bytes so far end anywhere in
  a header, a word or a float. It therefore speaks of more than what came out: unless a
  buffer ran out, the bytes so far with those the call in progress still has to put
  out (`Rest`) get, whatever follows, to the end of an item with the events in `said` and
  with as many sequences open as are framed. A byte stored moves from the second part
  to the first and changes nothing (`StoreByteSays`, `MovesSay`), so the buffers and the
  sink drop out of the argument through `IInv` and `PInv`; a call that begins adds
  the run it commits and its own bytes (`WriteSays`, by `RunAdds` and `FieldAdds`); one
  that holds back or drops a sequence adds nothing (`HeldBackSays`). Between calls `Rest` is
  empty and nothing follows: that is the property (`SaidIsRead`).
  `LoopReadsBack` is the same behind a sink that reads along. `AlwaysArrives` joins the
  two codecs: when all is handed over, the receiver has heard the meaning of all the
  bytes (`AllIsHeard`, from `Received` and `VerdictOfSeen`), its grammar is the encoder's
  (`SameMeaning`: the receiver is an instance with its own copy of every definition), and
  by `LoopReadsBack` that meaning is what was said.
- `RecyclingProofs`: `BuffersAreNeverLost` in either order of the callback;
  `OneSpareIsEnough` if the sink takes back first; `TwoSparesAreEnough` in the
  documented order, so what section 6 reports is a matter of one buffer. The invariant
  says where every buffer is: active, installed, retired or in the pool, each in
  one place.
- `PayloadProofs`: `PayloadsAreNeverSpliced`, `PayloadsAreGivenOnce`,
  `TooLongIsRefused`. The invariant ties the storage to what the source has told:
  as long as a payload may still complete, its first `len` bytes are those of one
  unbroken run from offset 0.
- `SeqSlotsProofs`: `TypeCorrect`, `ReservationsComplete` and
  `ContainerIsSparseArray`, the refinement. The invariant `Underway` says what a
  reservation in progress has checked already: the id is within its bound, so
  `i + 1` cannot wrap, and the length it grows to is one the container can have.

**Model-checked only.** Liveness and fairness (`FeedTerminates`, `CallsReturn`),
which the prover does not do. The three runs that expect a violation are
counterexamples and leave nothing to prove.

**What the proofs changed in the models.** `FloatBits` was a `CASE` with overlapping
guards: for an fp32 where an fp64 takes two words both applied, and which one TLC
took was a matter of their order. It is an `IF` now. `PowerAssumption` was too narrow for a float's window on
builds where an fp64 takes two words. `WireGrammar` and `Accumulating` used recursive
operators and filters of sequences; they are functions now, and the runs show the
same of them. `RoundTrip` let a caller write sequences in builds compiled without
them. It was assumed that the encodings of the fields at hand are byte sequences; now
only the fields' types are assumed and that is a lemma (`BodyTyped`). The elements of
an array were put together by an operator with an operator for its argument, which no
lemma can be about; they are a sequence of parts now (`Concatenated`). The attempt on
`ReadsBack` showed three things the model had left out: an array's count is truncated to
the value type as a length word is (`CountOf`), what can be read back is limited
(`Readable`), and a float given as bytes to `write_fixlen` reads back as that float.

## 5. What is not modelled

- Generated code, other than as the caller of `seq`, of the encoder and of the
  decoder: it is no part of the repository. Ids are assumed no wider than a `usize`
  (`seq.rs` converts them), and a `Vec` whose allocation fails aborts the program.
- `lib.rs`: what it holds beside re-exports is resolved at compile time; its
  cargo features are the constants `Features`, `ValueBits` and `Target32`.
- `floats.rs`: two pure functions; floats are bit patterns here, so `bits_equal_f32`
  would be `=`.
- `bytes_used`, `buffered`, `capacity`: reads without effect.
- The bytes of a string: that `&str` is UTF-8 is the type system's business, and
  `write_fixlen`'s refusal of the string subtype is part of `Refused`.
- Panics inside a user's callback or visitor.
- That something is to be read back of a field beyond `Readable`: an array of more
  than `ARRAY_MAX` elements, or `write_fixlen` with a float subtype and bytes of another
  length. The encoder writes both with `Ok` and every decoder refuses them.
- `error.rs` (a list of names), build scripts, tests, benchmarks, the smoke programs
  under `.github`: they use the library, or describe it.

## 6. Where code and documentation disagree

Three runs show a documented statement failing.

- `recovers_eager`: the recipe "install a bigger buffer and retry" does not always
  resume at the cut. A `write_sequence_begin_lazy` past the window commits the run
  before it frames; when it is cut between headers the window has room again, and
  the second attempt holds the sequence back. Closed empty, it is lost, where an
  encoder with room keeps its frame. `recovers` shows this is the only exception.
- `installs_first`: the example callback of `Handover` pops its spare before it
  puts back the taken buffer. A buffer is retired only after the callback returns,
  so with one spare the second callback finds the pool empty. `takes_first` shows
  the other order suffices.
- `long_blob`: without `value64` a length word has 29 bits for the length. A blob
  of 2^29 bytes or more is written with a truncated word and `Ok`.

Two smaller ones need no run: `bytes_used` ("bytes written since the last flush",
`ostream.rs:436`) returns the cursor, which counts an installation's header room;
`buffered` ("non-zero exactly while a split payload is still incomplete",
`payload.rs:278-281`) stays at the length after a split payload has completed.

## 7. Plan

Done, in this order: `Wire`, `IStream` with `VisitorContract` and `WireGrammar`;
`Encoding`, `OStream` with `MessageWriter`; the composed `RoundTrip`, `Recovery`,
`Recycling`; `PayloadAcc` with its two environments; the first proofs; `SeqSlots`
with `SparseArray`; `Loopback`; liveness of the encoder's calls; the code of
32-bit targets; the proofs about the accumulator's second word, the recycling sink,
the payload accumulator, the slots, and the refinements of the visitor contract and
of the message writer; the proofs that the decoder means what the message means, that
cuts are resumed, that payloads arrive whole and that the receiver of a loop is clean;
the proofs that what is written reads back and arrives.

Left:

1. Liveness of a call with any sink that returns, not only with the pooling one.
2. Generated code's dispatch by id as a visitor, joining `Decoding`, `Accumulating`
   and `SeqSlots`, if a generator's output is added to the repository.
