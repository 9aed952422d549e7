# A TLA+ model of go-wav

go-wav reads and writes WAV audio in its RIFF, RF64 and BW64 containers. This
directory specifies the program's state machines in TLA+, model-checks them with
TLC on small instances and proves the main safety results with TLAPS. Each
definition is translated from the Go source; `PROJECT.json` maps it to the lines
it stands for, lists the runs, the hazards of the code and the properties that
guard against them, and names the theorems.

- [The system](#the-system)
- [The modules](#the-modules)
- [The model against the code](#the-model-against-the-code)
- [What the runs check](#what-the-runs-check)
- [Bounds](#bounds)
- [Fairness](#fairness)
- [What is proved](#what-is-proved)
- [Where the code and its comments differ](#where-the-code-and-its-comments-differ)
- [Not modelled](#not-modelled)
- [Plan](#plan)

## The system

The library is single-threaded per object: an encoder or a decoder belongs to one
goroutine. What is shared between goroutines are the pools behind the one-shot
functions. What is hard is the order of calls, what a failing sink or source
leaves behind, and size arithmetic at the limits of its fields.

| Component | Source | State | Operations |
|---|---|---|---|
| RIFF header writer | `internal/riff/writer.go`, `chunk.go` | none: a `Layout` is a value | `HeaderLen`, `FitsPlainRIFF`, `FitsRIFF`, `BuildHeader`, `PatchSizes`, `UpgradeToRF64` |
| Streaming encoder | `pcm/encoder.go`, `pcm/pcm.go` | sink, config, container, layout, byte count, carried partial frame, closed flag, latched error | `NewEncoder`, `Reset`, `Write`, `Close`, `StreamInfo` |
| RIFF header reader | `internal/riff/reader.go` | position, `Header`, seen-flags, one chunk of lookahead | `ParseHeader` |
| fmt chunk codec | `internal/riff/format.go` | none | `parseFmt`, `appendFmt` and the WAVEFORMATEXTENSIBLE rules |
| Decoder | `pcm/decoder.go` | source, stream info, bytes left, staged converted bytes, latched error | `Reset`, `Read`, `WriteTo`, `SeekToFrame`, metadata getters |
| One-shot encode | `pcm/encode_oneshot.go` | a `sync.Pool` of encoders | `EncodeInterleaved` |
| One-shot decode | `pcm/decode_oneshot.go` | a `sync.Pool` of decoders with their readers | `DecodeInterleaved`, `DecodeInterleavedLimit`, `DecodeInterleavedBytes` |
| bext codec | `pcm/bext.go` | none | parse and serialise a Broadcast Audio Extension |
| Sample conversion | `internal/sample/sample.go` | none | width and float conversion, block path and single-pass kernels |
| G.711 expansion | `internal/sample/companded.go` | tables | A-law and mu-law to linear |
| Package API | `wav.go`, `errors.go` | none | `Container`, `StreamInfo`, `Duration`, `Sniff`, sentinel errors |
| Lint rules, tooling | `rules/`, `tools/`, `Taskfile.yml` | none | not part of the library |

How they interact. `Encoder.Reset` asks the header writer whether a declared
length fits, builds the header and writes it to the sink; `Write` appends whole
frames and asks `FitsRIFF` before every append; `Close` pads, then rewrites the
whole header at offset 0 of a sink that can seek, in place or upgraded from RIFF
to RF64 over a reserved JUNK chunk. A decoder's `Reset` runs `ParseHeader`, which
resolves data size and frame count from whatever size fields the header has, and
then reads the data chunk, converting through the sample kernels. The one-shot
functions take an encoder or a decoder from a pool, drive it once over memory and
put it back.

What is hard, and what makes each part correct:

- **Encoder and header writer.** A frame may be split over any number of
  `Write`s; any sink call may fail after taking a prefix; the sizes stamped up
  front may turn out wrong; a stream may outgrow 32-bit sizes at any byte, the
  pad byte included; an encoder is reset from any state, over sinks of both kinds.
  Correct means: the audio on a sink is what was offered, in order; a header never
  claims a length that is not there; a clean `Close` leaves a file that reads back;
  a plain RIFF file never outgrows its fields; nothing happens to a file after a
  failure or a close.
- **Header reader.** Missing pads, truncated chunks, repeated chunks, `ds64`
  before or after `data`, three sources for a frame count. Correct means it agrees
  with what the writer wrote and never believes a number the file cannot back.
- **Decoder.** Short, failing and growing sources; staged output against seeks;
  the trailing partial sample. Correct means every frame once, in order, and an
  index that agrees with the bytes served.
- **One-shot functions.** Pooled objects must not leak one caller's source, sink
  or error to another; a read with a limit must reach and never pass it.
- **Pure codecs.** Narrowing, rounding, saturation, field widths.

## The modules

| Module | What it is |
|---|---|
| `RiffLayout` | pure operators: header lengths, fit tests, the header as a record of size fields, stamping, patching, upgrading, a rewrite torn at any byte, and the reader's verdict on a header |
| `Encoder` | the state machine of `pcm.Encoder` over `RiffLayout`, with its properties |
| `Recorder` | abstract specification: what an encoder promises, as tapes with audio, label and seal |
| `EncoderRecorder` | the refinement mapping from `Encoder` to `Recorder` |
| `FmtChunk` | pure operators: the fmt chunk as it is written and as it is read |
| `Bext` | pure operators: the check, the serialised form and the parse of a bext description |
| `StreamInfo` | pure operators: `Duration` and `SniffContainer` |
| `HeaderReader` | the state machine of `ParseHeader`, over the four modules of pure operators |
| `Decoder` | the state machine of `pcm.Decoder`, `SeekToFrame` and `WriteTo` included, and of the one-shot decode with a ceiling |
| `OneShot` | concurrent one-shot calls over the two pools |
| `Samples` | `sample.Convert`: its plan, the kernels, the blocked loops, G.711 and floats |
| `MCEncoder`, `MCReader`, `MCDecoder`, `MCOneShot`, `MCSamples` | the instances of the runs: Configs, files, streams, jobs |
| `EncoderClaims` | a statement of the repository's comments about the encoder that the code does not keep |
| `RiffLayoutProofs` | lemmas about `RiffLayout` |
| `EncoderProofs` | the inductive invariant of `Encoder`, three safety theorems and the two action properties; what is on each sink and what is on its way, in order |
| `EncoderHeaders` | what the header of each sink says, torn rewrites included: five theorems |
| `EncoderRefinement` | `Encoder` implements `Recorder`, step by step |
| `DecoderProofs` | the inductive invariant of `Decoder` and nine of its ten properties as theorems |
| `OneShotProofs` | the inductive invariant of `OneShot` and its four properties as theorems |
| `ReaderProofs` | the inductive invariant of `HeaderReader` and its six properties as theorems, the writer's headers and descriptions read back among them |
| `SamplesProofs` | what a conversion does to the worth of a sample, byte by byte and code by code; its inductive invariant and its three properties as theorems |

How they meet. `HeaderReader` reads the headers `RiffLayout!BuildHeader` lays out
with the fmt chunks of `FmtChunk` and the descriptions of `Bext`: the files of
`MCReader!BuiltFiles` are built by the writer's own operators (`headerChunks`, and
`Written` is what a file of this library is), so that `WrittenHeadersReadBack` and
`BextRoundTrips` compose both halves of the codec.
`Encoder` judges its files by the size resolution of the same `RiffLayout`.
`Decoder` starts where `HeaderReader` stops: a stream is what an accepted header
says, and its bytes are addresses, so what a converted byte is worth is left to
`Samples`. `OneShot` abstracts an encoder and a decoder to the fields that could
outlive a call.

Operators whose name ends in `_something` and whose comment begins with "Slip"
are mistaken variants of the definition that follows them. No specification uses
them; each shows, put in the place of that definition, that a property of a run
would notice the mistake.

## The model against the code

### The encoder

**State.** `w`, `cfg`, `cont`, `lay`, `written`, `carry`, `closed` and `err` are
the fields of `pcm.Encoder`; the Go field `ws` is `w \in SeekableSinks`. A method
that touches its sink more than once is split at each touch: `pc` says where the
call is, `pend` holds the caller's bytes it has yet to place, `done` the count it
would report so far. `ret` is what the last call returned. `disk` is what each sink
holds: nothing, part of a header (`stub`), or a header, audio and a pad. `ledger`
is an observer: the Config a sink was opened with, how many bytes were offered to
it, whether `Close` returned nil.

**Actions.** `ResetRejected` and `ResetBinds` are `Reset`; `WriteRefused`,
`WriteBegin`, `EmitCarry` and `EmitAligned` are `Write`; `CloseAgain`,
`CloseBegin`, `WritePad`, `Verify`, `SeekHead`, `RewriteHead` and `SeekEnd` are
`Close`. Between two steps of a call the medium is what a crash would leave, so
invariants over `disk` are statements about crashes as much as about returns.
`NewEncoder` is `Reset` on a fresh struct, which is `Init`. A call of one method
while another runs is not modelled: the type documents that it is not safe for
concurrent use.

**Failures.** Every sink call may fail. A failing write has taken any prefix:
any number of audio bytes, none or part of the header, the header rewrite up to any
byte. Once a write has failed the encoder latches the error.

A rewrite that takes a prefix leaves the fields before it new, the ones after it old,
and the one it ends in a mixture: numbers are stored low byte first, so that with a
byte of weight `m` the first to be missing, the number left is
`(old \div m) * m + new % m` (`tornNumber`). Of a magic that changes nothing readable
is left (`"torn"`). `tornHeader` says this of all fields, for any number of whole ones
and any `m`; the weights are the constant `Places`, 256 and its powers in the code.

**Data.** Audio bytes are the numbers 1, 2, 3, ... in the order the caller offers
them; so "in order, no gap, no repeat" can be said of a sequence. A header is the
record of its size fields, container magic, `ds64`/`JUNK` identifier and block
align. Every structural length (12, 8, 28, 4, 16, 18, 40) is the real one; only the
limits are parameters: `MaxUint32` (2^32-1), `MaxDataSize` (2^62) and `MaxInt64`
(2^63-1).

**Assumptions of the model.**

- The caller hands each `Reset` that succeeds a sink that was not written to and
  is positioned at its start. The header rewrite seeks to offset 0, as documented.
- Sinks keep the `io.Writer` contract: a short write returns an error.
- An identifier of the header (`JUNK`, `ds64`) overwritten in part is as good as not
  overwritten: no reader takes either for a `ds64`.
- `validate` is one Boolean of a Config (`valid`), and so is whether the derived
  fmt fields fit their widths (`expressible`).
- The length is declared exactly by `TotalFrames > 0`. The internal switch that
  declares a length of zero belongs to the one-shot functions.
- The reader that judges a file is the one of `internal/riff/reader.go` on a
  complete header, then a pass-through read to the declared end.

### The header reader

A file is a sequence of chunks with real lengths and the offsets `at` they start at;
the reader knows only `pos`. Which chunk it meets follows from the offsets, so a pad byte taken
or left wrongly puts the walk off the chunk starts. From there it reads an
identifier no chunk has and some size: `HeadersAt` lets such steps, taken as one,
lead back to any later chunk or to the end. `plausibleFourCC` is decided by what
is there: the four bytes of a chunk identifier are plausible, a pad byte in front
of one is not, and elsewhere they may be.

`source` says where the input stops and how: it ends, it fails for good, or it
fails once and answers again. Every helper asks it for its bytes: `readFileHeader`,
`readChunkHeader`, `readPayload` and `discardN` (`Consume`, `BodyFails`) and the
`Peek` of `skipPad`. `seen` is the locals of `ParseHeader`, one action per case of
its switch. `swallowed` is an observer of `skipPad` dropping an I/O error; the
properties about correct results exclude it, `claim_peek` is about it.

The accessors `Bext` and `IXML` return what `seen` holds. `Said` and `Damaged`
read the same facts off the chunk list without a position; they are the reference
the walk is held against.

A text of a bext is a sequence of characters of which only the kind matters. A date is
one character for its ten. A time is `clock` (`H:MM:SS`) with a `digit` before it or
not, and after it perhaps a `point` and any number of `digit`s: that is what
`time.Parse` accepts for the layout `15:04:05`, and `checkDateTime` checks nothing
else. The field of a time has room for two of these characters, `HH:MM:SS`, and
`appendPadded` cuts what is longer without a word.

### The decoder

`remaining`, `staged` (`outBuf` from `outOff` on) and `err` are fields of
`pcm.Decoder`; `st` is the bound source with its options and header. `br` and the
wide `stream` over it are one window of `buffered` bytes from `next` on: `stream`
empties `br` before it reads the source directly, so at most one of them holds
bytes, and they are reset together. `pend` is the error such a window still has to
report (`bufio.Reader.err`). A byte handed to the caller is the address of the
stored sample it comes from and its place in the result, so order, gaps,
repetition and misalignment are all visible.

`Read` is one action; the source may answer each of its reads with any number of
bytes, and with the end or an error beside them or after them. `WriteTo` and
`readAllLimit` are loops over it, one action per turn, with the sink's `Write` an
action of its own. `Reset` binds a stream whose header parses or drops everything;
what the header read left in the buffer is any prefix. `Grow` is another program
appending to the file. `DecodeInterleavedLimit` uses a decoder of its own, here the
one that was never bound. A decoder begins, like one whose `Reset` failed, with its
error latched; the zero value of the Go type, which no constructor returns, reports the
end of the stream instead. Neither serves a byte before a `Reset` binds a stream.

### The one-shot calls

Each call is an identity that stands for its sink or input, its Config or options
and its samples. A field of a pooled object holds the identity its value comes
from, so that what outlives a call shows. The steps of a call are the ones at which
it touches what others may see or what may fail: the pool, the pooled object, the
sink. `sync.Pool` is external: it hands out something that was put there, or a new
object although it has others, and never the same one twice. A sink's `Write`
may fail, or panic, after which only the deferred function runs.

### Samples

A stored integer sample is the tuple of its bytes. The kernels are moves of bytes,
the blocked path is decode, shift, encode through blocks of `blockSamples`; both are
compared with `worth`, the two's complement value, or that of a byte which is stored
offset by 128. The code reads and writes an 8-bit sample so on both sides of a
conversion, and its tests expect it; that the comments promise a signed byte is
`claim_signed`. The G.711 laws are compared with
a tiling: each code stands for the middle of an interval, and the intervals of
neighbouring codes meet. A float is a number of units with at most `FloatPrecision`
significant bits; scaling by a power of two is exact and the addition in `quantize`
rounds to nearest-even, as IEEE 754 does.

## What the runs check

| Run | Distinct states | What it shows |
|---|---|---|
| `enc_auto` | 498,361 | default policy, undeclared lengths, a seekable and a plain sink, five Configs, frames of 1 to 4 bytes, every failure: all safety and action properties |
| `enc_modes` | 225,599 | the `Never` and `Always` policies and declared lengths, kept, missed, exceeded, over the limit or not representable; rejected Configs; a byte count that a Write can pass; `Encoder` implements `Recorder`, and every call returns |
| `reader` | 878,857 | `ParseHeader` over files of this library and of others, whole and cut at every byte |
| `decoder` | 175,977 | any sequence of `Reset`, `Read`, `SeekToFrame`, `WriteTo` and a one-shot decode, over sources of every kind |
| `oneshot` | 1,454,992 | two goroutines, two calls each, every kind of call, every interleaving |
| `samples` | 60,884 | every pair of widths, every companded code, every float of nine bits |
| `claim_*` | | six statements of comments and tests, each violated (see below) |

The properties of `Encoder`:

- `AudioInOrder`: whatever slices the audio was cut into, each sink holds a prefix
  of what was offered; until a failure nothing is missing between sink, carry and
  the bytes of the call in progress.
- `SealedReadsBack`: after a clean `Close`, a file whose sink could seek or whose
  length was declared reads back as exactly the bytes offered and their frame count.
- `OnlyATornRewriteUnderstates`: at every instant, a stream of undeclared length that
  can be read never claims audio that is not there, and states its length as unknown
  or exactly, unless its sink failed inside the header rewrite of `Close`. Then the
  length may be half written: 0x000186A0 cut after its first byte reads as 0xA0, a
  readable header that leaves most of the audio out. That window is the code's own
  (one `w.Write` over a header that was valid), and the property states that it is the
  only one, that only `Close` opens it, and that `Close` then reports an error.
- `OnlyATornUpgradeIsUnreadable`: the only recording that becomes unreadable is one
  that outgrew plain RIFF and whose sink failed inside the header rewrite: in the
  magic, or behind it while the chunk still says JUNK.
- `ContainerMatchesLength`: RF64 is written exactly when the policy says so or the
  padded length behind its header does not fit.
- `PlainRIFFNeverOutgrown`, `LengthIsRepresentable`, `CloseCanStamp`: no size field
  and no byte count wraps, and `Close` never picks a rewrite that refuses.
- `FailureIsFinal`, `CloseIsFinal`: no step touches a sink after the first failure
  or after a clean `Close`, until `Reset` binds another.
- `CallReturns`: every call that begins ends.

`Recorder` says the same without header, container, carry or calls: audio grows
only at the end of the running tape, a label is unknown, promised or true, a tape that
fails while an unknown label is replaced stops with one that is illegible or too short
(`Mislabel`), and a tape that stopped never changes. `ImplementsRecorder` is its specification under
the mapping of `EncoderRecorder`.

The properties of `HeaderReader`:

- `AcceptedMeansWholeHeader`: an accepted header is the one the whole file has, in
  format, data size and frame count, and the source is left at the first byte of
  audio; a file cut short never yields other values than the file it was cut from.
- `MetadataIsTheFirst`: the first bext and the first iXML win, also when they were
  too large to be held.
- `BextRoundTrips`: a description that was written reads back as it was, but for a
  time longer than its field, of which what fits reads back; one of another program,
  if its texts and its coding history are texts, its date a date and its time a time,
  can be written again.
- `WrittenHeadersReadBack`: every header `BuildHeader` lays out is accepted, with
  the format that was asked for and the length that was stamped.
- `ErrorsAreNotDamage`: a sound file is called corrupt only when its source ended
  early, and `Sniff` agrees with `ParseHeader` on what is a WAVE file.
- `DurationIsExact`: frames over rate to the nanosecond below, and 0 exactly when
  that cannot be stated.

The properties of `Decoder`:

- `DeliveredInOrder`: since the last `Reset` or seek, what was handed over is the
  audio from that position on. No byte is skipped, repeated or stale.
- `NeverPastDeclared`: no pad byte and no later chunk is served as audio.
- `EndMeansEverything`: the end is reported only after everything, and streaming in
  any block sizes gives what `DecodeInterleavedBytes` gives.
- `EndIsFinal`: after the end nothing comes until the next `Reset` or seek, even if
  the file grows.
- `WriteToLosesNothing`: the sink gets exactly what was read, before any error of
  the source is reported; only a failing sink may have received less.
- `SeekLandsWhereItSays`, `RefusedServesNothing`: seeks and failed Resets.
- `LimitIsExact`, `WithinCeiling`: a decode with a ceiling returns everything or
  refuses because there is more, and its buffer never passes the ceiling, whatever
  frame count the header claims.
- `CallsReturn`: `WriteTo` and a one-shot decode come to an end.

Of `OneShot`: `EachSinkItsOwnStream`, `FailuresStayWithTheirCall`,
`EachResultItsOwn` and `PooledObjectsPinNothing`. Of `Samples`:
`IntegersAreShifted`, `OthersAreNearest` and `RefusedExactlyWhenTooLong`.

## Bounds

- `MaxUint32 = 109`. Headers of the Configs are between 44 and 112 bytes, so each
  Config crosses the 32-bit limit within the few bytes a run offers. With a header
  of 112 bytes, 4 bytes of audio fit (104 + 4 <= 109), and 5 would but for their
  pad. A Config with a 60-byte bext fits a plain sink and leaves a seekable one no
  room for its JUNK, so that `Reset` refuses.
- `MaxSent` bounds the bytes offered to a sink: 6 (enough to cross the limit with each
  Config that can). Slices have 0 to 3 bytes in `enc_auto`, so a frame of 3 or 4 bytes
  is split over up to four Writes and a slice can finish a frame and start another;
  `enc_modes` takes one short and one long slice.
- `MaxInt64 = 5` in `enc_modes` bounds bytes of audio, as `MaxUint32` bounds those of a
  whole file: 4 bytes of audio are the most plain RIFF holds behind the longest
  headers of the run, so the 32-bit limit is met first, as in the code, and the 64-bit
  one next, by the Write after it. In `enc_auto` no Write comes near it. The wrap of a
  signed count is its comparison with `MaxInt64`: the code tests the sum for a negative
  value, which is the same for one addition of two non-negative counts.
- `Places = {4}`: a torn number keeps its two low bits of the new value and the rest of
  the old one. Every length a run can stamp (up to 6 bytes of audio) falls on both
  sides of such a cut, so a tear inside a length leaves too short a one; the numbers a
  reader compares it with are beyond both.
- Two sinks, one that seeks and one that does not, so that an encoder is reset from
  either to the other, and a closed file can be watched while another is written.
  A third sink would repeat one of the two kinds.
- No symmetry is used: the sinks differ in kind.
- `reader`: `MaxChunkPayload = 40`, the length of the longest fmt payload, so that a
  larger bext or iXML is past it; `MaxUint32 = 200` is the sentinel of a data size.
  `MaxInt64 = 400` and 30 "nanoseconds" a second make a duration of some of the
  declared frame counts unrepresentable. Wild files have two chunks of any of
  twenty-three kinds around a format, three of them too large to be held; files cut at
  every byte have them from the short ones. The text widths and the fixed length of a bext are smaller than in the code,
  which only shortens the files. Times are written in every form `time.Parse` takes: one
  or two digits of hours, without a fraction and with one.
- `decoder`: windows of 4 bytes, a staging buffer of 3, streams of at most 12 bytes
  and buffers of 0, 1, 2, 3 and 6 bytes, so that a buffer is shorter than a sample,
  shorter than the window, longer than it and longer than what remains.
  `MaxInt64 = 31` and a header of 2 bytes let a frame index overflow. Two source
  errors, two Resets or one-shot decodes, growth up to 6 bytes.
- `oneshot`: two callers suffice for one to draw what the other put back, or to run
  while the other holds its object; two calls each, so that an object is used, put
  back and used again. Two encoders and two decoders, since no more can be held.
  Callers, encoders and decoders are interchangeable, and symmetry is used: all
  properties quantify over them.
- `samples`: blocks of two samples and sources of three, so that a block is full and
  another begins; integer samples from the bytes 0, 1, 127, 128 and 255, all bytes at
  8 bits. Floats are converted to 8 bits, since a significand of nine bits, against 53
  in the code, holds no wider sample exactly: what can go wrong is the rounding of the
  sum, and it does so at any precision. The theorem is about every precision and width.
- Deadlock is checked in the encoder runs, where a call can always be made. In the
  others it is off: a walk, a conversion and a bounded number of calls end.

## Fairness

**Encoder.** `FairSpec` adds `WF_vars(Running)`: a call that has begun goes on. The methods are
straight-line code without locks or waits, so this says only that the sink's own
calls return. Nothing makes the caller call again: `Reset`, `Write` and `Close`
have no fairness. Only `CallReturns` needs it; `ImplementsRecorder` is a safety
property.

**Decoder.** `WF_vars(CallStep)`: a `WriteTo` or a one-shot decode that has begun
takes its next turn. The loops have no waits, and each turn is one `Read` or one
`Write` of a sink; that the source and the sink answer is the contract of `io.Reader`
and `io.Writer`. That a source does not answer with no bytes and no error for ever is
what that contract asks of it ("implementations of Read are discouraged from returning
a zero byte count with a nil error"); over one that does, a loop would not end. `Grow` is not
fair and is bounded: a file that grows for ever is read for ever.

The other specifications state no fairness: their properties are safety.

## What is proved

The theorems about the encoder hold for every set of sinks and Configs, every limit
and every way of cutting audio into Writes; those about the decoder for every set of
streams, size of window and staging buffer, set of buffer lengths, frame indexes and
ceilings; those about the one-shot calls for every number of callers, calls, pooled
objects and kinds of call; those about the header reader for every set of files, with
any chunks of any sizes, with and without their pads, and every way a source may stop
at any byte; those about `Convert` for every set of calls, size of a block, largest
length, precision and exponent range of a float. They rest on nine assumptions on
constants, which TLC
evaluates in every run of their module:

- `SizeAssumption`: `MaxUint32` is positive and at most `MaxDataSize`;
- `EncoderAssumption`: Configs have their types, a valid one a positive frame width,
  and the weights of the bytes of a number are positive;
- `DecoderAssumption`: streams have their types (the widths are positive, a frame is
  whole samples), buffers and windows have lengths, the bounds are naturals;
- `ReaderAssumption`: the chunks of a file follow each other from the file header on,
  what a payload says are naturals, a data size fits its field, a bext is a body of
  its length, any fmt payload can be held (`MaxChunkPayload >= 40`), and `MaxDataSize
  <= MaxInt64`; a file that has a layout is what `BuildHeader` makes of a Config the
  encoder accepts, with at most `MaxDataSize` bytes of audio (`Written`);
- `FmtAssumption`: the bounds of a 16-bit field and of a rate are naturals;
- `BextAssumption`: the fixed part, the fields and a word of the time reference have
  positive sizes; the field of a date has room for a date and that of a time for `HH:MM:SS`;
- `DurationAssumption`: there are between one and `MaxInt64` nanoseconds in a second;
- `OneShotAssumption`: jobs have their types, an audio of no samples has no odd
  length, the names of callers' calls, encoders and decoders do not collide;
- `SamplesAssumption`: calls have their types (samples of the source's format, fewer
  bytes after them than one more would have, lengths a slice can have), a block holds a
  sample, and a significand holds every integer of a width floats are converted to, as
  53 bits hold 32.

`SealedFilesReadBack` and `EncoderRecords` have one hypothesis more, `MaxSent <=
MaxDataSize`: no sink is offered more than 2^62 bytes. Past it `Close` has no size
to stamp, and the code says so. Every run has it.

| Theorem | Statement |
|---|---|
| `EncoderProofs!TypeCorrect` | `Spec => []TypeOK` |
| `EncoderProofs!PlainRIFFSafe` | `Spec => []PlainRIFFNeverOutgrown` |
| `EncoderProofs!CloseStamps` | `Spec => []CloseCanStamp` |
| `EncoderProofs!FailureStaysFinal` | `Spec => FailureIsFinal` |
| `EncoderProofs!CloseStaysFinal` | `Spec => CloseIsFinal` |
| `EncoderProofs!AudioArrivesInOrder` | `Spec => []AudioInOrder` |
| `EncoderHeaders!LengthsAreRepresentable` | `Spec => []LengthIsRepresentable` |
| `EncoderHeaders!UnderstatedOnlyIfTorn` | `Spec => []OnlyATornRewriteUnderstates` |
| `EncoderHeaders!UnreadableOnlyIfTorn` | `Spec => []OnlyATornUpgradeIsUnreadable` |
| `EncoderHeaders!ContainerAlwaysMatches` | `Spec => []ContainerMatchesLength` |
| `EncoderHeaders!SealedFilesReadBack` | `Spec => []SealedReadsBack` |
| `EncoderRefinement!EncoderRecords` | `Spec => ImplementsRecorder` |
| `DecoderProofs!AudioIsDeliveredInOrder` | `Spec => []DeliveredInOrder` |
| `DecoderProofs!NothingPastDeclared` | `Spec => []NeverPastDeclared` |
| `DecoderProofs!EndIsEverything` | `Spec => []EndMeansEverything` |
| `DecoderProofs!TheEndIsFinal` | `Spec => EndIsFinal` |
| `DecoderProofs!SeeksLandWhereTheySay` | `Spec => []SeekLandsWhereItSays` |
| `DecoderProofs!NothingServedWhenRefused` | `Spec => []RefusedServesNothing` |
| `DecoderProofs!WriteToIsLossless` | `Spec => []WriteToLosesNothing` |
| `DecoderProofs!OneShotWithinCeiling` | `Spec => []WithinCeiling` |
| `DecoderProofs!CeilingIsExact` | `Spec => []LimitIsExact` |
| `OneShotProofs!SinksAreOwn` | `Spec => []EachSinkItsOwnStream` |
| `OneShotProofs!PoolsPinNothing` | `Spec => []PooledObjectsPinNothing` |
| `OneShotProofs!ResultsAreOwn` | `Spec => []EachResultItsOwn` |
| `OneShotProofs!FailuresAreOwn` | `Spec => []FailuresStayWithTheirCall` |
| `ReaderProofs!AcceptedIsWhole` | `Spec => []AcceptedMeansWholeHeader` |
| `ReaderProofs!FirstMetadataWins` | `Spec => []MetadataIsTheFirst` |
| `ReaderProofs!RefusalsAreJust` | `Spec => []ErrorsAreNotDamage` |
| `ReaderProofs!DurationStated` | `Spec => []DurationIsExact` |
| `ReaderProofs!HeadersReadBack` | `Spec => []WrittenHeadersReadBack` |
| `ReaderProofs!DescriptionsReadBack` | `Spec => []BextRoundTrips` |
| `SamplesProofs!EveryIntegerIsShifted` | `Spec => []IntegersAreShifted` |
| `SamplesProofs!EveryOtherIsNearest` | `Spec => []OthersAreNearest` |
| `SamplesProofs!WhatFitsIsConverted` | `Spec => []RefusedExactlyWhenTooLong` |

**The encoder: `EncoderProofs!IInv`.** None of the invariants is inductive alone.

- `CallInv` ties `pc` to the rest: a call runs only on a bound, unfailed stream;
  the steps of `Close` run with the closed flag set; the carry is shorter than a
  frame except while a completed one is on its way out. `Remainder` and
  `SliceFacts` need this: what is left of a slice is shorter than a frame.
- `LayoutInv` says why the container in force can be described: as long as it is
  RIFF the written length fits; if it is RF64 there is a `ds64` chunk or room for
  one. `CloseCanStamp` is a consequence: the fit test of the last append was
  about the length `Close` stamps, since only appends change it.
- `MediumInv` says the bound sink holds as many bytes as the encoder counted, no pad
  before `Close`, and a pad only behind an odd length. With `LayoutInv` and the
  lemma `PadFits` (if a length fits, so does its padded form) this gives
  `PlainRIFFNeverOutgrown` for the bound sink; the others do not change.
- `BlankInv` says a sink no header was written to is empty, so that the next header
  starts a file of known length.

`NextKeepsIInv` has one lemma per action under it. The header arithmetic is in
`RiffLayoutProofs`: header lengths are bounded, fitting is closed downwards, stamping
and tearing keep a header's type.

**Finality.** The two action properties need `FinalInv` beside `IInv`: a rejected
`Reset` left its own error latched, and a sealed sink has its header and, if it is
the bound one, no call is running on it. So a running call never works on a sealed
sink, and a `Reset` binds only a blank one.

**The audio: `EncoderProofs!AudioInv`.** `AudioInOrder` says nothing of the bytes on
their way, on which the next write depends. `TapeInv` says that each sink holds the
bytes 1, 2, 3, ... up to some number; `HeldInv` that on the bound one the carry, and
after it what the call still holds, continue that count up to the last byte offered,
and that whole frames are written; `PendInv` that only `Write` holds bytes of the
caller. `LengthInv` says that what each sink holds is a signed 64-bit count.

**The headers: `EncoderHeaders!HeaderInv`.** `BuiltInv`: the layout of the bound
encoder is the one `BuildHeader` makes of its Config for the container then planned,
and a change of container happened only to a reserved header whose length no longer
fits. `HeadInv`: the header on the bound sink is that layout, or the final header once
the rewrite is done, or a mixture of the two, torn at any byte, after the rewrite
failed. `TornNumber` is the arithmetic of a tear: between nothing and a number lies
what is half written of it, and a number written over itself stays what it was. So
`TornFacts` can say what a reader makes of any torn header: none, or a length up to the
audio, or the one that was there. `KeptPromise` says that `Close` reaches a rewrite
only when a declared length was kept: the lengths on a header that declared one are
the same before and after, and no tear shows. The five properties then hold of the
bound sink; the file of any other sink does not change,
so that they hold of it because they did when it was let go.

**The refinement: `EncoderRefinement`.** The invariants above say what each sink
is as a tape: its label is the one `LabelOfSays` reads off the header. Initial states
map to initial states, and each action maps to an action of `Recorder` or to a stutter
(`StepsAreRecorded`, one lemma per action under it): a `Reset` loads a tape or spoils
it, an append is `Record`, a rewrite of the header `Relabel`, one that is torn `Mislabel`
or a stop, and a `Close` that returns nil `SealTape`.

**The decoder: `DecoderProofs!DInv`.** What the caller has says nothing of what the
next `Read` gives, which comes out of the window, the staging buffer or the source.

- `PlaceInv`: where the next byte comes from, how far the window reaches, and what
  remains of a declared length; a pending end of the window is the end of the source.
- `OrderInv`: what was handed over and what is staged, one after the other, are
  exactly the whole units between the last seek and that place.
- `CountInv`: the same as a bound, which holds also when an error of the source has
  dropped the part of a sample (`torn`).
- `EndInv`: the stream is over only when every unit of it has been passed.
- `CallInv`: a `WriteTo` has handed its sink all it has read but what it still holds;
  the buffer of a one-shot decode is what was read, within its ceiling.

Every case of `Read` is shown to be a `Passage(len, n, m)`: n stored bytes were passed,
m of them, in whole units, became audio that was staged or handed over. From this
alone follow the four parts of the invariant (`ReadKeeps`), so that a direct read, a
read through the window and a converting read need no proof each of their own about
order. Below it are lemmas on what a source may answer (`ReadAnswers`,
`ReadFullAnswers`) and on audio as a concatenation of units (`AudioConcat`,
`AudioPrefix`).

**The one-shot calls: `OneShotProofs!IInv`.** That a sink gets only its own stream
depends on what the encoder holds, which depends on who else may touch it.

- `Ownership` and `Exclusive`: an object is in a pool or in the hands of at most one
  call. A pool hands out what no active call has, by the definition of `Held`.
- `EncoderInv` and `DecoderInv`: from the reset on, every field of the object in a
  call's hands that the call will read is the call's own. This is where the reset
  has to replace the whole struct: the pad byte `Close` writes follows the encoder's
  `odd`, the error it returns the encoder's `err`.
- `SinkInv`: a running call's sink holds exactly the pieces its program counter says,
  a finished one's all of them, none, or those up to the piece that was cut.
- `PoolsClean` is `PooledObjectsPinNothing` less what ownership says.

A step of one call leaves the record, the object and the sinks of the others alone
(`OthersStay`), so that each action has only its own caller's part to show
(`EncoderStep`, `DecoderStep`). `HandsNext` is the step all four sink calls share:
the next piece of the stream extends what the sink has, or cuts it.

**The header reader: `ReaderProofs!RInv`.** The properties speak of the verdict; the
invariant has to say what the walk knows before it has one.

- `WalkInv`: until `skipPad` drops an error, the position is the start of a chunk `k`,
  the start of its payload or the end of it, and the locals are what the chunks in
  front of `k` say (`SeenTo(seen, k)`): the last ds64, the last fmt, the last fact that
  holds a count, the first bext and iXML. Or the walk is `Lost`: the source has ended in
  front of any data chunk, which is the only way to be anywhere else.
- `VerdictInv`: an accepted header has its fmt, and its ds64 if the container needs
  one; what is refused as no WAVE file has not the first twelve bytes of one.

Each case of the switch extends `SeenTo` by one chunk; `Takes` says what is read of
a payload when the source may stop in it. The step that is not obvious is the end of
a walk: `Said` and `Damaged` speak of the chunks before the first data chunk, and the
walk has passed exactly those, so that the last or first chunk of a kind it saw is the
`Max` or `Min` the properties name (`ToldIsSaid`, `MaxIs`, `MinIs`). `FirstData` is a
minimum, which exists because the order of the naturals is well-founded. Where a chunk
starts is a sum over the chunks before it, an induction over data; therefore the
offsets are part of a file, and the assumption ties each to the one before.

`DurationExact` is arithmetic over all frame counts and rates: whole seconds first and
then the rest make the same as one division of the product (`TwoTerms`), and the sum is
refused exactly when it would not fit. `FramesBounded` supplies its hypothesis: no
header states more frames than a signed 64-bit number holds.

The two read-back theorems need no further invariant. `AcceptedIsWhole` and
`RefusalsAreJust` reduce a run of the reader to what its file says; what remains is
about operators only: that a `Written` file says what was put into it. `HeaderChunks`
gives the index of each optional chunk among the six, `WrittenOffsets` shows that they
end where the layout says the audio begins (the lengths `HeaderLen` adds up are the
extents of the chunks), and `WrittenSays` that nothing in them is `Damaged`, that the
last fmt and the only bext are the written ones, and that the size fields resolve to
the stamped length in every container. `FormatReadsBack` composes `appendFmt` and
`parseFmt`; `BextReadsBack` does the same for a description field by field: what is
written of a text is what fits, and padding is cut off again and nothing else
(`CutPadded`); whatever is accepted fits and holds no NUL, but a time, which need not
fit (`AcceptedTexts`); the two words make the time reference
again (`TwoWords`), a level keeps its sign (`SignKept`), and a field that its version
does not admit was 0, since `validate` refuses it otherwise. `ForeignBext` goes the
other way: what is cut at a NUL fits its field, so `validate` accepts it. Proving it
showed that `BextRoundTrips` has to speak of the coding history too: one with a
character that is no text is read and cannot be written again, although every other
field can. The runs now have such a body.

**The conversion: `SamplesProofs!SInv`.** The properties speak of a call that has
returned; `SInv` adds what holds on the way: the samples written so far are right, the
plan that was made stays the one to fulfil (`convertPlan` is of the call, which does
not change), a kernel runs only for a pair of widths that has one, and the blocked
loop is entered, and gone round again, only with samples left, so that its last block
ends where the source does. `PlanSays` is the arithmetic of lengths: division of the
limit says of a product what forming it would, and the bytes of a partial sample do
not count. The rest is one lemma for each way of a sample, and none computes with
bits:

- *Integers.* `worth` is taken apart by width. `StoredIsWorth` says that encoding keeps
  a value that fits, `ReadIsWorth` that decoding finds it, `ShiftedFits` that a shift
  of what fits one width fits the other; `KernelShifts` says of each kernel that its
  moves of bytes are that shift, the offset of 8 bits turned over by its top bit.
- *Companding laws.* A code is sign, segment and mantissa, and the edges of the tiling
  have a closed form in the last two: `ALawTiles` and `MuLawTiles` show it by
  induction over the codes, with `SegmentsMeet` where one segment ends. Then the
  middle of a code's interval is what the code's arithmetic says
  (`ALawIsLawful`, `MuLawIsLawful`), the inversion of the even bits included.
- *Floats.* `SumKeepsFloor` says that rounding the sum of a half and a float that is
  not below it leaves the integer below the sum alone. Down it cannot pass one, since
  integers are floats; up it could only reach the next. Either the float is already in
  the binade of the sum: then it is a whole number of last places (`Granular`), as the
  half is, and the sum is exact. Or the sum has just entered a binade, which begins at
  an integer: then it is less than a half past that integer, and too far from the next
  to be rounded to it. Below a half neither holds, which is why `quantize` has a case
  for those. `QuantizeIsNearest` puts its cases together.

Powers of two are the recursive function `pow2` where their exponent is a parameter;
that it doubles is shown from its definition (`Pow2Doubles`), as is that of the edges,
and inductions over the naturals are made from the well-foundedness of their order,
since an induction theorem that takes an operator cannot be cited.

**Model-checked only.** `CallReturns` and `CallsReturn` are liveness, which the provers
do not reach.

## Where the code and its comments differ

Each of these is found by a run of its own.

1. `claim_readback`: `Close` pads an odd length also on a sink that cannot seek with
   an undeclared length. Such a header states no size, the reader reads to the end
   of the stream, and the pad byte comes back as audio. `Config.streamInfo`
   (`pcm/pcm.go:235`) says the boundary between audio and pad always exists.
2. `claim_align`: a source error inside a converting `Read` drops the bytes that came
   with it, which need not be whole samples. A caller that reads on gets samples put
   together from the halves of two; `Decoder.Read` (`pcm/decoder.go:428`) promises
   integers of the requested width.
3. `claim_bext`: the coding history of a bext is not bounded when it is written, and
   a body over 1 MiB is dropped when it is read. `MaxChunkPayload`
   (`internal/riff/reader.go:18`) says it is exported so that this cannot happen;
   the iXML is checked.
4. `claim_peek`: `skipPad` takes any error of its look-ahead for the end of the file.
   A source that fails there once and then answers is read on, without the error
   having been reported and without the pad byte having been taken;
   `internal/riff/reader.go:391` says no further chunk will be parsed.
5. `claim_time`: `checkDateTime` accepts a time that `time.Parse` accepts, and that
   takes a one-digit hour and a fraction of a second of any length. The field is eight
   bytes wide and `appendPadded` cuts to it: "12:34:56.789" is written without error
   and reads back as "12:34:56"; "9:15:30.5" reads back as "9:15:30.", which cannot be
   written again. `pcm/bext.go:14` says a value that does not fit is rejected rather
   than truncated, and `pcm/fuzz_test.go:317` that the reader is the exact inverse of
   the writer.
6. `claim_signed`: samples converted to 8 bits come out offset by 128
   (`encodeBlock`, `internal/sample/sample.go:434`), and an 8-bit source converted to
   8 bits comes out as it was stored. The test "s16 to u8" (`pcm/decoder_test.go:167`)
   expects that; `pcm/decoder.go:103` and `428`, `internal/sample/sample.go:119` and
   `internal/sample/doc.go:30` say that a conversion always yields signed integers.
   `IntegersAreShifted` and `OthersAreNearest` read 8-bit results as the code and the
   test do.

Met while modelling, and too plain for a run:

- After a failed `Reset`, `Write` and `Close` return the error of that `Reset`;
  `errors.go:35` promises `ErrEncoderClosed`.
- A header of undeclared length carries the header length in its RIFF size (or the
  sentinels, in RF64); `internal/riff/writer.go:74` says the size fields are zero.
- The comment in `quantize` that the addition cannot change the binade
  (`internal/sample/sample.go:546`) is not true of every 64-bit float: 1 - 2^-53 plus
  0.5 is rounded. The integer is the right one all the same, as `EveryOtherIsNearest`
  proves by another argument.
- The chunks of a file may come in any order, but for one: a data chunk in front of
  the fmt chunk is refused, since the walk stops at it.

## Not modelled

- **Lint rules** (`rules/`) are declarative patterns for an external linter, and the
  **tooling** has no behaviour of the library.
- Text of errors and messages, everywhere.
- What two calls of one encoder or decoder do at the same time: the types document
  that they are not safe for that.
- A header read while its file still grows: a source of `HeaderReader` has one end.
- The bits of an IEEE number, and floats with the full 53 bits of significand.
- That `Decoder.Bext` caches its result: the body it parses does not change between
  two Resets.

## Plan

Every component of the library is modelled, and every safety and action property that
a run checks is proved, for every value of the constants. What could follow:

1. The header rewrite seeks to offset 0 of its sink: a sink handed over at another
   position is outside the model, whose sinks begin with their file.
2. A source of `HeaderReader` that grows while its header is read.
