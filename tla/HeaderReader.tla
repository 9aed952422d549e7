---------------------------- MODULE HeaderReader ----------------------------
(***************************************************************************)
(* internal/riff/reader.go: ParseHeader walking the chunks of a file up to *)
(* its data chunk, over a source that may end or fail at any byte.         *)
(*                                                                         *)
(* A file is a sequence of chunks.  The reader only knows a byte position: *)
(* which chunk it meets there is computed from the real lengths, so a walk *)
(* that mistakes a pad byte is off the chunk starts from then on.          *)
(*                                                                         *)
(* A chunk is [id, size, pad, body]: the size field, whether the pad byte  *)
(* of an odd size is present, and what the payload says (the fields of     *)
(* fmt, ds64 and fact; a name for the content of bext and iXML, Stored     *)
(* giving what a bext of that name holds).  A file is [magic, chunks, at], *)
(* at[k] being the offset of chunk k and, one past the last, the length,   *)
(* with [cut, lay, format, frames, bext, name, ixml]: whether its source   *)
(* is stopped at every byte, the layout it was built from, NoLayout if     *)
(* another program wrote it, and the Config values that went into it (the  *)
(* description with the name of its body, "none" without one, and the      *)
(* length of the iXML).                                                    *)
(***************************************************************************)
EXTENDS FmtChunk, StreamInfo, Bext

CONSTANTS MaxChunkPayload,   \* largest payload held in memory, 2^20 in the code
          Files,             \* the files ParseHeader is given
          Stored             \* the bext bodies, by name

extent(c) == ChunkHeaderSize + c.size + IF c.size % 2 = 1 /\ c.pad THEN 1 ELSE 0

(* The values a payload may say.                                           *)
Wellformed(c) ==
    /\ c.size \in Nat /\ (c.id = "data" => c.size <= MaxUint32)
    /\ c.id = "fmt" => {c.body.rate, c.body.channels, c.body.bits} \subseteq Nat
    /\ c.id = "ds64" => {c.body.dataSize, c.body.sampleCount} \subseteq Nat
    /\ c.id = "fact" => c.body.frames \in Nat
    /\ c.id = "bext" => IsBody(Stored[c.body.text], c.size)

(* The chunks follow each other from the file header on, so that (the last *)
(* conjunct) each begins behind those before it.                           *)
Contiguous(f) ==
    LET n == Len(f.chunks)
    IN /\ n \in Nat
       /\ f.at \in [1 .. n + 1 -> Nat]
       /\ f.at[1] = FileHeaderSize
       /\ \A k \in 1 .. n : f.at[k + 1] = f.at[k] + extent(f.chunks[k])
       /\ \A j, k \in 1 .. n + 1 : j < k => f.at[j] < f.at[k]

-----------------------------------------------------------------------------
(* The files of this library.                                              *)

(* Config.validate of the metadata: only the iXML is bounded by what the   *)
(* reader will hold.                                                       *)
CanWriteMetadata(hasBext, bext, ixml) ==
    /\ hasBext => validate(bext)
    /\ ixml <= MaxChunkPayload

(* The chunks BuildHeader appends, in its order.                           *)
headerChunks(f) ==
    LET head == f.lay.bytes
        opt(here, id, size, body) ==
            IF here THEN <<[id |-> id, size |-> size, pad |-> TRUE, body |-> body]>> ELSE <<>>
    IN opt(head.ds64Id # "none", head.ds64Id, 28,
           [dataSize |-> head.ds64DataSize, sampleCount |-> head.ds64SampleCount])
       \o opt(TRUE, "fmt", appendFmt(f.format).len, appendFmt(f.format))
       \o opt(f.name # "none", "bext", serializedLen(f.bext), [text |-> f.name])
       \o opt(f.ixml > 0, "iXML", f.ixml, [text |-> "x"])
       \o opt(f.lay.hasFact, "fact", factPayloadSize, [frames |-> head.factFrames])
       \o opt(TRUE, "data", head.dataSize, [text |-> "audio"])

(* A layout the encoder can have built of a Config it accepted, and the    *)
(* file that begins with it.                                               *)
Written(f) ==
    LET config == headerConfig(f.format, IF f.name = "none" THEN 0 ELSE serializedLen(f.bext),
                               f.ixml)
        magic == f.lay.bytes.magic
        reserve == f.lay.bytes.ds64Id = "JUNK"
        size == f.frames * blockAlignOf(f.format)
    IN /\ {f.format.channels, f.format.rate, f.format.validBits, f.ixml, f.frames} \subseteq Nat
       /\ f.format.extensible \in BOOLEAN /\ CanWriteFmt(f.format)
       /\ CanWriteMetadata(f.name # "none", f.bext, f.ixml)
       /\ f.name # "none" => f.bext \in BextType /\ Stored[f.name] = serialize(f.bext)
       /\ magic \in Containers /\ size <= MaxDataSize
       /\ CanBuild(config, magic, reserve, size)
       /\ f.lay = BuildHeader(config, magic, reserve, size, f.frames)
       /\ f.magic = magic /\ f.chunks = headerChunks(f)

ASSUME ReaderAssumption ==
    /\ MaxChunkPayload \in Nat /\ MaxChunkPayload >= fmtSizeExtensible
    /\ MaxDataSize <= MaxInt64
    /\ \A f \in Files :
          /\ Contiguous(f) /\ \A k \in 1 .. Len(f.chunks) : Wellformed(f.chunks[k])
          /\ f.lay # NoLayout => Written(f)

-----------------------------------------------------------------------------

VARIABLES file,      \* the file and what a test knows of it; never changes
          source,    \* [at, why, once]: the bytes before at can be read, then why
          pos,       \* bytes consumed
          pc,        \* what ParseHeader does next
          cur,       \* the chunk whose header was read last
          seen,      \* the locals of ParseHeader
          verdict,   \* what it returned, "none" before
          swallowed  \* history: skipPad has dropped an error of the source

vars == <<file, source, pos, pc, cur, seen, verdict, swallowed>>

-----------------------------------------------------------------------------
(* The bytes.                                                              *)

NoBody == [text |-> "nil", len |-> 0]
NoFmt == [blockAlign |-> 0]
NoChunk == [id |-> "none", size |-> 0, pad |-> TRUE, body |-> NoBody]

length(f) == f.at[Len(f.chunks) + 1]

Whole(f) == [at |-> length(f), why |-> "eof", once |-> FALSE]

(* Where and how a source may stop: it ends, it fails for good, or it      *)
(* fails once and goes on when asked again; tried at every byte of f.cut.  *)
Sources(f) ==
    IF f.cut
    THEN {Whole(f)} \cup
         [at : 0 .. length(f) - 1, why : {"eof"}, once : {FALSE}] \cup
         [at : 0 .. length(f) - 1, why : {"error"}, once : BOOLEAN]
    ELSE {Whole(f)}

AtChunk(p) == \E k \in 1 .. Len(file.chunks) : file.at[k] = p

(* What the walk meets at its position.  Off the chunk starts it reads an  *)
(* identifier no chunk has and a size that takes it, in one or more such   *)
(* steps taken as one, back to some chunk or to the end.                   *)
HeadersAt(p) ==
    IF AtChunk(p)
    THEN {file.chunks[k] : k \in {j \in 1 .. Len(file.chunks) : file.at[j] = p}}
    ELSE {[NoChunk EXCEPT !.size = file.at[k] - p - ChunkHeaderSize] :
             k \in {j \in DOMAIN file.at : file.at[j] >= p + ChunkHeaderSize}}

(* Whether four bytes look like an identifier.  Those of a chunk do, a pad *)
(* byte in front of them, being 0, does not; elsewhere they may.           *)
plausibleFourCC(p) ==
    IF AtChunk(p) THEN {TRUE} ELSE IF AtChunk(p + 1) THEN {FALSE} ELSE BOOLEAN

Short(n) == pos + n > source.at
Got(n) == IF Short(n) THEN source.at - pos ELSE n

(* A source that fails once is whole after the error was handed over.      *)
AfterStop == IF source.once THEN Whole(file) ELSE source

-----------------------------------------------------------------------------
NothingSeen ==
    [fmt |-> NoFmt, haveFmt |-> FALSE,
     ds64 |-> [dataSize |-> 0, sampleCount |-> 0], haveDS64 |-> FALSE,
     factFrames |-> 0, dataSize |-> sizeUnknown, haveData |-> FALSE,
     bext |-> NoBody, haveBext |-> FALSE, ixml |-> NoBody, haveIXML |-> FALSE]

Init ==
    /\ file \in Files
    /\ source \in Sources(file)
    /\ pos = 0
    /\ pc = "fileHeader"
    /\ cur = NoChunk
    /\ seen = NothingSeen
    /\ verdict = "none"
    /\ swallowed = FALSE

Return(v) ==
    /\ pc' = "done"
    /\ verdict' = v

(* The error of a source that stopped short of the bytes asked for.        *)
SourceError ==
    /\ source.why = "error"
    /\ source' = AfterStop
    /\ pos' = source.at
    /\ Return("ioerror")
    /\ UNCHANGED <<file, cur, seen, swallowed>>

readFileHeader ==
    /\ pc = "fileHeader"
    /\ IF Short(FileHeaderSize)
       THEN \/ SourceError
            \/ /\ source.why = "eof"
               /\ pos' = source.at
               /\ Return("notRIFF")
               /\ UNCHANGED <<file, source, cur, seen, swallowed>>
       ELSE /\ pos' = pos + FileHeaderSize
            /\ IF file.magic \in {"RIFF", "RF64", "BW64"}
               THEN pc' = "header" /\ UNCHANGED verdict
               ELSE Return("notRIFF")
            /\ UNCHANGED <<file, source, cur, seen, swallowed>>

(* The walk is over: what is missing is looked for in this order.          *)
finish(s) ==
    IF ~s.haveFmt \/ ~s.haveData \/ (Sized64(file.magic) /\ ~s.haveDS64)
    THEN "corrupt" ELSE "ok"

(* A trailing fragment shorter than a chunk header is the end of the file. *)
readChunkHeader ==
    /\ pc = "header"
    /\ IF Short(ChunkHeaderSize)
       THEN \/ SourceError
            \/ /\ source.why = "eof"
               /\ pos' = source.at
               /\ Return(finish(seen))
               /\ UNCHANGED <<file, source, cur, seen, swallowed>>
       ELSE /\ cur' \in HeadersAt(pos)
            /\ pos' = pos + ChunkHeaderSize
            /\ pc' = "body"
            /\ UNCHANGED <<file, source, seen, verdict, swallowed>>

-----------------------------------------------------------------------------
(* The body of a chunk.  Payload(n, A) reads up to n bytes and does A;     *)
(* a payload past MaxChunkPayload is discarded and comes back as nil.      *)

kept == cur.size <= MaxChunkPayload
payloadLen == IF kept THEN Got(cur.size) ELSE 0

InBody(ids) == pc = "body" /\ cur.id \in ids

(* Slip: a payload cut by an I/O error is handed on as if by the end.      *)
Consume_tolerant ==
    pos' = pos + Got(cur.size)

Consume ==
    /\ Short(cur.size) => source.why = "eof"
    /\ pos' = pos + Got(cur.size)

BodyFails ==
    /\ pc = "body" /\ cur.id # "data"
    /\ Short(cur.size)
    /\ SourceError

caseDS64 ==
    /\ InBody({"ds64"})
    /\ Consume
    /\ IF payloadLen < 28
       THEN Return("corrupt") /\ UNCHANGED seen
       ELSE /\ seen' = [seen EXCEPT !.ds64 = cur.body, !.haveDS64 = TRUE]
            /\ pc' = "pad" /\ UNCHANGED verdict
    /\ UNCHANGED <<file, source, cur, swallowed>>

caseFmt ==
    /\ InBody({"fmt"})
    /\ Consume
    /\ LET v == fmtVerdict(cur.body, payloadLen)
       IN IF v # "ok"
          THEN Return(v) /\ UNCHANGED seen
          ELSE /\ seen' = [seen EXCEPT !.fmt = parseFmt(cur.body), !.haveFmt = TRUE]
               /\ pc' = "pad" /\ UNCHANGED verdict
    /\ UNCHANGED <<file, source, cur, swallowed>>

caseFact ==
    /\ InBody({"fact"})
    /\ Consume
    /\ seen' = IF payloadLen >= factPayloadSize
               THEN [seen EXCEPT !.factFrames = cur.body.frames] ELSE seen
    /\ pc' = "pad"
    /\ UNCHANGED <<file, source, cur, verdict, swallowed>>

(* Slip: a nil check stands for haveBext and haveIXML.                     *)
caseMeta_nilcheck ==
    LET body == IF kept THEN [text |-> cur.body.text, len |-> payloadLen] ELSE NoBody
    IN /\ InBody({"bext", "iXML"})
       /\ Consume
       /\ seen' = CASE cur.id = "bext" /\ seen.bext = NoBody -> [seen EXCEPT !.bext = body]
                    [] cur.id = "iXML" /\ seen.ixml = NoBody -> [seen EXCEPT !.ixml = body]
                    [] OTHER -> seen
       /\ pc' = "pad"
       /\ UNCHANGED <<file, source, cur, verdict, swallowed>>

(* The first bext and the first iXML win, a nil one included.              *)
caseMeta ==
    LET body == IF kept THEN [text |-> cur.body.text, len |-> payloadLen] ELSE NoBody
    IN /\ InBody({"bext", "iXML"})
       /\ Consume
       /\ seen' = CASE cur.id = "bext" /\ ~seen.haveBext ->
                         [seen EXCEPT !.bext = body, !.haveBext = TRUE]
                    [] cur.id = "iXML" /\ ~seen.haveIXML ->
                         [seen EXCEPT !.ixml = body, !.haveIXML = TRUE]
                    [] OTHER -> seen
       /\ pc' = "pad"
       /\ UNCHANGED <<file, source, cur, verdict, swallowed>>

skipChunk ==
    /\ pc = "body"
    /\ cur.id \notin {"ds64", "fmt", "fact", "bext", "iXML", "data"}
    /\ Consume
    /\ pc' = "pad"
    /\ UNCHANGED <<file, source, cur, seen, verdict, swallowed>>

(* RiffLayout's view of what the walk has seen.                            *)
headOf(s, magic, size) ==
    [magic |-> magic, ds64Id |-> IF s.haveDS64 THEN "ds64" ELSE "none",
     ds64DataSize |-> s.ds64.dataSize, ds64SampleCount |-> s.ds64.sampleCount,
     blockAlign |-> s.fmt.blockAlign, factFrames |-> s.factFrames, dataSize |-> size]

(* The data chunk is not consumed; the walk stops at its first byte.       *)
caseData ==
    LET s == [seen EXCEPT !.haveData = TRUE,
                          !.dataSize = resolveDataSize(headOf(seen, file.magic, cur.size))]
    IN /\ InBody({"data"})
       /\ seen' = s
       /\ Return(finish(s))
       /\ UNCHANGED <<file, source, pos, cur, swallowed>>

-----------------------------------------------------------------------------
(* Slip: the pad byte is discarded without a look at what follows.         *)
skipPad_blind ==
    /\ pc = "pad"
    /\ pc' = "header"
    /\ pos' = IF cur.size % 2 = 1 /\ ~Short(4) THEN pos + 1 ELSE pos
    /\ swallowed' = (swallowed \/ (cur.size % 2 = 1 /\ Short(4) /\ source.why = "error"))
    /\ source' = IF cur.size % 2 = 1 /\ Short(4) THEN AfterStop ELSE source
    /\ UNCHANGED <<file, cur, seen, verdict>>

(* Peek(4) with fewer than four bytes in front of it drops whatever the    *)
(* source said, end or error, and takes no pad byte.                       *)
skipPad ==
    LET odd == cur.size % 2 = 1
    IN /\ pc = "pad"
       /\ pc' = "header"
       /\ \E omitted \in plausibleFourCC(pos) :
             pos' = IF odd /\ ~Short(4) /\ ~omitted THEN pos + 1 ELSE pos
       /\ swallowed' = (swallowed \/ (odd /\ Short(4) /\ source.why = "error"))
       /\ source' = IF odd /\ Short(4) THEN AfterStop ELSE source
       /\ UNCHANGED <<file, cur, seen, verdict>>

Next ==
    \/ readFileHeader
    \/ readChunkHeader
    \/ BodyFails
    \/ caseDS64
    \/ caseFmt
    \/ caseFact
    \/ caseMeta
    \/ skipChunk
    \/ caseData
    \/ skipPad

Spec == Init /\ [][Next]_vars

-----------------------------------------------------------------------------
(* What the accessors of the Decoder make of an accepted header.           *)

HasBext == seen.bext # NoBody
BextCorrupt == seen.bext.len < bextFixedSize
BextOf == parseBext(Stored[seen.bext.text], seen.bext.len)

TotalFrames == resolveFrames(headOf(seen, file.magic, cur.size))

-----------------------------------------------------------------------------
(* What a file says, read off its chunk list without a byte position.      *)

FirstData == Min({k \in 1 .. Len(file.chunks) : file.chunks[k].id = "data"}
                    \cup {Len(file.chunks) + 1})
HasData == FirstData <= Len(file.chunks)
Before(id) == {k \in 1 .. FirstData - 1 : file.chunks[k].id = id}
chunk(k) == file.chunks[k]

(* What is handed on of a payload that is there in full.                   *)
heldLen(c) == IF c.size <= MaxChunkPayload THEN c.size ELSE 0
Held(c) == IF c.size <= MaxChunkPayload THEN [text |-> c.body.text, len |-> c.size] ELSE NoBody
FirstBody(id) == IF Before(id) = {} THEN NoBody ELSE Held(chunk(Min(Before(id))))

LongEnough(id, n) == {k \in Before(id) : heldLen(chunk(k)) >= n}

(* The fields a reader should go by: the last ds64, the last fmt, the last *)
(* fact that holds a count.                                                *)
Said ==
    LET d == Before("ds64")
        f == LongEnough("fact", factPayloadSize)
    IN [magic |-> file.magic,
        ds64Id |-> IF d = {} THEN "none" ELSE "ds64",
        ds64DataSize |-> IF d = {} THEN 0 ELSE chunk(Max(d)).body.dataSize,
        ds64SampleCount |-> IF d = {} THEN 0 ELSE chunk(Max(d)).body.sampleCount,
        blockAlign |-> parseFmt(chunk(Max(Before("fmt"))).body).blockAlign,
        factFrames |-> IF f = {} THEN 0 ELSE chunk(Max(f)).body.frames,
        dataSize |-> chunk(FirstData).size]

(* A file no reader of this kind can make sense of.                        *)
Damaged ==
    \/ file.magic \notin {"RIFF", "RF64", "BW64"}
    \/ ~HasData \/ Before("fmt") = {}
    \/ Sized64(file.magic) /\ Before("ds64") = {}
    \/ Before("ds64") # LongEnough("ds64", 28)
    \/ \E k \in Before("fmt") : fmtVerdict(chunk(k).body, heldLen(chunk(k))) # "ok"

AudioStart == file.at[FirstData] + ChunkHeaderSize

-----------------------------------------------------------------------------
(* Properties.                                                             *)

(* Whatever the pads, the order and number of the chunks and the byte the  *)
(* source stops at: a header that is accepted is the one the whole file    *)
(* has, and the source is left at the first byte of audio.  A file cut     *)
(* short never yields another format or length than the file it was cut    *)
(* from (ParseHeader, reader.go:85-208).                                   *)
AcceptedMeansWholeHeader ==
    verdict = "ok" /\ ~swallowed =>
        /\ ~Damaged
        /\ pos = AudioStart
        /\ seen.fmt = parseFmt(chunk(Max(Before("fmt"))).body)
        /\ seen.dataSize = resolveDataSize(Said)
        /\ TotalFrames = resolveFrames(Said)

(* The metadata handed on is that of the first bext and the first iXML of  *)
(* the file, in full; when that one is too large to be held there is none, *)
(* and a later one does not take its place (reader.go:133-156).            *)
MetadataIsTheFirst ==
    verdict = "ok" /\ ~swallowed =>
        /\ seen.bext = FirstBody("bext")
        /\ seen.ixml = FirstBody("iXML")

(* A description that was written and is handed on reads back as it was,   *)
(* but for a time longer than its field, of which the part that fits reads *)
(* back.  One of another program whose texts are texts, its date a date    *)
(* and its time a time, can be written again: the version decides on both  *)
(* sides which fields count (parseBext, validate and serialize,            *)
(* bext.go:145-195, 259-303, 331-377).                                     *)
BextRoundTrips ==
    verdict = "ok" /\ ~swallowed /\ HasBext /\ ~BextCorrupt =>
        IF file.lay # NoLayout
        THEN BextOf = [file.bext EXCEPT !.texts["OriginationTime"] =
                           fitting(@, width["OriginationTime"])]
        ELSE /\ \A f \in FreeTexts : "other" \notin Range(BextOf.texts[f])
             /\ \A f \in Dates : checkDateTime(f, BextOf.texts[f])
             /\ "other" \notin Range(BextOf.codingHistory)
             => validate(BextOf)

(* The duration stated of a stream is its frames over its rate to the      *)
(* nanosecond below, and 0 exactly when the frames are unknown or that     *)
(* number cannot be stated (StreamInfo.Duration, wav.go:321-340).          *)
DurationIsExact ==
    LET rate == seen.fmt.rate
        exact == (TotalFrames * nsPerSecond) \div rate
    IN verdict = "ok" =>
        Duration(TotalFrames, rate) =
            IF rate <= MaxInt64 \div nsPerSecond /\ exact <= MaxInt64 THEN exact ELSE 0

(* A sound file is called corrupt, unsupported or not a WAVE file only if  *)
(* the source really ended before its audio: an I/O error is handed on as  *)
(* itself, never as damage (readChunkHeader, readPayload, discardN,        *)
(* reader.go:302-309, 331-342, 355-366, 408-420).  And Sniff, given the    *)
(* bytes there are, says of a file what ParseHeader will.                  *)
ErrorsAreNotDamage ==
    /\ verdict \in {"corrupt", "unsupported", "notRIFF"} /\ ~Damaged /\ ~swallowed =>
          source.why = "eof" /\ source.at < AudioStart
    /\ verdict \notin {"none", "ioerror"} =>
          (verdict = "notRIFF" <=> SniffContainer(file.magic, source.at) = "none")

(* Every header BuildHeader lays out is read back by ParseHeader: audio    *)
(* starts where the layout says, the format is the one asked for with its  *)
(* defaults filled in, and the length and the frame count are the ones     *)
(* that were stamped, with 0 bytes reading as unknown.                     *)
WrittenHeadersReadBack ==
    LET f == file.format
        extensible == needsExtensible(f)
    IN file.lay # NoLayout /\ verdict \notin {"none", "ioerror"}
           /\ source.at >= file.lay.dataOffset /\ ~swallowed =>
        /\ verdict = "ok"
        /\ pos = file.lay.dataOffset
        /\ \A field \in {"rate", "channels", "bits", "format"} : seen.fmt[field] = f[field]
        /\ seen.fmt.blockAlign = file.lay.bytes.blockAlign
        /\ seen.fmt.extensible = extensible
        /\ extensible => /\ seen.fmt.validBits \in 1 .. f.bits
                         /\ f.validBits \in 1 .. f.bits => seen.fmt.validBits = f.validBits
                         /\ seen.fmt.mask = IF f.mask = {} THEN ConventionalChannelMask(f.channels)
                                            ELSE f.mask
        /\ seen.dataSize = IF file.frames = 0 THEN sizeUnknown
                           ELSE file.frames * seen.fmt.blockAlign
        /\ TotalFrames = file.frames

(* The comment on the short Peek (reader.go:391): "Fewer than four bytes   *)
(* remain, so no further chunk will be parsed".                            *)
NoChunkAfterAShortPeek == [][swallowed => cur' = cur]_vars

(* MaxChunkPayload "is exported so the pcm layer can refuse to write a     *)
(* metadata chunk larger than this reader would read back"                 *)
(* (reader.go:18-20): a bext that was written is handed on.                *)
WrittenBextIsReadBack ==
    verdict = "ok" /\ ~swallowed /\ file.lay # NoLayout /\ Before("bext") # {} => HasBext

(* "The reader is the exact inverse of the writer: parsing an accepted     *)
(* descriptor's serialized body must reproduce it" (fuzz_test.go:317-318): *)
(* a description handed on is the one that was written.                    *)
AcceptedBextIsKept ==
    verdict = "ok" /\ ~swallowed /\ file.lay # NoLayout /\ HasBext /\ ~BextCorrupt =>
        BextOf = file.bext
=============================================================================
