------------------------------ MODULE MCReader ------------------------------
(***************************************************************************)
(* Files for HeaderReader.  The structural sizes are the real ones; a      *)
(* payload of more than 40 bytes is past MaxChunkPayload and a data size   *)
(* of 200 is the 32-bit sentinel.                                          *)
(***************************************************************************)
EXTENDS HeaderReader, TLC

Chunk(id, size, pad, body) == [id |-> id, size |-> size, pad |-> pad, body |-> body]
Text(t) == [text |-> t]

(* Descriptions.  The fixed part is 6 bytes: two for the wide text field   *)
(* and for the time, one for each of the others.                           *)
Plain == [texts |-> [f \in Texts |-> <<>>], timeReference |-> 0, version |-> 0, umid |-> 0,
          loudness |-> 0, codingHistory |-> <<>>]
Told == [Plain EXCEPT !.texts = [f \in Texts |-> CASE f = "OriginationDate" -> <<"date">>
                                                  [] f = "OriginationTime" -> <<"digit", "clock">>
                                                  [] OTHER -> <<"text">>],
                      !.timeReference = 11]
At(time) == [Told EXCEPT !.texts["OriginationTime"] = time]
Long == [i \in 1 .. 38 |-> "text"]
Described ==
    [plain |-> Plain, told |-> Told,
     umid |-> [Told EXCEPT !.version = 1, !.umid = 1, !.codingHistory = <<"text", "line">>],
     loud |-> [Plain EXCEPT !.version = 2, !.loudness = -3, !.timeReference = 4],
     long |-> [Plain EXCEPT !.codingHistory = Long],
     early |-> [Plain EXCEPT !.umid = 1],
     fraction |-> At(<<"digit", "clock", "point", "digit", "digit">>),
     short |-> At(<<"clock">>), shortFraction |-> At(<<"clock", "point", "digit">>),
     pointless |-> At(<<"clock", "point">>),
     wide |-> [Plain EXCEPT !.texts["Description"] = <<"text", "text", "text">>]]

(* As other programs store them: reserved bytes set, a terminated history. *)
Junk == [serialize(Told) EXCEPT !.umid = 1, !.loudness = 5]
Bodies ==
    [a |-> Junk, b |-> serialize(Plain),
     c |-> [serialize(Plain) EXCEPT !.tail = Long],
     d |-> [Junk EXCEPT !.version = 1, !.tail = <<"line", "NUL", "other">>],
     e |-> [Junk EXCEPT !.version = 2, !.fields["Originator"] = <<"NUL">>, !.tail = <<"other">>],
     f |-> [Junk EXCEPT !.fields["OriginationTime"] = <<"clock", "point">>]]
    @@ [t \in DOMAIN Described |-> serialize(Described[t])]
Widths == [f \in Texts |-> IF f \in {"Description", "OriginationTime"} THEN 2 ELSE 1]

Stereo16 == [format |-> "PCM", bits |-> 16, channels |-> 2, rate |-> 2, validBits |-> 0,
             mask |-> {}, extensible |-> FALSE]
Mono24 == [Stereo16 EXCEPT !.bits = 24, !.channels = 1, !.validBits = 20]
Float3 == [Stereo16 EXCEPT !.format = "Float", !.bits = 32, !.channels = 3]
FloatMono == [Stereo16 EXCEPT !.format = "Float", !.bits = 32, !.channels = 1]
Formats == {Stereo16, Mono24, Float3, FloatMono, [Stereo16 EXCEPT !.bits = 8, !.mask = {"FL"}]}

FmtOf(f) == Chunk("fmt", appendFmt(f).len, TRUE, appendFmt(f))
ALaw == Chunk("fmt", 18, TRUE, [appendFmt(Stereo16) EXCEPT !.tag = "ALaw", !.bits = 8])

(* Chunks found in the wild, among them some no reader can use.            *)
Wild ==
    {FmtOf(Stereo16), FmtOf(Mono24), ALaw,
     Chunk("fmt", 16, TRUE, [appendFmt(Stereo16) EXCEPT !.channels = 0]),
     Chunk("fmt", 18, TRUE, appendFmt(Mono24)),
     Chunk("ds64", 28, TRUE, [dataSize |-> 6, sampleCount |-> 3]),
     Chunk("ds64", 29, FALSE, [dataSize |-> 0, sampleCount |-> 27]),
     Chunk("ds64", 24, TRUE, [dataSize |-> 6, sampleCount |-> 3]),
     Chunk("fact", 4, TRUE, [frames |-> 26]),
     Chunk("fact", 5, TRUE, [frames |-> 200]),
     Chunk("fact", 3, TRUE, [frames |-> 9]),
     Chunk("fact", 44, TRUE, [frames |-> 9]),
     Chunk("ds64", 45, TRUE, [dataSize |-> 6, sampleCount |-> 3]),
     Chunk("fmt", 42, TRUE, appendFmt(Mono24)),
     Chunk("bext", 6, TRUE, Text("a")), Chunk("bext", 9, FALSE, Text("d")),
     Chunk("bext", 7, TRUE, Text("e")), Chunk("bext", 6, TRUE, Text("f")),
     Chunk("bext", 3, FALSE, Text("b")), Chunk("bext", 44, TRUE, Text("c")), Chunk("iXML", 2, TRUE, Text("x")),
     Chunk("iXML", 41, FALSE, Text("y")),
     Chunk("LIST", 1, FALSE, Text("l")), Chunk("LIST", 3, TRUE, Text("l"))}

Few == {c \in Wild : c.size < 7 \/ (c.id = "ds64" /\ c.size > 24)} \cup {FmtOf(Stereo16)}

(* Where the chunks of a file begin, and where the last one ends.          *)
Offsets(chunks) ==
    LET at[k \in 1 .. Len(chunks) + 1] ==
            IF k = 1 THEN FileHeaderSize ELSE at[k - 1] + extent(chunks[k - 1])
    IN at

Data(size) == Chunk("data", size, TRUE, Text("audio"))
Found(magic, cut, chunks) ==
    [magic |-> magic, chunks |-> chunks, at |-> Offsets(chunks), cut |-> cut, lay |-> NoLayout,
     format |-> Stereo16, frames |-> 0, bext |-> Plain, name |-> "none", ixml |-> 0]

LateDS64 == Chunk("ds64", 28, TRUE, [dataSize |-> 2, sampleCount |-> 1])

(* Two chunks of any kind around a format, then audio and a late ds64.     *)
WildFiles ==
    {Found(m, FALSE, <<a, FmtOf(Stereo16), b, Data(n), LateDS64>>) :
        m \in {"RIFF", "RF64"}, a, b \in Wild, n \in {6, 200}}
    \cup {Found(m, FALSE, <<a, b, c, Data(0)>>) : m \in {"RIFF", "BW64"}, b \in Wild, a, c \in Few}
    \cup {Found("RIFX", TRUE, <<FmtOf(Stereo16), Data(6)>>), Found("RIFF", TRUE, <<FmtOf(Stereo16)>>)}

CutWildFiles ==
    {Found("RF64", TRUE, <<a, FmtOf(Mono24), b, Data(6)>>) : a, b \in Few}

(* Files of this library.                                                  *)
BextOfName(name) == IF name = "none" THEN Plain ELSE Described[name]
BextLen(name) == IF name = "none" THEN 0 ELSE serializedLen(Described[name])
CanWriteBoth(name, ixml) == CanWriteMetadata(name # "none", BextOfName(name), ixml)

Built(f, name, ixml, container, reserve, dataSize, frames) ==
    LET lay == BuildHeader(headerConfig(f, BextLen(name), ixml), container, reserve, dataSize, frames)
        file0 == [magic |-> container, cut |-> lay.dataOffset <= 90, lay |-> lay, format |-> f,
                  frames |-> frames, bext |-> BextOfName(name), name |-> name, ixml |-> ixml]
        chunks == headerChunks(file0)
    IN file0 @@ [chunks |-> chunks, at |-> Offsets(chunks)]

BuiltFiles ==
    {Built(x[1], x[2], x[3], x[4], x[5], x[6] * blockAlignOf(x[1]), x[6]) :
        x \in {y \in Formats \X ({"none"} \cup DOMAIN Described) \X {0, 2, 3, 41} \X Containers \X BOOLEAN \X {0, 1, 3} :
                 /\ CanWriteFmt(y[1]) /\ CanWriteBoth(y[2], y[3])
                 /\ CanBuild(headerConfig(y[1], BextLen(y[2]), y[3]), y[4], y[5], y[6] * blockAlignOf(y[1]))}}

AllFiles == WildFiles \cup CutWildFiles \cup BuiltFiles
=============================================================================
