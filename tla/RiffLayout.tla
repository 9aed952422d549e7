----------------------------- MODULE RiffLayout -----------------------------
(***************************************************************************)
(* The header arithmetic of internal/riff: how long a header is, which     *)
(* sizes its fields can hold, what the writer stamps into them and what    *)
(* the reader makes of them afterwards.  Everything here is a pure         *)
(* operator; Encoder builds its state machine from these.                  *)
(*                                                                         *)
(* A header is a record of the fields a property can tell apart, listed in *)
(* file order by FieldOrder.  MaxUint32 and MaxDataSize are 2^32-1 and     *)
(* 2^62 in the code; they are parameters so that TLC can use small ones    *)
(* while every structural size (12, 8, 28, 4, 16, 18, 40) is the real one. *)
(***************************************************************************)
EXTENDS Integers

CONSTANTS MaxUint32,    \* largest value of a 32-bit size field, and the RF64 sentinel
          MaxDataSize   \* largest data length the reader believes

ASSUME SizeAssumption == /\ MaxUint32 \in Nat \ {0}
                         /\ MaxDataSize \in Nat
                         /\ MaxUint32 <= MaxDataSize

sentinel32 == MaxUint32
sizeUnknown == -1

Sized64(container) == container \in {"RF64", "BW64"}

padded(size) == size + (size % 2)

-----------------------------------------------------------------------------
(* Lengths.  A configuration c carries the lengths of its bext and iXML    *)
(* bodies (0 when absent) and whether the format is float or extensible.   *)

FileHeaderSize == 12
ChunkHeaderSize == 8
DS64ChunkSize == ChunkHeaderSize + 28
factPayloadSize == 4

fmtPayloadLen(c) == IF c.extensible THEN 40 ELSE IF c.float THEN 18 ELSE 16

metaLen(body) == IF body > 0 THEN ChunkHeaderSize + padded(body) ELSE 0

(* room: a ds64 chunk, or the JUNK chunk reserved for one, is present.     *)
HeaderLen(c, room) ==
    FileHeaderSize
      + (IF room THEN DS64ChunkSize ELSE 0)
      + ChunkHeaderSize + fmtPayloadLen(c)
      + metaLen(c.bext) + metaLen(c.ixml)
      + (IF c.float THEN ChunkHeaderSize + factPayloadSize ELSE 0)
      + ChunkHeaderSize

riffSizeForLen(headerLen, dataSize) == headerLen + padded(dataSize) - 8

fitsRIFF(headerLen, dataSize) ==
    /\ dataSize >= 0
    /\ dataSize <= MaxUint32
    /\ riffSizeForLen(headerLen, dataSize) <= MaxUint32

FitsPlainRIFF(c, dataSize) == fitsRIFF(HeaderLen(c, FALSE), dataSize)

-----------------------------------------------------------------------------
(* Layouts and headers.                                                    *)

Containers == {"RIFF", "RF64"}

(* "torn" is the magic of no container: what is left when the RIFF of a    *)
(* header is overwritten in part.                                          *)
HeaderType == [magic : Containers \cup {"torn"}, riffSize : Nat,
               ds64Id : {"none", "JUNK", "ds64"}, ds64RiffSize : Nat,
               ds64DataSize : Nat, ds64SampleCount : Nat,
               blockAlign : Nat, factFrames : Nat, dataSize : Nat]

LayoutType == [dataOffset : Nat, hasDS64 : BOOLEAN, hasFact : BOOLEAN,
               bytes : HeaderType]

NoHeader == [magic |-> "RIFF", riffSize |-> 0, ds64Id |-> "none",
             ds64RiffSize |-> 0, ds64DataSize |-> 0, ds64SampleCount |-> 0,
             blockAlign |-> 0, factFrames |-> 0, dataSize |-> 0]

NoLayout == [dataOffset |-> 0, hasDS64 |-> FALSE, hasFact |-> FALSE,
             bytes |-> NoHeader]

(* Slip: the room reserved in the header is counted a second time.         *)
FitsRIFF_twice(lay, dataSize) == fitsRIFF(lay.dataOffset + DS64ChunkSize, dataSize)

FitsRIFF(lay, dataSize) == fitsRIFF(lay.dataOffset, dataSize)

riffSizeFor(lay, dataSize) == riffSizeForLen(lay.dataOffset, dataSize)

(* writeSizesInto succeeds: the 32-bit fields hold the sizes, or a ds64    *)
(* chunk is there to hold them.                                            *)
CanStamp(lay, container, dataSize) ==
    IF Sized64(container)
    THEN dataSize >= 0 /\ lay.hasDS64
    ELSE /\ dataSize >= 0
         /\ riffSizeFor(lay, dataSize) <= MaxUint32
         /\ dataSize <= MaxUint32

(* Slip: the first two ds64 fields are swapped.                            *)
writeSizesInto_swapped(lay, head, container, dataSize, frames) ==
    IF Sized64(container)
    THEN [head EXCEPT !.riffSize = sentinel32, !.dataSize = sentinel32,
                      !.ds64RiffSize = dataSize,
                      !.ds64DataSize = riffSizeFor(lay, dataSize),
                      !.ds64SampleCount = frames]
    ELSE [head EXCEPT !.riffSize = riffSizeFor(lay, dataSize), !.dataSize = dataSize]

writeSizesInto(lay, head, container, dataSize, frames) ==
    LET fact == IF lay.hasFact
                THEN IF frames > MaxUint32 THEN sentinel32 ELSE frames
                ELSE head.factFrames
    IN IF Sized64(container)
       THEN [head EXCEPT !.riffSize = sentinel32,
                         !.dataSize = sentinel32,
                         !.ds64RiffSize = riffSizeFor(lay, dataSize),
                         !.ds64DataSize = dataSize,
                         !.ds64SampleCount = frames,
                         !.factFrames = fact]
       ELSE [head EXCEPT !.riffSize = riffSizeFor(lay, dataSize),
                         !.dataSize = dataSize,
                         !.factFrames = fact]

(* The header before any size is stamped.                                  *)
blankHeader(c, container, reserve) ==
    [NoHeader EXCEPT !.magic = container,
                     !.ds64Id = IF Sized64(container) THEN "ds64"
                                ELSE IF reserve THEN "JUNK" ELSE "none",
                     !.blockAlign = c.frame]

blankLayout(c, container, reserve) ==
    LET room == Sized64(container) \/ reserve
    IN [dataOffset |-> HeaderLen(c, room), hasDS64 |-> room,
        hasFact |-> c.float, bytes |-> blankHeader(c, container, reserve)]

(* BuildHeader: c.expressible says whether the derived fmt fields (block   *)
(* align, byte rate) fit their widths.                                     *)
CanBuild(c, container, reserve, dataSize) ==
    /\ c.expressible
    /\ c.bext <= MaxUint32
    /\ c.ixml <= MaxUint32
    /\ CanStamp(blankLayout(c, container, reserve), container, dataSize)

BuildHeader(c, container, reserve, dataSize, frames) ==
    LET lay == blankLayout(c, container, reserve)
    IN [lay EXCEPT !.bytes =
           writeSizesInto(lay, lay.bytes, container, dataSize, frames)]

(* PatchSizes refuses to change the container; UpgradeToRF64 needs the     *)
(* reserved chunk.  Both return the whole header, to be rewritten at 0.    *)
CanPatch(lay, container, dataSize) ==
    /\ lay.bytes.magic = container
    /\ CanStamp(lay, container, dataSize)

(* Slip: the pad byte is counted in the data size.                         *)
PatchSizes_padded(lay, container, dataSize, frames) ==
    writeSizesInto(lay, lay.bytes, container, padded(dataSize), frames)

PatchSizes(lay, container, dataSize, frames) ==
    writeSizesInto(lay, lay.bytes, container, dataSize, frames)

CanUpgrade(lay, container, dataSize) ==
    /\ container = "RF64"
    /\ lay.hasDS64
    /\ CanStamp(lay, container, dataSize)

(* Slip: the JUNK chunk keeps its identifier.                              *)
UpgradeToRF64_keepsJUNK(lay, container, dataSize, frames) ==
    writeSizesInto(lay, [lay.bytes EXCEPT !.magic = container], container, dataSize, frames)

UpgradeToRF64(lay, container, dataSize, frames) ==
    LET head == [lay.bytes EXCEPT !.magic = container, !.ds64Id = "ds64"]
    IN writeSizesInto(lay, head, container, dataSize, frames)

(* A number of which the bytes below the weight m are already those of     *)
(* new: the fields are little endian.                                      *)
tornNumber(old, new, m) == (old \div m) * m + (new % m)

(* The i-th rewritten field, when n fields and the bytes below the weight  *)
(* m of the next one are taken.                                            *)
tornField(i, old, new, n, m) ==
    IF i <= n THEN new ELSE IF i = n + 1 THEN tornNumber(old, new, m) ELSE old

tornMagic(old, new, n, m) ==
    IF n >= 1 THEN new ELSE IF m > 1 /\ old # new THEN "torn" ELSE old

(* What is on the medium when a rewrite of the header stops anywhere in    *)
(* the one Write it is: after its first n fields, in file order, and the   *)
(* bytes of the next below the weight m (none of them when m = 1).  The    *)
(* fmt fields never change.  A half written ds64 identifier is one no      *)
(* reader knows: it skips the chunk as it does JUNK.                       *)
RewrittenFields == 8
tornHeader(old, new, n, m) ==
    [old EXCEPT !.magic           = tornMagic(@, new.magic, n, m),
                !.riffSize        = tornField(2, @, new.riffSize, n, m),
                !.ds64Id          = IF n >= 3 THEN new.ds64Id ELSE @,
                !.ds64RiffSize    = tornField(4, @, new.ds64RiffSize, n, m),
                !.ds64DataSize    = tornField(5, @, new.ds64DataSize, n, m),
                !.ds64SampleCount = tornField(6, @, new.ds64SampleCount, n, m),
                !.factFrames      = tornField(7, @, new.factFrames, n, m),
                !.dataSize        = tornField(8, @, new.dataSize, n, m)]

-----------------------------------------------------------------------------
(* The reader's verdict on a complete header.                              *)

haveDS64(head) == head.ds64Id = "ds64"

(* ParseHeader refuses an unknown magic, and reports a 64-bit container     *)
(* without a ds64 as corrupt.                                              *)
Readable(head) == head.magic # "torn" /\ (Sized64(head.magic) => haveDS64(head))

resolveDataSize(head) ==
    IF Sized64(head.magic) /\ haveDS64(head)
    THEN IF head.ds64DataSize = 0 \/ head.ds64DataSize > MaxDataSize
         THEN sizeUnknown ELSE head.ds64DataSize
    ELSE IF head.dataSize \in {0, sentinel32} THEN sizeUnknown ELSE head.dataSize

boundedFrames(frames, blockAlign) ==
    LET limit == IF blockAlign > 0 THEN MaxDataSize \div blockAlign ELSE MaxDataSize
    IN IF frames > limit THEN 0 ELSE frames

resolveFrames(head) ==
    LET size == resolveDataSize(head)
    IN IF size # sizeUnknown /\ head.blockAlign > 0
       THEN size \div head.blockAlign
       ELSE IF haveDS64(head) /\ head.ds64SampleCount # 0
       THEN boundedFrames(head.ds64SampleCount, head.blockAlign)
       ELSE IF head.factFrames = sentinel32 THEN 0
       ELSE boundedFrames(head.factFrames, head.blockAlign)
=============================================================================
