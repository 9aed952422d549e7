-------------------------- MODULE RiffLayoutProofs --------------------------
(***************************************************************************)
(* Facts about the header arithmetic, for every value of the constants.    *)
(***************************************************************************)
EXTENDS RiffLayout, TLAPS

(* The part of a Config the layout depends on.                             *)
HasLayout(c) == /\ c.frame \in Nat /\ c.bext \in Nat /\ c.ixml \in Nat
                /\ c.float \in BOOLEAN /\ c.extensible \in BOOLEAN

(* Padding rounds up to the even neighbour.                                *)
LEMMA PaddedBounds ==
    ASSUME NEW n \in Nat
    PROVE  /\ padded(n) \in Nat /\ n <= padded(n) /\ padded(n) <= n + 1
           /\ n % 2 # 0 => padded(n) = n + 1
  BY DEF padded

(* Padding never reorders two lengths.                                     *)
LEMMA PaddedMonotone ==
    ASSUME NEW m \in Nat, NEW n \in Nat, m <= n
    PROVE  padded(m) <= padded(n)
  BY DEF padded

(* A header is at least as long as the smallest WAVE header.               *)
LEMMA HeaderLenBounds ==
    ASSUME NEW c, HasLayout(c), NEW room \in BOOLEAN
    PROVE  HeaderLen(c, room) \in Nat /\ HeaderLen(c, room) >= 44
<1>1. metaLen(c.bext) \in Nat /\ metaLen(c.ixml) \in Nat
  BY PaddedBounds DEF metaLen, HasLayout, ChunkHeaderSize
<1>2. fmtPayloadLen(c) \in Nat /\ fmtPayloadLen(c) >= 16
  BY DEF fmtPayloadLen, HasLayout
<1> QED
  BY <1>1, <1>2 DEF HeaderLen, HasLayout, FileHeaderSize, ChunkHeaderSize,
                    DS64ChunkSize, factPayloadSize

(* What fits plain RIFF still fits when it is shorter.                     *)
LEMMA FitsIsDownwardClosed ==
    ASSUME NEW h \in Nat, NEW m \in Nat, NEW n \in Nat, m <= n, fitsRIFF(h, n)
    PROVE  fitsRIFF(h, m)
<1>1. padded(m) \in Nat /\ padded(n) \in Nat /\ padded(m) <= padded(n)
  BY PaddedBounds, PaddedMonotone
<1> QED
  BY <1>1, SizeAssumption DEF fitsRIFF, riffSizeForLen

(* A file that fits plain RIFF fits with the pad byte an odd length has.   *)
LEMMA PadFits ==
    ASSUME NEW h \in Nat, NEW n \in Nat, NEW p \in 0..1, p = 1 => n % 2 # 0,
           fitsRIFF(h, n)
    PROVE  h + n + p - 8 <= MaxUint32
<1>1. n + p <= padded(n) /\ padded(n) \in Nat
  BY DEF padded
<1> QED
  BY <1>1, SizeAssumption DEF fitsRIFF, riffSizeForLen

(* Stamping keeps a header well formed and leaves the magic, the ds64      *)
(* identifier and the fmt fields alone.                                    *)
LEMMA StampType ==
    ASSUME NEW lay \in LayoutType, NEW head \in HeaderType,
           NEW container \in Containers, NEW d \in Nat, NEW f \in Nat,
           lay.dataOffset >= 8
    PROVE  LET new == writeSizesInto(lay, head, container, d, f)
           IN /\ new \in HeaderType
              /\ new.magic = head.magic
              /\ new.ds64Id = head.ds64Id
              /\ new.blockAlign = head.blockAlign
<1> DEFINE fact == IF lay.hasFact
                   THEN IF f > MaxUint32 THEN sentinel32 ELSE f
                   ELSE head.factFrames
<1>1. riffSizeFor(lay, d) \in Nat
  BY PaddedBounds DEF riffSizeFor, riffSizeForLen, LayoutType
<1>2. fact \in Nat /\ sentinel32 \in Nat
  BY SizeAssumption DEF sentinel32, HeaderType
<1>3. CASE Sized64(container)
  BY <1>1, <1>2, <1>3 DEF writeSizesInto, HeaderType
<1>4. CASE ~Sized64(container)
  BY <1>1, <1>2, <1>4 DEF writeSizesInto, HeaderType
<1> QED  BY <1>3, <1>4

(* BuildHeader returns a well formed layout whose header names the         *)
(* container and has room for a ds64 exactly when the layout says so.      *)
LEMMA BuildType ==
    ASSUME NEW c, HasLayout(c), NEW container \in Containers,
           NEW reserve \in BOOLEAN, NEW d \in Nat, NEW f \in Nat
    PROVE  LET lay == BuildHeader(c, container, reserve, d, f)
           IN /\ lay \in LayoutType
              /\ lay.hasDS64 = (Sized64(container) \/ reserve)
              /\ lay.dataOffset = HeaderLen(c, lay.hasDS64)
              /\ lay.bytes.magic = container
              /\ (lay.bytes.ds64Id = "none") <=> ~lay.hasDS64
<1> DEFINE bl == blankLayout(c, container, reserve)
           bh == blankHeader(c, container, reserve)
           new == writeSizesInto(bl, bh, container, d, f)
<1>1. (Sized64(container) \/ reserve) \in BOOLEAN
  BY DEF Sized64
<1>2. HeaderLen(c, Sized64(container) \/ reserve) \in Nat
      /\ HeaderLen(c, Sized64(container) \/ reserve) >= 44
  BY <1>1, HeaderLenBounds
<1>3. /\ bh \in HeaderType /\ bh.magic = container
      /\ (bh.ds64Id = "none") <=> ~(Sized64(container) \/ reserve)
  BY DEF blankHeader, HeaderType, NoHeader, HasLayout, Sized64, Containers
<1>4. /\ bl \in LayoutType /\ bl.bytes = bh /\ bl.dataOffset >= 8
      /\ bl.hasDS64 = (Sized64(container) \/ reserve)
      /\ bl.dataOffset = HeaderLen(c, bl.hasDS64)
  BY <1>1, <1>2, <1>3 DEF blankLayout, LayoutType, HasLayout
<1>5. new \in HeaderType /\ new.magic = container /\ new.ds64Id = bh.ds64Id
  BY <1>3, <1>4, StampType
<1>6. BuildHeader(c, container, reserve, d, f) = [bl EXCEPT !.bytes = new]
  BY <1>4 DEF BuildHeader
<1> QED
  BY <1>3, <1>4, <1>5, <1>6 DEF LayoutType

(* PatchSizes and UpgradeToRF64 return a well formed header whose ds64     *)
(* slot is still there exactly when there was room for it.                 *)
LEMMA FinalHeaderType ==
    ASSUME NEW lay \in LayoutType, lay.dataOffset >= 8,
           (lay.bytes.ds64Id = "none") <=> ~lay.hasDS64,
           NEW container \in Containers, NEW d \in Nat, NEW f \in Nat
    PROVE  /\ PatchSizes(lay, container, d, f) \in HeaderType
           /\ (PatchSizes(lay, container, d, f).ds64Id = "none") <=> ~lay.hasDS64
           /\ lay.hasDS64 =>
                 /\ UpgradeToRF64(lay, container, d, f) \in HeaderType
                 /\ UpgradeToRF64(lay, container, d, f).ds64Id = "ds64"
<1> DEFINE up == [lay.bytes EXCEPT !.magic = container, !.ds64Id = "ds64"]
<1>1. lay.bytes \in HeaderType
  BY DEF LayoutType
<1>2. up \in HeaderType /\ up.ds64Id = "ds64"
  BY <1>1 DEF HeaderType
<1>3. /\ PatchSizes(lay, container, d, f) \in HeaderType
      /\ PatchSizes(lay, container, d, f).ds64Id = lay.bytes.ds64Id
  BY <1>1, StampType DEF PatchSizes
<1>4. /\ UpgradeToRF64(lay, container, d, f) \in HeaderType
      /\ UpgradeToRF64(lay, container, d, f).ds64Id = "ds64"
  <2>1. UpgradeToRF64(lay, container, d, f) = writeSizesInto(lay, up, container, d, f)
    BY DEF UpgradeToRF64
  <2> HIDE DEF up
  <2> QED  BY <1>2, <2>1, StampType
<1> QED  BY <1>3, <1>4

(* A number overwritten in part: still a number; no larger than the new    *)
(* one when it was 0; the same when old and new one are.                   *)
LEMMA TornNumber ==
    ASSUME NEW a \in Nat, NEW b \in Nat, NEW m \in Nat \ {0}
    PROVE  /\ tornNumber(a, b, m) \in Nat
           /\ tornNumber(0, b, m) \in 0..b
           /\ tornNumber(a, a, m) = a
<1>1. /\ a \div m \in Nat /\ b \div m \in Nat
      /\ (a % m) \in Nat /\ (b % m) \in Nat
  OBVIOUS
<1>2. a = (a \div m) * m + (a % m) /\ b = (b \div m) * m + (b % m)
  OBVIOUS
<1>3. (a \div m) * m \in Nat /\ (b \div m) * m \in Nat
  BY <1>1
<1>4. (0 \div m) * m = 0
  <2>1. 0 \div m = 0
    OBVIOUS
  <2> QED  BY <2>1
<1> QED  BY <1>1, <1>2, <1>3, <1>4 DEF tornNumber

(* A torn field is the old number, the new one, or one of both.            *)
LEMMA TornField ==
    ASSUME NEW a \in Nat, NEW b \in Nat, NEW m \in Nat \ {0}, NEW n, NEW i
    PROVE  /\ tornField(i, a, b, n, m) \in {a, b, tornNumber(a, b, m)}
           /\ tornField(i, a, b, n, m) \in Nat
  BY TornNumber DEF tornField

(* A rewrite that stops anywhere leaves a well formed header; if the old   *)
(* and the new one agree on whether there is a ds64 slot, so does it.      *)
LEMMA TornType ==
    ASSUME NEW old \in HeaderType, NEW new \in HeaderType, NEW n \in Nat,
           NEW m \in Nat \ {0}
    PROVE  /\ tornHeader(old, new, n, m) \in HeaderType
           /\ tornHeader(old, new, n, m).magic = tornMagic(old.magic, new.magic, n, m)
           /\ tornHeader(old, new, n, m).ds64Id = IF n >= 3 THEN new.ds64Id ELSE old.ds64Id
           /\ tornHeader(old, new, n, m).ds64DataSize
                 = tornField(5, old.ds64DataSize, new.ds64DataSize, n, m)
           /\ tornHeader(old, new, n, m).dataSize
                 = tornField(8, old.dataSize, new.dataSize, n, m)
<1> DEFINE magic == tornMagic(old.magic, new.magic, n, m)
           r == tornField(2, old.riffSize, new.riffSize, n, m)
           id == IF n >= 3 THEN new.ds64Id ELSE old.ds64Id
           dr == tornField(4, old.ds64RiffSize, new.ds64RiffSize, n, m)
           dd == tornField(5, old.ds64DataSize, new.ds64DataSize, n, m)
           ds == tornField(6, old.ds64SampleCount, new.ds64SampleCount, n, m)
           ff == tornField(7, old.factFrames, new.factFrames, n, m)
           d == tornField(8, old.dataSize, new.dataSize, n, m)
<1>1. magic \in Containers \cup {"torn"} /\ id \in {"none", "JUNK", "ds64"}
  BY DEF HeaderType, tornMagic
<1>2. /\ old.riffSize \in Nat /\ new.riffSize \in Nat
      /\ old.ds64RiffSize \in Nat /\ new.ds64RiffSize \in Nat
      /\ old.ds64DataSize \in Nat /\ new.ds64DataSize \in Nat
      /\ old.ds64SampleCount \in Nat /\ new.ds64SampleCount \in Nat
      /\ old.factFrames \in Nat /\ new.factFrames \in Nat
      /\ old.dataSize \in Nat /\ new.dataSize \in Nat
  BY DEF HeaderType
<1>3. r \in Nat /\ dr \in Nat /\ dd \in Nat /\ ds \in Nat /\ ff \in Nat /\ d \in Nat
  BY <1>2, TornField
<1>4. tornHeader(old, new, n, m) =
         [old EXCEPT !.magic = magic, !.riffSize = r, !.ds64Id = id,
                     !.ds64RiffSize = dr, !.ds64DataSize = dd,
                     !.ds64SampleCount = ds, !.factFrames = ff, !.dataSize = d]
  BY Zenon DEF tornHeader
<1> HIDE DEF magic, r, id, dr, dd, ds, ff, d
<1>5. /\ tornHeader(old, new, n, m) \in HeaderType
      /\ tornHeader(old, new, n, m).magic = magic /\ tornHeader(old, new, n, m).ds64Id = id
      /\ tornHeader(old, new, n, m).ds64DataSize = dd
      /\ tornHeader(old, new, n, m).dataSize = d
  BY <1>1, <1>3, <1>4 DEF HeaderType
<1> QED  BY <1>5 DEF magic, id, dd, d
=============================================================================
