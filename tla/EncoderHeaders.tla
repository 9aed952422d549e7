---------------------------- MODULE EncoderHeaders ----------------------------
(***************************************************************************)
(* What the header on a sink says of it: sealed, the length that is there, *)
(* in the container the policy asks for; before that, no length, the       *)
(* promised one or, when the rewrite of the header was torn, one that is   *)
(* too short.                                                              *)
(***************************************************************************)
EXTENDS EncoderProofs

(* l is the header Reset builds for sink s and Config c.                   *)
Built(s, c, l) ==
    LET p == plan(c, s \in SeekableSinks)
    IN /\ Rejection(s, c) = "nil"
       /\ l = BuildHeader(c, p.container, p.reserve, sizeAtReset(c), c.total)

(* A header that can be read and gives d as the length.                    *)
Says(head, d) ==
    /\ head.magic \in Containers
    /\ IF Sized64(head.magic) THEN haveDS64(head) /\ head.ds64DataSize = d
       ELSE head.dataSize = d

planned == plan(cfg, seekable).container

(* The bound sink was accepted by Reset and its header built to the plan;  *)
(* the container is the planned one until the audio outgrows plain RIFF on *)
(* a sink whose header has room for an upgrade.                            *)
BuiltInv ==
    w # NoSink =>
        /\ cfg \in Configs /\ Built(w, cfg, lay)
        /\ \/ cont = planned
           \/ /\ cont = "RF64" /\ planned = "RIFF" /\ Rescuable
              /\ err = "nil" => ~FitsRIFF(lay, written)

PromiseKept == cfg.total > 0 => frames = cfg.total

PromiseExact == framesKnown(cfg) => sizeAtReset(cfg) = written

(* Close has reached the rewrite of the header: the promise, if any, was   *)
(* kept, and an upgrade is needed.                                         *)
Patching ==
    /\ closed /\ seekable /\ PromiseKept /\ PromiseExact
    /\ cont # planned => ~FitsRIFF(lay, written)

(* Until it is rewritten, the header on the bound sink is the one that was *)
(* built; a rewrite that fails leaves any prefix of the final one over it. *)
HeadInv ==
    w # NoSink =>
        /\ pc \in {"seekHead", "rewrite", "seekEnd"} => seekable /\ PromiseKept
        /\ ledger[w].sealed => PromiseKept
        /\ err = "nil" =>
              disk[w].head = IF pc = "seekEnd" \/ (ledger[w].sealed /\ seekable)
                             THEN FinalHeader ELSE lay.bytes
        /\ disk[w].stage = "headed" /\ err # "nil" =>
              \/ disk[w].head = lay.bytes
              \/ /\ err = "sink" /\ Patching
                 /\ \E n \in 0..RewrittenFields, m \in Places \cup {1} :
                       disk[w].head = tornHeader(lay.bytes, FinalHeader, n, m)

HeaderInv == BuiltInv /\ HeadInv

-----------------------------------------------------------------------------
(* The header arithmetic.                                                  *)

(* What a reader makes of a header that says d: d, unless d is zero, is    *)
(* beyond belief, or collides with the 32-bit sentinel.                    *)
LEMMA SaysResolves ==
    ASSUME NEW head \in HeaderType, NEW d \in Nat, Says(head, d)
    PROVE  /\ Readable(head)
           /\ resolveDataSize(head) \in {sizeUnknown, d}
           /\ d = 0 => resolveDataSize(head) = sizeUnknown
           /\ d > 0 /\ d <= MaxDataSize /\ (Sized64(head.magic) \/ d < MaxUint32)
                 => resolveDataSize(head) = d
<1>1. MaxDataSize \in Nat /\ MaxUint32 \in Nat /\ head.ds64DataSize \in Nat
      /\ head.dataSize \in Nat /\ head.magic # "torn"
  BY SizeAssumption DEF HeaderType, Says, Containers
<1>2. CASE Sized64(head.magic)
  BY <1>1, <1>2 DEF Says, Readable, resolveDataSize
<1>3. CASE ~Sized64(head.magic)
  BY <1>1, <1>3 DEF Says, Readable, resolveDataSize, sentinel32
<1> QED  BY <1>2, <1>3

(* The fields writeSizesInto stamps and the ones it leaves.                *)
LEMMA StampedFields ==
    ASSUME NEW lay0 \in LayoutType, NEW head \in HeaderType,
           NEW container \in Containers, NEW d \in Nat, NEW f \in Nat
    PROVE  LET new == writeSizesInto(lay0, head, container, d, f)
           IN /\ new.magic = head.magic /\ new.ds64Id = head.ds64Id
              /\ new.blockAlign = head.blockAlign
              /\ new.dataSize = IF Sized64(container) THEN sentinel32 ELSE d
              /\ new.ds64DataSize = IF Sized64(container) THEN d ELSE head.ds64DataSize
              /\ new.ds64SampleCount =
                    IF Sized64(container) THEN f ELSE head.ds64SampleCount
              /\ new.factFrames = IF lay0.hasFact
                                  THEN IF f > MaxUint32 THEN sentinel32 ELSE f
                                  ELSE head.factFrames
<1> DEFINE fact == IF lay0.hasFact
                   THEN IF f > MaxUint32 THEN sentinel32 ELSE f
                   ELSE head.factFrames
<1>1. CASE Sized64(container)
  <2>1. writeSizesInto(lay0, head, container, d, f) =
           [head EXCEPT !.riffSize = sentinel32, !.dataSize = sentinel32,
                        !.ds64RiffSize = riffSizeFor(lay0, d), !.ds64DataSize = d,
                        !.ds64SampleCount = f, !.factFrames = fact]
    BY <1>1 DEF writeSizesInto
  <2> HIDE DEF fact
  <2>2. /\ [head EXCEPT !.riffSize = sentinel32, !.dataSize = sentinel32,
                        !.ds64RiffSize = riffSizeFor(lay0, d), !.ds64DataSize = d,
                        !.ds64SampleCount = f, !.factFrames = fact].factFrames = fact
    BY DEF HeaderType
  <2> QED  BY <1>1, <2>1, <2>2 DEF HeaderType, fact
<1>2. CASE ~Sized64(container)
  <2>1. writeSizesInto(lay0, head, container, d, f) =
           [head EXCEPT !.riffSize = riffSizeFor(lay0, d), !.dataSize = d,
                        !.factFrames = fact]
    BY <1>2 DEF writeSizesInto
  <2> HIDE DEF fact
  <2>2. /\ [head EXCEPT !.riffSize = riffSizeFor(lay0, d), !.dataSize = d,
                        !.factFrames = fact].factFrames = fact
    BY DEF HeaderType
  <2> QED  BY <1>2, <2>1, <2>2 DEF HeaderType, fact
<1> QED  BY <1>1, <1>2

(* What plan decides, and what a header built to the plan says: the        *)
(* promised length, or nothing yet.                                        *)
LEMMA PlanFacts ==
    ASSUME NEW c \in ConfigType, NEW seek \in BOOLEAN
    PROVE  LET p == plan(c, seek)
           IN /\ p.container \in Containers /\ p.reserve \in BOOLEAN
              /\ p.reserve => p.container = "RIFF" /\ c.rf64 = "Auto"
                              /\ ~framesKnown(c) /\ seek
              /\ c.rf64 = "Always" => p.container = "RF64"
              /\ c.rf64 = "Never" => p.container = "RIFF"
              /\ c.rf64 = "Auto" /\ framesKnown(c) =>
                    (p.container = "RIFF" <=> FitsPlainRIFF(c, declaredDataSize(c)))
              /\ c.rf64 = "Auto" /\ ~framesKnown(c) =>
                    p.container = "RIFF" /\ p.reserve = seek
<1>1. c.rf64 \in ModeType
  BY DEF ConfigType
<1>2. CASE c.rf64 = "Always"
  BY <1>2 DEF plan, Containers
<1>3. CASE c.rf64 = "Never"
  BY <1>3 DEF plan, Containers
<1>4. CASE c.rf64 = "Auto" /\ framesKnown(c)
  BY <1>4 DEF plan, Containers
<1>5. CASE c.rf64 = "Auto" /\ ~framesKnown(c)
  BY <1>5 DEF plan, Containers
<1> QED  BY <1>1, <1>2, <1>3, <1>4, <1>5 DEF ModeType

(* The header Reset builds says the promised length, or 0 for unknown, and *)
(* a plain RIFF one has room for it.                                       *)
LEMMA BuiltFacts ==
    ASSUME NEW s \in Sinks, NEW c \in Configs, NEW l, Built(s, c, l)
    PROVE  LET p == plan(c, s \in SeekableSinks)
           IN /\ l \in LayoutType /\ l.bytes \in HeaderType
              /\ l.hasDS64 = (p.container = "RF64" \/ p.reserve)
              /\ l.hasFact = c.float
              /\ l.dataOffset = HeaderLen(c, l.hasDS64) /\ l.dataOffset >= 44
              /\ l.bytes.magic = p.container
              /\ l.bytes.ds64Id = IF p.container = "RF64" THEN "ds64"
                                  ELSE IF p.reserve THEN "JUNK" ELSE "none"
              /\ l.bytes.blockAlign = c.frame
              /\ Says(l.bytes, sizeAtReset(c))
              /\ p.container = "RIFF" =>
                    /\ l.bytes.ds64DataSize = 0 /\ l.bytes.ds64SampleCount = 0
                    /\ sizeAtReset(c) < MaxUint32
              /\ ~c.float => l.bytes.factFrames = 0
<1> DEFINE p == plan(c, s \in SeekableSinks)
           bh == blankHeader(c, p.container, p.reserve)
           bl == blankLayout(c, p.container, p.reserve)
           size == sizeAtReset(c)
           new == writeSizesInto(bl, bh, p.container, size, c.total)
<1>1. /\ c \in ConfigType /\ HasLayout(c) /\ c.total \in Nat
      /\ p.container \in Containers /\ p.reserve \in BOOLEAN
      /\ p.reserve => p.container = "RIFF"
      /\ Rejection(s, c) = "nil"
      /\ l = BuildHeader(c, p.container, p.reserve, size, c.total)
      /\ size \in Nat
  <2>1. c \in ConfigType /\ (s \in SeekableSinks) \in BOOLEAN
    BY EncoderAssumption
  <2>2. HasLayout(c) /\ c.total \in Nat
    BY <2>1, ConfigFacts
  <2>3. Rejection(s, c) = "nil"
        /\ l = BuildHeader(c, p.container, p.reserve, size, c.total)
    BY DEF Built
  <2>4. size \in Nat
    BY <2>3, PromiseIsByteCount
  <2>5. /\ p.container \in Containers /\ p.reserve \in BOOLEAN
        /\ p.reserve => p.container = "RIFF"
    BY <2>1, PlanFacts
  <2> QED  BY <2>1, <2>2, <2>3, <2>4, <2>5
<1>2. CanBuild(c, p.container, p.reserve, size)
  BY DEF Built, Rejection
<1> HIDE DEF p, size
<1>3. (Sized64(p.container) \/ p.reserve) \in BOOLEAN
      /\ Sized64(p.container) = (p.container = "RF64")
  BY <1>1 DEF Sized64, Containers
<1>4. HeaderLen(c, Sized64(p.container) \/ p.reserve) \in Nat
      /\ HeaderLen(c, Sized64(p.container) \/ p.reserve) >= 44
  BY <1>1, <1>3, HeaderLenBounds
<1>5. /\ bh \in HeaderType /\ bh.magic = p.container
      /\ bh.ds64Id = IF p.container = "RF64" THEN "ds64"
                     ELSE IF p.reserve THEN "JUNK" ELSE "none"
      /\ bh.blockAlign = c.frame /\ bh.ds64DataSize = 0 /\ bh.ds64SampleCount = 0
      /\ bh.factFrames = 0
  BY <1>1, <1>3 DEF blankHeader, HeaderType, NoHeader, HasLayout, Containers
<1>6. /\ bl \in LayoutType /\ bl.bytes = bh /\ bl.dataOffset >= 44
      /\ bl.hasDS64 = (p.container = "RF64" \/ p.reserve) /\ bl.hasFact = c.float
      /\ bl.dataOffset = HeaderLen(c, bl.hasDS64)
  BY <1>1, <1>3, <1>4, <1>5 DEF blankLayout, LayoutType, HasLayout
<1> HIDE DEF bh, bl
<1>7. /\ new.magic = bh.magic /\ new.ds64Id = bh.ds64Id /\ new.blockAlign = bh.blockAlign
      /\ new.dataSize = IF Sized64(p.container) THEN sentinel32 ELSE size
      /\ new.ds64DataSize = IF Sized64(p.container) THEN size ELSE bh.ds64DataSize
      /\ new.ds64SampleCount = IF Sized64(p.container) THEN c.total ELSE bh.ds64SampleCount
      /\ ~bl.hasFact => new.factFrames = bh.factFrames
  BY <1>1, <1>5, <1>6, StampedFields
<1>8. new \in HeaderType
  <2>1. bl.dataOffset >= 8
    BY <1>6 DEF LayoutType
  <2> QED  BY <1>1, <1>5, <1>6, <2>1, StampType
<1> HIDE DEF new
<1>9. l = [bl EXCEPT !.bytes = new]
  BY <1>1, <1>6 DEF BuildHeader, new, bl
<1>10. /\ l \in LayoutType /\ l.bytes = new /\ l.hasDS64 = bl.hasDS64
       /\ l.hasFact = bl.hasFact /\ l.dataOffset = bl.dataOffset
  BY <1>6, <1>8, <1>9 DEF LayoutType
<1>11. Says(new, size)
  BY <1>1, <1>3, <1>5, <1>7 DEF Says, haveDS64
<1>12. ASSUME p.container = "RIFF" PROVE size < MaxUint32
  <2>1. riffSizeForLen(bl.dataOffset, size) <= MaxUint32
    BY <1>2, <1>3, <1>12 DEF CanBuild, CanStamp, riffSizeFor, bl
  <2>2. padded(size) \in Nat /\ size <= padded(size) /\ bl.dataOffset \in Nat
    BY <1>1, <1>6, PaddedBounds DEF LayoutType
  <2> QED  BY <1>1, <1>6, <2>1, <2>2, SizeAssumption DEF riffSizeForLen
<1>13. p.container = "RIFF" => ~Sized64(p.container)
  BY <1>3
<1> QED
  BY <1>5, <1>6, <1>7, <1>8, <1>10, <1>11, <1>12, <1>13 DEF p, size

(* The same of the bound sink.                                             *)
LEMMA BoundFacts ==
    ASSUME IInv, BuiltInv, w # NoSink
    PROVE  /\ w \in Sinks /\ cfg \in Configs /\ cfg \in ConfigType
           /\ lay \in LayoutType /\ lay.bytes \in HeaderType
           /\ cont \in Containers /\ planned \in Containers /\ written \in Nat
           /\ sizeAtReset(cfg) \in Nat
           /\ lay.hasFact = cfg.float /\ lay.dataOffset \in Nat /\ lay.dataOffset >= 44
           /\ lay.bytes.magic = planned /\ lay.bytes.blockAlign = cfg.frame
           /\ Says(lay.bytes, sizeAtReset(cfg))
           /\ planned = "RF64" => lay.bytes.ds64Id = "ds64"
           /\ planned = "RIFF" => /\ lay.bytes.ds64Id # "ds64"
                                  /\ lay.bytes.ds64DataSize = 0
                                  /\ lay.bytes.ds64SampleCount = 0
                                  /\ sizeAtReset(cfg) < MaxUint32
           /\ ~cfg.float => lay.bytes.factFrames = 0
           /\ cont # planned => /\ cont = "RF64" /\ planned = "RIFF"
                                /\ cfg.rf64 = "Auto" /\ seekable
                                /\ ~framesKnown(cfg) /\ sizeAtReset(cfg) = 0
                                /\ err = "nil" => ~FitsRIFF(lay, written)
<1> DEFINE p == plan(cfg, w \in SeekableSinks)
<1>1. /\ w \in Sinks /\ cfg \in Configs /\ cfg \in ConfigType
      /\ lay \in LayoutType /\ lay.bytes \in HeaderType
      /\ cont \in Containers /\ written \in Nat /\ Built(w, cfg, lay)
      /\ (w \in SeekableSinks) \in BOOLEAN
  BY EncoderAssumption DEF IInv, Core, TypeOK, BuiltInv, LayoutType
<1>2. planned = p.container /\ seekable = (w \in SeekableSinks)
  BY DEF planned, seekable
<1>3. /\ p.container \in Containers /\ p.reserve \in BOOLEAN
      /\ p.reserve => p.container = "RIFF" /\ cfg.rf64 = "Auto"
                      /\ ~framesKnown(cfg) /\ (w \in SeekableSinks)
  BY <1>1, PlanFacts
<1>4. /\ lay.hasDS64 = (p.container = "RF64" \/ p.reserve)
      /\ lay.hasFact = cfg.float /\ lay.dataOffset >= 44
      /\ lay.bytes.magic = p.container
      /\ lay.bytes.ds64Id = IF p.container = "RF64" THEN "ds64"
                            ELSE IF p.reserve THEN "JUNK" ELSE "none"
      /\ lay.bytes.blockAlign = cfg.frame
      /\ Says(lay.bytes, sizeAtReset(cfg))
      /\ p.container = "RIFF" =>
            /\ lay.bytes.ds64DataSize = 0 /\ lay.bytes.ds64SampleCount = 0
            /\ sizeAtReset(cfg) < MaxUint32
      /\ ~cfg.float => lay.bytes.factFrames = 0
  BY <1>1, BuiltFacts
<1>5. sizeAtReset(cfg) \in Nat
  BY <1>1, PromiseIsByteCount DEF Built
<1>6. lay.dataOffset \in Nat
  BY <1>1 DEF LayoutType
<1> HIDE DEF p
<1>7. cont # planned => /\ cont = "RF64" /\ planned = "RIFF" /\ lay.hasDS64
                        /\ err = "nil" => ~FitsRIFF(lay, written)
  BY DEF BuiltInv, Rescuable
<1>8. cont # planned => p.reserve
  BY <1>2, <1>4, <1>7
<1>9. ~framesKnown(cfg) => sizeAtReset(cfg) = 0
  BY DEF sizeAtReset
<1> QED
  BY <1>1, <1>2, <1>3, <1>4, <1>5, <1>6, <1>7, <1>8, <1>9

(* The header Close stamps says the audio that was written, in the current *)
(* container.                                                              *)
LEMMA FinalFacts ==
    ASSUME IInv, BuiltInv, w # NoSink
    PROVE  /\ FinalHeader \in HeaderType
           /\ FinalHeader.magic = cont
           /\ FinalHeader.ds64Id = IF cont = "RF64" THEN "ds64" ELSE lay.bytes.ds64Id
           /\ Says(FinalHeader, written)
           /\ FinalHeader.blockAlign = cfg.frame
           /\ FinalHeader.ds64DataSize = IF cont = "RF64" THEN written ELSE 0
           /\ FinalHeader.ds64SampleCount \in {0, frames}
           /\ FinalHeader.factFrames \in {0, frames, sentinel32}
           /\ cont = "RIFF" => written < MaxUint32
<1> DEFINE up == [lay.bytes EXCEPT !.magic = cont, !.ds64Id = "ds64"]
<1>1. /\ cfg \in ConfigType /\ lay \in LayoutType /\ lay.bytes \in HeaderType
      /\ cont \in Containers /\ written \in Nat
  BY BoundFacts
<1>2. frames \in Nat /\ cfg.frame \in Nat /\ cfg.frame > 0 /\ cfg.float \in BOOLEAN
  <2>1. cfg.frame \in Nat /\ cfg.frame > 0 /\ cfg.float \in BOOLEAN
    BY <1>1 DEF IInv, Core, CallInv, ConfigType
  <2>2. written \div cfg.frame \in Nat
    BY <1>1, <2>1
  <2> QED  BY <2>1, <2>2 DEF frames
<1>3. /\ lay.hasFact = cfg.float /\ lay.dataOffset \in Nat /\ lay.dataOffset >= 44
      /\ lay.bytes.magic = planned /\ lay.bytes.blockAlign = cfg.frame
      /\ planned = "RF64" => lay.bytes.ds64Id = "ds64"
      /\ planned = "RIFF" => lay.bytes.ds64DataSize = 0 /\ lay.bytes.ds64SampleCount = 0
      /\ ~cfg.float => lay.bytes.factFrames = 0
  BY BoundFacts
<1>4. /\ cont = "RIFF" => planned = "RIFF" /\ ~Upgrading /\ ~Sized64(cont)
      /\ cont = "RF64" => Sized64(cont) /\ (Upgrading \/ planned = "RF64")
  <2>1. planned \in Containers
    BY BoundFacts
  <2>2. Sized64(cont) = (cont = "RF64")
    BY <1>1 DEF Sized64, Containers
  <2>3. cont = "RIFF" => lay.bytes.magic = "RIFF"
    BY DEF IInv, Core, LayoutInv
  <2> QED  BY <1>3, <2>1, <2>2, <2>3 DEF Upgrading, BuiltInv, Rescuable, Containers
<1>5. /\ up \in HeaderType /\ up.magic = cont /\ up.ds64Id = "ds64"
      /\ up.blockAlign = lay.bytes.blockAlign /\ up.factFrames = lay.bytes.factFrames
  BY <1>1 DEF HeaderType
<1>6. PICK head \in HeaderType :
         /\ FinalHeader = writeSizesInto(lay, head, cont, written, frames)
         /\ head.magic = cont /\ head.blockAlign = cfg.frame
         /\ head.ds64Id = IF cont = "RF64" THEN "ds64" ELSE lay.bytes.ds64Id
         /\ head.factFrames = lay.bytes.factFrames
         /\ cont = "RIFF" => head.ds64SampleCount = 0 /\ head.ds64DataSize = 0
  <2>1. CASE Upgrading
    <3>1. FinalHeader = writeSizesInto(lay, up, cont, written, frames)
      BY <2>1 DEF FinalHeader, UpgradeToRF64
    <3> HIDE DEF up
    <3>2. cont = "RF64"
      BY <1>1, <1>4, <2>1 DEF Containers
    <3> QED  BY <1>3, <1>5, <3>1, <3>2
  <2>2. CASE ~Upgrading
    <3>1. FinalHeader = writeSizesInto(lay, lay.bytes, cont, written, frames)
      BY <2>2 DEF FinalHeader, PatchSizes
    <3>2. cont = planned
      BY <1>1, <1>4, <2>2 DEF Containers
    <3> QED  BY <1>1, <1>3, <3>1, <3>2
  <2> QED  BY <2>1, <2>2
<1> HIDE DEF up
<1> DEFINE new == writeSizesInto(lay, head, cont, written, frames)
<1>7. /\ new.magic = head.magic /\ new.ds64Id = head.ds64Id
      /\ new.blockAlign = head.blockAlign
      /\ new.dataSize = IF Sized64(cont) THEN sentinel32 ELSE written
      /\ new.ds64DataSize = IF Sized64(cont) THEN written ELSE head.ds64DataSize
      /\ new.ds64SampleCount = IF Sized64(cont) THEN frames ELSE head.ds64SampleCount
      /\ new.factFrames = IF lay.hasFact
                          THEN IF frames > MaxUint32 THEN sentinel32 ELSE frames
                          ELSE head.factFrames
  BY <1>1, <1>2, StampedFields
<1>8. new \in HeaderType
  <2>1. lay.dataOffset >= 8
    BY <1>3
  <2> QED  BY <1>1, <1>2, <2>1, StampType
<1>9. new = FinalHeader
  BY <1>6
<1> HIDE DEF new
<1>10. Says(new, written)
  BY <1>1, <1>4, <1>6, <1>7 DEF Says, haveDS64, Containers
<1>11. cont = "RIFF" => written < MaxUint32
  <2> SUFFICES ASSUME cont = "RIFF" PROVE written < MaxUint32
    OBVIOUS
  <2>1. riffSizeForLen(lay.dataOffset, written) <= MaxUint32
    BY DEF IInv, Core, LayoutInv, FitsRIFF, fitsRIFF
  <2>2. padded(written) \in Nat /\ written <= padded(written)
    BY <1>1, PaddedBounds
  <2> QED  BY <1>1, <1>3, <2>1, <2>2, SizeAssumption DEF riffSizeForLen
<1>12. new.ds64DataSize = IF cont = "RF64" THEN written ELSE 0
  BY <1>1, <1>4, <1>6, <1>7 DEF Containers
<1>13. new.ds64SampleCount \in {0, frames} /\ new.factFrames \in {0, frames, sentinel32}
  BY <1>1, <1>3, <1>4, <1>6, <1>7 DEF Containers
<1> QED
  BY <1>6, <1>7, <1>8, <1>9, <1>10, <1>11, <1>12, <1>13

(* A number torn between zero, or itself, and the new one is not beyond it.*)
LEMMA TornBetween ==
    ASSUME NEW a \in Nat, NEW b \in Nat, a = 0 \/ a = b,
           NEW i, NEW n, NEW m \in Nat \ {0}
    PROVE  tornField(i, a, b, n, m) \in 0..b /\ (a = b => tornField(i, a, b, n, m) = b)
<1>1. tornNumber(0, b, m) \in 0..b /\ tornNumber(b, b, m) = b /\ 0 \in 0..b /\ b \in 0..b
  BY TornNumber
<1>2. tornField(i, a, b, n, m) \in {a, b, tornNumber(a, b, m)}
  BY TornField
<1> QED  BY <1>1, <1>2

(* A rewrite torn at any byte says a length up to the audio that was       *)
(* written, which is exact if it was promised, or, while the magic and the *)
(* identifier of an upgrade are being changed, nothing at all.             *)
LEMMA TornFacts ==
    ASSUME IInv, BuiltInv, w # NoSink, PromiseExact, NEW n \in 0..RewrittenFields,
           NEW m \in Places \cup {1}
    PROVE  LET torn == tornHeader(lay.bytes, FinalHeader, n, m)
           IN /\ torn \in HeaderType /\ torn.ds64DataSize \in 0..written
              /\ \/ \E d \in 0..written :
                       /\ Says(torn, d) /\ Readable(torn)
                       /\ torn.magic \in {planned, cont}
                       /\ framesKnown(cfg) => d = written
                 \/ ~Readable(torn) /\ cont # planned
<1> DEFINE torn == tornHeader(lay.bytes, FinalHeader, n, m)
           old == lay.bytes
           new == FinalHeader
           size == sizeAtReset(cfg)
           dd == tornField(5, old.ds64DataSize, new.ds64DataSize, n, m)
           d32 == tornField(8, old.dataSize, new.dataSize, n, m)
<1> SUFFICES /\ torn \in HeaderType /\ torn.ds64DataSize \in 0..written
             /\ \/ \E d \in 0..written :
                      /\ Says(torn, d) /\ Readable(torn)
                      /\ torn.magic \in {planned, cont}
                      /\ framesKnown(cfg) => d = written
                \/ ~Readable(torn) /\ cont # planned
  OBVIOUS
<1>1. /\ cont \in Containers /\ planned \in Containers /\ written \in Nat
      /\ cont # planned => cont = "RF64" /\ planned = "RIFF" /\ ~framesKnown(cfg)
  BY BoundFacts
<1>2. /\ old \in HeaderType /\ old.magic = planned /\ Says(old, size)
      /\ planned = "RF64" => old.ds64Id = "ds64"
      /\ planned = "RIFF" => old.ds64Id # "ds64" /\ old.ds64DataSize = 0
  BY BoundFacts
<1>3. /\ new \in HeaderType /\ new.magic = cont /\ Says(new, written)
      /\ new.ds64Id = IF cont = "RF64" THEN "ds64" ELSE old.ds64Id
      /\ new.ds64DataSize = IF cont = "RF64" THEN written ELSE 0
  BY FinalFacts
<1>4. size \in {0, written} /\ (framesKnown(cfg) => size = written)
  BY DEF PromiseExact, sizeAtReset
<1>5. n \in Nat /\ m \in Nat \ {0}
  BY EncoderAssumption
<1> HIDE DEF old, new, size
<1>6. /\ torn \in HeaderType
      /\ torn.magic = tornMagic(old.magic, new.magic, n, m)
      /\ torn.ds64Id = IF n >= 3 THEN new.ds64Id ELSE old.ds64Id
      /\ torn.ds64DataSize = dd /\ torn.dataSize = d32
  <2>1. torn = tornHeader(old, new, n, m)
    BY DEF old, new
  <2> HIDE DEF torn
  <2> QED  BY <1>2, <1>3, <1>5, <2>1, TornType
<1> HIDE DEF torn
<1>7. /\ old.ds64DataSize \in Nat /\ new.ds64DataSize \in Nat
      /\ old.dataSize \in Nat /\ new.dataSize \in Nat
  BY <1>2, <1>3 DEF HeaderType
<1>8. \A c \in Containers : Sized64(c) = (c = "RF64")
  BY DEF Sized64, Containers
<1>9. old.ds64DataSize = 0 \/ old.ds64DataSize = new.ds64DataSize
  <2>1. planned = "RF64" => old.ds64DataSize = size /\ cont = "RF64"
    BY <1>1, <1>2, <1>8 DEF Says
  <2> QED  BY <1>1, <1>2, <1>3, <1>4, <2>1 DEF Containers
<1>10. /\ dd \in 0..new.ds64DataSize
       /\ old.ds64DataSize = new.ds64DataSize => dd = new.ds64DataSize
  <2>1. \A a, b \in Nat : a = 0 \/ a = b =>
           /\ tornField(5, a, b, n, m) \in 0..b
           /\ a = b => tornField(5, a, b, n, m) = b
    BY <1>5, TornBetween
  <2> QED  BY <1>7, <1>9, <2>1
<1> HIDE DEF dd, d32
<1>11. dd \in 0..written
  BY <1>1, <1>3, <1>7, <1>10
<1>12. CASE cont = planned
  <2>1. torn.magic = cont /\ torn.magic # "torn" /\ torn.ds64Id = old.ds64Id
    BY <1>1, <1>2, <1>3, <1>6, <1>12 DEF tornMagic, Containers
  <2>2. CASE cont = "RF64"
    <3>1. haveDS64(torn) /\ Says(torn, dd) /\ Readable(torn)
      BY <1>1, <1>2, <1>6, <1>8, <1>12, <2>1, <2>2 DEF Says, Readable, haveDS64
    <3>2. framesKnown(cfg) => dd = written
      <4>1. old.ds64DataSize = size
        BY <1>1, <1>2, <1>8, <1>12, <2>2 DEF Says
      <4> QED  BY <1>3, <1>4, <1>10, <2>2, <4>1
    <3> QED  BY <1>6, <1>11, <2>1, <3>1, <3>2
  <2>3. CASE cont = "RIFF"
    <3>1. Says(torn, d32) /\ Readable(torn)
      BY <1>1, <1>6, <1>8, <2>1, <2>3 DEF Says, Readable
    <3>2. old.dataSize = size /\ new.dataSize = written
      BY <1>1, <1>2, <1>3, <1>8, <1>12, <2>3 DEF Says
    <3>3. d32 \in 0..written /\ (framesKnown(cfg) => d32 = written)
      <4>1. 8 \in Nat /\ (size = 0 \/ size = written) /\ size \in Nat
        BY <1>4, <1>7, <3>2
      <4>2. d32 = tornField(8, size, written, n, m)
        BY <3>2 DEF d32
      <4>3. /\ tornField(8, size, written, n, m) \in 0..written
            /\ size = written => tornField(8, size, written, n, m) = written
        <5>1. \A a, b \in Nat : a = 0 \/ a = b =>
                 /\ tornField(8, a, b, n, m) \in 0..b
                 /\ a = b => tornField(8, a, b, n, m) = b
          BY <1>5, TornBetween
        <5> QED  BY <1>1, <4>1, <5>1
      <4> QED  BY <1>4, <4>2, <4>3
    <3> QED  BY <1>6, <1>11, <2>1, <3>1, <3>3
  <2> QED  BY <1>1, <2>2, <2>3 DEF Containers
<1>13. CASE cont # planned
  <2>1. /\ cont = "RF64" /\ planned = "RIFF" /\ Sized64("RF64") /\ ~Sized64("RIFF")
        /\ ~framesKnown(cfg)
    BY <1>1, <1>8, <1>13 DEF Containers
  <2>2. CASE n < 1 /\ ~(m > 1)
    <3>1. torn.magic = "RIFF" /\ torn.dataSize = old.dataSize
      <4>1. n = 0 /\ m = 1
        BY <1>5, <2>2
      <4> QED  BY <1>2, <1>6, <2>1, <4>1 DEF tornMagic, tornField, d32
    <3>2. Says(torn, size) /\ Readable(torn)
      BY <1>1, <1>2, <2>1, <3>1 DEF Says, Readable
    <3>3. size \in 0..written
      BY <1>1, <1>4
    <3> QED  BY <1>6, <1>11, <2>1, <3>1, <3>2, <3>3
  <2>3. CASE n < 1 /\ m > 1
    <3>1. torn.magic = "torn"
      BY <1>2, <1>3, <1>5, <1>6, <2>1, <2>3 DEF tornMagic
    <3> QED  BY <1>6, <1>11, <1>13, <3>1 DEF Readable
  <2>4. CASE n >= 1 /\ n < 3
    <3>1. torn.magic = "RF64" /\ torn.ds64Id # "ds64"
      BY <1>2, <1>3, <1>5, <1>6, <2>1, <2>4 DEF tornMagic
    <3> QED  BY <1>6, <1>11, <1>13, <2>1, <3>1 DEF Readable, haveDS64
  <2>5. CASE n >= 3
    <3>1. torn.magic = "RF64" /\ torn.ds64Id = "ds64"
      BY <1>3, <1>5, <1>6, <2>1, <2>5 DEF tornMagic
    <3>2. Says(torn, dd) /\ Readable(torn)
      BY <1>1, <1>6, <2>1, <3>1 DEF Says, Readable, haveDS64
    <3> QED  BY <1>6, <1>11, <2>1, <3>1, <3>2
  <2> QED  BY <1>5, <2>2, <2>3, <2>4, <2>5
<1> QED  BY <1>12, <1>13

(* Two headers are the same when all their fields are.                     *)
LEMMA SameHeader ==
    ASSUME NEW a \in HeaderType, NEW b \in HeaderType,
           a.magic = b.magic, a.riffSize = b.riffSize, a.ds64Id = b.ds64Id,
           a.ds64RiffSize = b.ds64RiffSize, a.ds64DataSize = b.ds64DataSize,
           a.ds64SampleCount = b.ds64SampleCount, a.blockAlign = b.blockAlign,
           a.factFrames = b.factFrames, a.dataSize = b.dataSize
    PROVE  a = b
<1> DEFINE rec(h) ==
       [magic |-> h.magic, riffSize |-> h.riffSize, ds64Id |-> h.ds64Id,
        ds64RiffSize |-> h.ds64RiffSize, ds64DataSize |-> h.ds64DataSize,
        ds64SampleCount |-> h.ds64SampleCount, blockAlign |-> h.blockAlign,
        factFrames |-> h.factFrames, dataSize |-> h.dataSize]
<1>1. a = rec(a) /\ b = rec(b)
  BY DEF HeaderType
<1>2. rec(a) = rec(b)
  OBVIOUS
<1> QED  BY <1>1, <1>2

(* A rewrite that only failed after its last field is complete.            *)
LEMMA TornWhole ==
    ASSUME NEW old \in HeaderType, NEW new \in HeaderType,
           old.blockAlign = new.blockAlign, NEW m
    PROVE  tornHeader(old, new, RewrittenFields, m) = new
<1> DEFINE torn == [old EXCEPT !.magic = new.magic, !.riffSize = new.riffSize,
                     !.ds64Id = new.ds64Id, !.ds64RiffSize = new.ds64RiffSize,
                     !.ds64DataSize = new.ds64DataSize,
                     !.ds64SampleCount = new.ds64SampleCount,
                     !.factFrames = new.factFrames, !.dataSize = new.dataSize]
<1>1. tornHeader(old, new, RewrittenFields, m) = torn
  BY DEF tornHeader, tornMagic, tornField, RewrittenFields
<1>2. /\ torn \in HeaderType /\ torn.magic = new.magic /\ torn.riffSize = new.riffSize
      /\ torn.ds64Id = new.ds64Id /\ torn.ds64RiffSize = new.ds64RiffSize
      /\ torn.ds64DataSize = new.ds64DataSize /\ torn.blockAlign = new.blockAlign
      /\ torn.ds64SampleCount = new.ds64SampleCount
      /\ torn.factFrames = new.factFrames /\ torn.dataSize = new.dataSize
  BY DEF HeaderType
<1> HIDE DEF torn
<1> QED  BY <1>1, <1>2, SameHeader

-----------------------------------------------------------------------------
(* The invariant, step by step.                                            *)

(* The final header is a function of the stream, not of the call.          *)
LEMMA SameStream ==
    ASSUME UNCHANGED <<w, cfg, cont, lay, written>>
    PROVE  /\ FinalHeader' = FinalHeader /\ planned' = planned
           /\ seekable' = seekable /\ PromiseKept' = PromiseKept
           /\ FitsRIFF(lay, written)' = FitsRIFF(lay, written)
           /\ PromiseExact' = PromiseExact
           /\ \A n, m : tornHeader(lay.bytes, FinalHeader, n, m)'
                           = tornHeader(lay.bytes, FinalHeader, n, m)
  BY DEF FinalHeader, Upgrading, planned, seekable, PromiseKept, frames, FitsRIFF,
         PromiseExact, framesKnown, sizeAtReset, declaredDataSize

(* While the stream stays, so does what is known of its header.            *)
LEMMA BuiltKeeps ==
    ASSUME BuiltInv, UNCHANGED <<w, cfg, cont, lay, written>>, err' = "nil" => err = "nil"
    PROVE  BuiltInv'
  BY DEF BuiltInv, planned, Rescuable, seekable, Built, FitsRIFF

(* A sink call of Write flips the container only when the length needs it, *)
(* and only where the header can be upgraded.                              *)
LEMMA EmitBuilt ==
    ASSUME IInv, BuiltInv, w # NoSink, err = "nil", NEW buf \in Seq(Nat), NEW e, emit(buf, e),
           UNCHANGED <<w, cfg, lay>>, err' = "nil" => e = "nil"
    PROVE  BuiltInv'
<1> DEFINE next == written + Len(buf)
<1>1. /\ written \in Nat /\ Len(buf) \in Nat /\ next \in Nat /\ lay.dataOffset \in Nat
      /\ cont \in Containers /\ planned \in Containers
      /\ cfg \in Configs /\ Built(w, cfg, lay)
  BY BoundFacts, LenProperties DEF BuiltInv
<1>2. /\ planned' = planned /\ Rescuable' = Rescuable
      /\ cfg' \in Configs /\ Built(w, cfg, lay)'
  BY <1>1 DEF planned, Rescuable, seekable, Built
<1>3. CASE e = "tooLarge" /\ UNCHANGED <<written, cont, disk>>
  BY <1>3, BuiltKeeps
<1>4. CASE ~TooLarge(next) /\ cont' = ContainerFor(next) /\ (e = "nil" => written' = next)
  <2>1. CASE ~Sized64(cont) /\ ~FitsRIFF(lay, next)
    <3>1. cont' = "RF64" /\ Rescuable
      BY <1>4, <2>1 DEF TooLarge, ContainerFor
    <3>2. cont = "RIFF"
      BY <1>1, <2>1 DEF Sized64, Containers
    <3>3. planned = "RIFF"
      BY <3>2 DEF BuiltInv
    <3>4. e = "nil" => ~FitsRIFF(lay, written')
      BY <1>4, <2>1
    <3> QED  BY <1>2, <3>1, <3>3, <3>4 DEF BuiltInv, FitsRIFF
  <2>2. CASE ~(~Sized64(cont) /\ ~FitsRIFF(lay, next))
    <3>1. cont' = cont
      BY <1>4, <2>2 DEF ContainerFor
    <3>2. ~FitsRIFF(lay, written) => ~FitsRIFF(lay, next)
      BY <1>1, FitsIsDownwardClosed DEF FitsRIFF
    <3>3. cont # planned /\ e = "nil" => ~FitsRIFF(lay, written')
      <4>1. cont # planned => ~FitsRIFF(lay, written)
        BY BoundFacts
      <4> QED  BY <1>4, <3>2, <4>1
    <3> QED  BY <1>2, <3>1, <3>3 DEF BuiltInv, FitsRIFF
  <2> QED  BY <2>1, <2>2
<1> QED  BY <1>1, <1>3, <1>4 DEF emit

(* The header on the bound sink while the stream has not failed and Close  *)
(* has not rewritten it.                                                   *)
LEMMA Unpatched ==
    ASSUME IInv, FinalInv, HeaderInv, w # NoSink, err = "nil", pc # "seekEnd",
           pc # "idle" \/ ~closed
    PROVE  /\ disk[w].head = lay.bytes /\ ~ledger[w].sealed
           /\ w \in Sinks /\ disk \in [Sinks -> FileType] /\ disk[w] \in FileType
           /\ ledger \in [Sinks -> EntryType] /\ ledger[w] \in EntryType
           /\ disk[w].stage = "headed" /\ lay.bytes \in HeaderType
<1>1. /\ w \in Sinks /\ disk \in [Sinks -> FileType] /\ disk[w] \in FileType
      /\ ledger \in [Sinks -> EntryType] /\ ledger[w] \in EntryType
      /\ disk[w].stage = "headed" /\ lay.bytes \in HeaderType
  BY DEF IInv, Core, TypeOK, MediumInv, LayoutType
<1>2. ~ledger[w].sealed
  BY <1>1 DEF FinalInv, SealInv
<1> QED  BY <1>1, <1>2 DEF HeaderInv, HeadInv

(* Fresh from Reset: the header is as it was built.                        *)
LEMMA ResetBindsHeader ==
    ASSUME IInv, FinalInv, NEW s \in Sinks, NEW c \in Configs, ResetBinds(s, c)
    PROVE  HeaderInv'
<1>1. /\ w' = s /\ cfg' = c /\ disk[s].stage = "blank" /\ pc' = "idle"
      /\ ledger'[s].sealed = ledger[s].sealed
      /\ \/ disk'[s].stage = "headed" /\ disk'[s].head = lay'.bytes
         \/ err' = "sink" /\ disk'[s].stage \in {"blank", "stub"}
  BY ResetBindsFacts
<1>2. ~ledger[s].sealed
  BY <1>1 DEF FinalInv, SealInv
<1>3. BuiltInv'
  <2>1. Built(s, c, lay') /\ cont' = plan(c, s \in SeekableSinks).container
    BY DEF ResetBinds, Built
  <2> QED  BY <1>1, <2>1 DEF BuiltInv, planned, seekable, Built
<1>4. HeadInv'
  BY <1>1, <1>2 DEF HeadInv
<1> QED  BY <1>3, <1>4 DEF HeaderInv

(* While Write runs the header stays what was built.                       *)
LEMMA WriteKeepsHeader ==
    ASSUME w' = w, BuiltInv', disk'[w].head = lay'.bytes, ~ledger'[w].sealed,
           pc' \in {"idle", "emitCarry", "emitAligned", "pad", "verify"}
    PROVE  HeaderInv'
<1>1. HeadInv'
  BY DEF HeadInv
<1> QED  BY <1>1 DEF HeaderInv

(* The first half of Write touches no sink.                                *)
LEMMA WriteBeginHeader ==
    ASSUME IInv, FinalInv, HeaderInv, NEW n \in WriteSizes, WriteBegin(n)
    PROVE  HeaderInv'
<1>1. /\ pc = "idle" /\ err = "nil" /\ ~closed /\ w # NoSink
      /\ ledger' = [ledger EXCEPT ![w].sent = @ + n]
      /\ UNCHANGED <<w, cfg, cont, lay, written, err, disk>>
      /\ pc' \in {"idle", "emitCarry", "emitAligned"}
  BY DEF WriteBegin, Return, Continue
<1>2. /\ disk[w].head = lay.bytes /\ ~ledger[w].sealed
      /\ w \in Sinks /\ ledger \in [Sinks -> EntryType] /\ ledger[w] \in EntryType
  BY <1>1, Unpatched
<1>3. ~ledger'[w].sealed
  <2>1. ledger'[w] = [ledger[w] EXCEPT !.sent = @ + n]
    BY <1>1, <1>2
  <2> QED  BY <1>2, <2>1 DEF EntryType
<1> QED  BY <1>1, <1>2, <1>3, BuiltKeeps, WriteKeepsHeader DEF HeaderInv

(* A sink call of Write leaves the header alone.                           *)
LEMMA EmitHeader ==
    ASSUME IInv, FinalInv, HeaderInv, EmitCarry \/ EmitAligned
    PROVE  HeaderInv'
<1>1. /\ pc \in {"emitCarry", "emitAligned"} /\ err = "nil" /\ w # NoSink /\ ~closed
      /\ UNCHANGED <<w, cfg, lay, ledger>>
      /\ pc' \in {"idle", "emitAligned"}
  BY DEF EmitCarry, EmitAligned, IInv, Core, CallInv, Return, Fail, Continue
<1>2. /\ disk[w].head = lay.bytes /\ ~ledger[w].sealed
      /\ w \in Sinks /\ disk \in [Sinks -> FileType] /\ disk[w] \in FileType
  BY <1>1, Unpatched
<1>3. /\ carry \in Seq(Nat) /\ pend \in Seq(Nat) /\ cfg.frame \in Nat /\ cfg.frame > 0
      /\ Len(pend) \in Nat
  BY <1>1, ConfigFacts, LenProperties DEF IInv, Core, TypeOK, CallInv
<1>4. \/ UNCHANGED <<written, cont, disk>> /\ err' = err
      \/ \E buf \in Seq(Nat) : \E e : emit(buf, e) /\ (err' = "nil" => e = "nil")
  <2>1. CASE EmitCarry
    BY <1>1, <1>3, <2>1 DEF EmitCarry, Fail, Latched
  <2>2. CASE EmitAligned
    <3> DEFINE whole == Len(pend) - (Len(pend) % cfg.frame)
    <3>1. SubSeq(pend, 1, whole) \in Seq(Nat)
      <4>1. Len(pend) % cfg.frame \in Nat /\ Len(pend) % cfg.frame <= Len(pend)
        BY <1>3, Remainder
      <4>2. whole \in 0 .. Len(pend)
        BY <1>3, <4>1
      <4> HIDE DEF whole
      <4> QED  BY <1>3, <4>2, SubSeqProperties, ElementOfSeq
    <3>2. PICK e \in EmitResults :
             /\ IF whole > 0
                THEN emit(SubSeq(pend, 1, whole), e)
                ELSE e = "nil" /\ UNCHANGED <<written, cont, disk>>
             /\ IF e = "nil" THEN err' = err ELSE Fail("Write", done, e)
      BY <2>2 DEF EmitAligned
    <3>3. e # "nil" => err' # "nil"
      BY <1>1, <3>2 DEF Fail, Latched
    <3> HIDE DEF whole
    <3> QED  BY <3>1, <3>2, <3>3
  <2> QED  BY <2>1, <2>2
<1>5. disk'[w].head = disk[w].head
  <2>1. \/ disk' = disk
        \/ \E buf, k : disk' = [disk EXCEPT ![w].audio = @ \o SubSeq(buf, 1, k)]
    BY <1>4 DEF emit
  <2>2. ASSUME NEW buf, NEW k, disk' = [disk EXCEPT ![w].audio = @ \o SubSeq(buf, 1, k)]
        PROVE  disk'[w].head = disk[w].head
    <3>1. disk'[w] = [disk[w] EXCEPT !.audio = @ \o SubSeq(buf, 1, k)]
      BY <1>2, <2>2
    <3> QED  BY <1>2, <3>1 DEF FileType
  <2> QED  BY <2>1, <2>2
<1>6. BuiltInv'
  BY <1>1, <1>4, EmitBuilt, BuiltKeeps DEF HeaderInv
<1> QED  BY <1>1, <1>2, <1>5, <1>6, WriteKeepsHeader

(* Calls refused at once leave the header and what is known of it.         *)
LEMMA RefusedHeader ==
    ASSUME HeaderInv, UNCHANGED <<encoder, disk, ledger>>, pc = "idle", pc' = "idle"
    PROVE  HeaderInv'
<1>1. UNCHANGED <<w, cfg, cont, lay, written, closed, err>>
  BY DEF encoder
<1>2. BuiltInv'
  BY <1>1, BuiltKeeps DEF HeaderInv
<1>3. HeadInv'
  <2>1. Patching' = Patching
    BY <1>1, SameStream DEF Patching, FitsRIFF
  <2> QED  BY <1>1, <2>1, SameStream DEF HeaderInv, HeadInv
<1> QED  BY <1>2, <1>3 DEF HeaderInv

(* Closing touches the header last.                                        *)
LEMMA CloseBeginHeader ==
    ASSUME IInv, FinalInv, HeaderInv, CloseBegin
    PROVE  HeaderInv'
<1>1. /\ pc = "idle" /\ ~closed /\ w # NoSink
      /\ UNCHANGED <<w, cfg, cont, lay, written, disk, ledger>>
      /\ pc' \in {"idle", "pad", "verify"}
      /\ err' = "nil" => err = "nil"
  BY DEF CloseBegin, Return, Fail, Latched, Continue
<1>2. BuiltInv'
  BY <1>1, BuiltKeeps DEF HeaderInv
<1>3. ~ledger[w].sealed
  BY <1>1 DEF FinalInv, SealInv, IInv, Core, TypeOK
<1>4. disk[w].stage = "headed" => disk[w].head = lay.bytes
  BY <1>1, <1>3 DEF HeaderInv, HeadInv, Patching
<1>5. err' = "nil" => disk[w].stage = "headed"
  BY <1>1 DEF IInv, Core, MediumInv
<1>6. HeadInv'
  BY <1>1, <1>3, <1>4, <1>5 DEF HeadInv
<1> QED  BY <1>2, <1>6 DEF HeaderInv

(* The pad byte goes behind the audio, not into the header.                *)
LEMMA WritePadHeader ==
    ASSUME IInv, FinalInv, HeaderInv, WritePad
    PROVE  HeaderInv'
<1>1. /\ pc = "pad" /\ err = "nil" /\ w # NoSink
      /\ UNCHANGED <<w, cfg, cont, lay, written, ledger>>
      /\ pc' \in {"idle", "verify"}
  BY DEF WritePad, IInv, Core, CallInv, Fail, Return, Continue
<1>2. /\ disk[w].head = lay.bytes /\ ~ledger[w].sealed
      /\ w \in Sinks /\ disk \in [Sinks -> FileType] /\ disk[w] \in FileType
  BY <1>1, Unpatched
<1>3. disk'[w].head = lay.bytes
  <2>1. PICK pad \in 0..1 : disk' = [disk EXCEPT ![w].pad = pad]
    BY DEF WritePad
  <2>2. disk'[w] = [disk[w] EXCEPT !.pad = pad]
    BY <1>2, <2>1
  <2> QED  BY <1>2, <2>2 DEF FileType
<1>4. BuiltInv'
  BY <1>1, BuiltKeeps DEF HeaderInv
<1> QED  BY <1>1, <1>2, <1>3, <1>4, WriteKeepsHeader

(* Only a kept promise gets past Verify; what cannot seek is sealed with   *)
(* the header it has.                                                      *)
LEMMA VerifyHeader ==
    ASSUME IInv, FinalInv, HeaderInv, Verify
    PROVE  HeaderInv'
<1>1. /\ pc = "verify" /\ err = "nil" /\ w # NoSink
      /\ UNCHANGED <<w, cfg, cont, lay, written, closed, disk>>
  BY DEF Verify, IInv, Core, CallInv
<1>2. /\ disk[w].head = lay.bytes /\ ~ledger[w].sealed
      /\ w \in Sinks /\ ledger \in [Sinks -> EntryType] /\ ledger[w] \in EntryType
  BY <1>1, Unpatched
<1>3. BuiltInv'
  BY <1>1, BuiltKeeps DEF HeaderInv
<1>4. /\ FinalHeader' = FinalHeader /\ seekable' = seekable /\ PromiseKept' = PromiseKept
  BY <1>1, SameStream
<1>5. CanFinalise
  BY <1>1, FinaliseIsPossible
<1>6. PromiseKept <=> ~(cfg.total > 0 /\ frames # cfg.total)
  BY DEF PromiseKept
<1>7. CASE ledger' = ledger /\ pc' = "idle"
  BY <1>1, <1>2, <1>3, <1>7 DEF HeaderInv, HeadInv
<1>8. CASE PromiseKept /\ ~seekable /\ Return("Close", 0, "nil") /\ Seal /\ UNCHANGED err
  BY <1>1, <1>2, <1>3, <1>4, <1>8 DEF HeaderInv, HeadInv, Return
<1>9. CASE PromiseKept /\ seekable /\ pc' = "seekHead" /\ ledger' = ledger
  BY <1>1, <1>2, <1>3, <1>4, <1>9 DEF HeaderInv, HeadInv
<1> QED
  BY <1>5, <1>6, <1>7, <1>8, <1>9 DEF Verify, Fail, Return, Continue

(* A failed seek leaves the header that was built.                         *)
LEMMA SeekHeadHeader ==
    ASSUME IInv, FinalInv, HeaderInv, SeekHead
    PROVE  HeaderInv'
<1>1. /\ pc = "seekHead" /\ err = "nil" /\ w # NoSink
      /\ UNCHANGED <<w, cfg, cont, lay, written, disk, ledger>>
      /\ pc' \in {"idle", "rewrite"}
  BY DEF SeekHead, IInv, Core, CallInv, Fail, Return, Continue
<1>2. /\ disk[w].head = lay.bytes /\ ~ledger[w].sealed /\ seekable /\ PromiseKept
  BY <1>1, Unpatched DEF HeaderInv, HeadInv
<1>3. BuiltInv'
  BY <1>1, BuiltKeeps DEF HeaderInv
<1>4. seekable' = seekable /\ PromiseKept' = PromiseKept
  BY <1>1, SameStream
<1>5. HeadInv'
  BY <1>1, <1>2, <1>4 DEF HeadInv
<1> QED  BY <1>3, <1>5 DEF HeaderInv

(* A kept promise is the number of bytes written.                          *)
LEMMA KeptPromise ==
    ASSUME IInv, AudioInv, w # NoSink, err = "nil", PromiseKept, framesKnown(cfg)
    PROVE  sizeAtReset(cfg) = written /\ written > 0
<1>1. /\ written \in Nat /\ written % cfg.frame = 0 /\ cfg.frame \in Nat /\ cfg.frame > 0
  BY StreamFacts
<1>2. written = (written \div cfg.frame) * cfg.frame /\ written \div cfg.frame \in Nat
  BY <1>1, WholeFrames
<1>3. frames = cfg.total /\ cfg.total > 0 /\ frames = written \div cfg.frame
  BY <1>1 DEF PromiseKept, framesKnown, frames
<1>4. cfg.total \in Nat
  BY <1>2, <1>3
<1>5. written = cfg.total * cfg.frame
  BY <1>2, <1>3
<1>6. cfg.total * cfg.frame > 0
  BY <1>1, <1>3, <1>4
<1> QED  BY <1>5, <1>6 DEF sizeAtReset, declaredDataSize

(* What Close may rewrite: the promise is kept, and the container moved    *)
(* only because the audio needs it.                                        *)
LEMMA MayPatch ==
    ASSUME IInv, AudioInv, HeaderInv, w # NoSink, err = "nil", closed,
           pc \in {"seekHead", "rewrite", "seekEnd"}
    PROVE  Patching
<1>1. cont # planned => ~FitsRIFF(lay, written)
  BY BoundFacts DEF HeaderInv
<1>2. seekable /\ PromiseKept
  BY DEF HeaderInv, HeadInv
<1>3. PromiseExact
  BY <1>2, KeptPromise DEF PromiseExact
<1> QED  BY <1>1, <1>2, <1>3 DEF Patching

(* The rewrite replaces the header, or as much of it as the sink took.     *)
LEMMA RewriteHeadHeader ==
    ASSUME IInv, FinalInv, AudioInv, HeaderInv, RewriteHead
    PROVE  HeaderInv'
<1>1. /\ pc = "rewrite" /\ err = "nil" /\ w # NoSink /\ closed
      /\ UNCHANGED <<w, cfg, cont, lay, written, closed, ledger>>
  BY DEF RewriteHead, IInv, Core, CallInv
<1>2. /\ disk[w].head = lay.bytes /\ ~ledger[w].sealed
      /\ w \in Sinks /\ disk \in [Sinks -> FileType] /\ disk[w] \in FileType
  BY <1>1, Unpatched
<1>3. BuiltInv'
  <2>1. err' = "nil" => err = "nil"
    BY <1>1
  <2> QED  BY <1>1, <2>1, BuiltKeeps DEF HeaderInv
<1>4. Patching
  BY <1>1, MayPatch
<1>5. /\ FinalHeader' = FinalHeader /\ seekable' = seekable /\ PromiseKept' = PromiseKept
      /\ Patching' = Patching
  BY <1>1, SameStream DEF Patching, FitsRIFF
<1>6. \A head : disk' = [disk EXCEPT ![w].head = head] => disk'[w].head = head
  <2> TAKE head
  <2> HAVE disk' = [disk EXCEPT ![w].head = head]
  <2>1. disk'[w] = [disk[w] EXCEPT !.head = head]
    BY <1>2
  <2> QED  BY <1>2, <2>1 DEF FileType
<1>7. CASE /\ disk' = [disk EXCEPT ![w].head = FinalHeader]
           /\ Continue("seekEnd") /\ UNCHANGED err
  <2>1. disk'[w].head = FinalHeader /\ pc' = "seekEnd" /\ err' = "nil"
    BY <1>1, <1>6, <1>7 DEF Continue
  <2>2. HeadInv'
    BY <1>1, <1>2, <1>4, <1>5, <2>1 DEF HeadInv, Patching
  <2> QED  BY <1>3, <2>2 DEF HeaderInv
<1>8. ASSUME NEW n \in 0..RewrittenFields, NEW m \in Places \cup {1},
             Fail("Close", 0, "sink"),
             disk' = [disk EXCEPT ![w].head = tornHeader(@, FinalHeader, n, m)]
      PROVE  HeaderInv'
  <2>1. disk' = [disk EXCEPT ![w].head = tornHeader(lay.bytes, FinalHeader, n, m)]
    BY <1>2, <1>8
  <2>2. disk'[w].head = tornHeader(lay.bytes, FinalHeader, n, m)
    BY <1>6, <2>1
  <2>3. err' = "sink" /\ pc' = "idle"
    BY <1>1, <1>8 DEF Fail, Latched, Return
  <2>4. \E i \in 0..RewrittenFields, j \in Places \cup {1} :
           disk'[w].head = tornHeader(lay'.bytes, FinalHeader', i, j)
    BY <1>1, <1>5, <2>2
  <2>5. HeadInv'
    BY <1>1, <1>2, <1>4, <1>5, <2>3, <2>4 DEF HeadInv
  <2> QED  BY <1>3, <2>5 DEF HeaderInv
<1> QED  BY <1>7, <1>8 DEF RewriteHead

(* Seeking forward again seals the rewritten header, or fails with it in   *)
(* place.                                                                  *)
LEMMA SeekEndHeader ==
    ASSUME IInv, FinalInv, AudioInv, HeaderInv, SeekEnd
    PROVE  HeaderInv'
<1>1. /\ pc = "seekEnd" /\ err = "nil" /\ w # NoSink /\ closed
      /\ UNCHANGED <<w, cfg, cont, lay, written, closed, disk>> /\ pc' = "idle"
  BY DEF SeekEnd, IInv, Core, CallInv, Return, Fail
<1>2. /\ disk[w].head = FinalHeader /\ seekable /\ PromiseKept
  BY <1>1 DEF HeaderInv, HeadInv
<1>3. BuiltInv'
  BY <1>1, BuiltKeeps DEF HeaderInv
<1>4. Patching
  BY <1>1, MayPatch
<1>5. /\ FinalHeader' = FinalHeader /\ seekable' = seekable /\ PromiseKept' = PromiseKept
      /\ Patching' = Patching
  BY <1>1, SameStream DEF Patching, FitsRIFF
<1>6. CASE Seal /\ err' = err
  <2>1. w \in Sinks /\ ledger \in [Sinks -> EntryType] /\ ledger[w] \in EntryType
    BY <1>1 DEF IInv, Core, TypeOK
  <2>2. ledger'[w].sealed
    BY <1>6, <2>1 DEF Seal, EntryType
  <2> QED  BY <1>1, <1>2, <1>3, <1>5, <2>2, <1>6 DEF HeaderInv, HeadInv
<1>7. CASE ledger' = ledger /\ err' = "sink"
  <2>1. ~ledger[w].sealed
    BY <1>1 DEF FinalInv, SealInv, IInv, Core, TypeOK
  <2>2. tornHeader(lay.bytes, FinalHeader, RewrittenFields, 1) = FinalHeader
    <3>1. FinalHeader.blockAlign = lay.bytes.blockAlign /\ FinalHeader \in HeaderType
          /\ lay.bytes \in HeaderType
      BY <1>1, FinalFacts, BoundFacts DEF HeaderInv
    <3> QED  BY <3>1, TornWhole
  <2>3. \E n \in 0..RewrittenFields, m \in Places \cup {1} :
           disk'[w].head = tornHeader(lay'.bytes, FinalHeader', n, m)
    <3>1. RewrittenFields \in 0..RewrittenFields /\ 1 \in Places \cup {1}
      BY DEF RewrittenFields
    <3> QED  BY <1>1, <1>2, <1>5, <2>2, <3>1
  <2>4. HeadInv'
    BY <1>1, <1>2, <1>4, <1>5, <1>7, <2>1, <2>3 DEF HeadInv
  <2> QED  BY <1>3, <2>4 DEF HeaderInv
<1> QED
  BY <1>1, <1>6, <1>7 DEF SeekEnd, Fail, Latched

(* Every call of the encoder, at every sink call inside it, keeps          *)
(* HeaderInv.                                                              *)
LEMMA NextKeepsHeader ==
    ASSUME IInv, FinalInv, AudioInv, HeaderInv, [Next]_vars
    PROVE  HeaderInv'
<1>1. CASE UNCHANGED vars
  <2>1. UNCHANGED <<w, cfg, cont, lay, written, closed, err, pc, disk, ledger>>
    BY <1>1 DEF vars, encoder, call
  <2>2. BuiltInv'
    BY <2>1, BuiltKeeps DEF HeaderInv
  <2>3. Patching' = Patching
    BY <2>1, SameStream DEF Patching, FitsRIFF
  <2>4. HeadInv'
    BY <2>1, <2>3, SameStream DEF HeaderInv, HeadInv
  <2> QED  BY <2>2, <2>4 DEF HeaderInv
<1>2. CASE Running
  BY <1>2, EmitHeader, WritePadHeader, VerifyHeader, SeekHeadHeader, RewriteHeadHeader,
     SeekEndHeader DEF Running
<1>3. ASSUME Next, ~Running
      PROVE  HeaderInv'
  <2>1. ASSUME NEW s, NEW c, ResetRejected(s, c)
        PROVE  HeaderInv'
    <3>1. w' = NoSink
      BY <2>1 DEF ResetRejected, invalidate
    <3> QED  BY <3>1 DEF HeaderInv, BuiltInv, HeadInv
  <2>2. ASSUME NEW s \in Sinks, NEW c \in Configs, ResetBinds(s, c)
        PROVE  HeaderInv'
    BY <2>2, ResetBindsHeader
  <2>3. ASSUME NEW n, WriteRefused(n)
        PROVE  HeaderInv'
    BY <2>3, RefusedHeader DEF WriteRefused, Return
  <2>4. ASSUME NEW n \in WriteSizes, WriteBegin(n)
        PROVE  HeaderInv'
    BY <2>4, WriteBeginHeader
  <2>5. CASE CloseAgain
    BY <2>5, RefusedHeader DEF CloseAgain, Return
  <2>6. CASE CloseBegin
    BY <2>6, CloseBeginHeader
  <2> QED  BY <1>3, <2>1, <2>2, <2>3, <2>4, <2>5, <2>6, IdleStep
<1> QED  BY <1>1, <1>2, <1>3

(* The header invariant holds in every state the encoder reaches.          *)
LEMMA Headers == Spec => []HeaderInv
<1>1. Init => HeaderInv
  BY DEF Init, HeaderInv, BuiltInv, HeadInv
<1>2. IInv /\ FinalInv /\ AudioInv /\ HeaderInv /\ [Next]_vars => HeaderInv'
  BY NextKeepsHeader
<1> QED  BY <1>1, <1>2, Invariance, Finality, Audio, PTL DEF Spec

-----------------------------------------------------------------------------
(* What the invariant says of the bound sink.                              *)

(* Whatever is on the bound sink says the promised length, or the audio    *)
(* that is there, or, after a torn rewrite, less than that or nothing.     *)
LEMMA HeadSays ==
    ASSUME IInv, HeaderInv, w # NoSink, disk[w].stage = "headed"
    PROVE  /\ disk[w].head \in HeaderType
           /\ disk[w].head.ds64DataSize \in {0, sizeAtReset(cfg)} \cup 0..written
           /\ \/ Says(disk[w].head, sizeAtReset(cfg))
              \/ Says(disk[w].head, written)
              \/ /\ err = "sink" /\ Patching
                 /\ \/ ~Readable(disk[w].head) /\ cont # planned
                    \/ \E d \in 0..written : Says(disk[w].head, d)
<1>1. disk[w].head \in HeaderType /\ written \in Nat
  BY DEF IInv, Core, TypeOK, FileType
<1>2. CASE disk[w].head = lay.bytes
  <2>1. /\ Says(lay.bytes, sizeAtReset(cfg)) /\ lay.bytes.magic = planned
        /\ planned \in Containers /\ planned = "RIFF" => lay.bytes.ds64DataSize = 0
    BY BoundFacts DEF HeaderInv
  <2>2. lay.bytes.ds64DataSize \in {0, sizeAtReset(cfg)}
    BY <2>1 DEF Says, Sized64, Containers
  <2> QED  BY <1>1, <1>2, <2>1, <2>2
<1>3. CASE disk[w].head = FinalHeader
  <2>1. /\ Says(FinalHeader, written)
        /\ FinalHeader.ds64DataSize = IF cont = "RF64" THEN written ELSE 0
    BY FinalFacts DEF HeaderInv
  <2>2. written \in 0..written
    BY <1>1
  <2> QED  BY <1>1, <1>3, <2>1, <2>2
<1>4. ASSUME NEW n \in 0..RewrittenFields, NEW m \in Places \cup {1},
             err = "sink", Patching,
             disk[w].head = tornHeader(lay.bytes, FinalHeader, n, m)
      PROVE  /\ disk[w].head.ds64DataSize \in 0..written
             /\ \/ ~Readable(disk[w].head) /\ cont # planned
                \/ \E d \in 0..written : Says(disk[w].head, d)
  <2>1. PromiseExact /\ BuiltInv
    BY <1>4 DEF Patching, HeaderInv
  <2> QED  BY <1>4, <2>1, TornFacts
<1> QED  BY <1>1, <1>2, <1>3, <1>4 DEF HeaderInv, HeadInv

(* What the bound sink's record says of its Config and its header.         *)
LEMMA BoundRecord ==
    ASSUME IInv, HeaderInv, w # NoSink, disk[w].stage = "headed"
    PROVE  /\ w \in Sinks /\ ledger[w].cfg = cfg /\ Len(disk[w].audio) = written
           /\ written \in Nat /\ cfg \in ConfigType
           /\ headerLength(w) = lay.dataOffset
           /\ FitsRIFF(lay, written) <=> fitsRIFF(headerLength(w), Len(disk[w].audio))
           /\ Declared(w) <=> framesKnown(cfg)
<1>1. /\ w \in Sinks /\ ledger[w].cfg = cfg /\ Len(disk[w].audio) = written
      /\ written \in Nat /\ cfg \in ConfigType /\ lay \in LayoutType
      /\ (disk[w].head.ds64Id = "none") <=> ~lay.hasDS64
      /\ lay.dataOffset = HeaderLen(cfg, lay.hasDS64)
  BY DEF IInv, Core, TypeOK, MediumInv, LayoutInv
<1>2. (disk[w].head.ds64Id # "none") = lay.hasDS64
  BY <1>1 DEF LayoutType
<1>3. headerLength(w) = lay.dataOffset
  BY <1>1, <1>2 DEF headerLength
<1> QED  BY <1>1, <1>3 DEF FitsRIFF, Declared, framesKnown

(* A stream of undeclared length claims no length, or its own, or, once    *)
(* the rewrite of its header is torn, a shorter one.                       *)
LEMMA BoundUnderstates ==
    ASSUME IInv, FinalInv, HeaderInv, w # NoSink, disk[w].stage = "headed",
           ~Declared(w), Readable(disk[w].head)
    PROVE  LET size == resolveDataSize(disk[w].head)
           IN /\ size <= Len(disk[w].audio)
              /\ size \notin {sizeUnknown, Len(disk[w].audio)} =>
                    w \in SeekableSinks /\ w \notin Sealed /\ closed /\ err = "sink"
<1> DEFINE size == resolveDataSize(disk[w].head)
<1>1. /\ written \in Nat /\ Len(disk[w].audio) = written /\ ~framesKnown(cfg)
      /\ disk[w].head \in HeaderType /\ w \in Sinks
  BY BoundRecord, HeadSays
<1>2. sizeAtReset(cfg) = 0
  BY <1>1 DEF sizeAtReset
<1>3. \/ Says(disk[w].head, 0) \/ Says(disk[w].head, written)
      \/ err = "sink" /\ Patching /\ \E d \in 0..written : Says(disk[w].head, d)
  BY <1>2, HeadSays
<1>4. \A d \in 0..written : Says(disk[w].head, d) => size \in {sizeUnknown, d}
  BY <1>1, SaysResolves
<1>5. CASE Says(disk[w].head, 0) \/ Says(disk[w].head, written)
  <2>1. size \in {sizeUnknown, 0, written} /\ (Says(disk[w].head, 0) => size = sizeUnknown)
    BY <1>1, <1>4, <1>5, SaysResolves
  <2>2. size \in {sizeUnknown, written}
    BY <1>1, <1>4, <1>5, <2>1
  <2> HIDE DEF size
  <2>3. size <= Len(disk[w].audio) /\ size \in {sizeUnknown, Len(disk[w].audio)}
    BY <1>1, <2>2 DEF sizeUnknown
  <2> QED  BY <2>3 DEF size
<1>6. CASE err = "sink" /\ Patching /\ \E d \in 0..written : Says(disk[w].head, d)
  <2>1. size <= written
    <3> HIDE DEF size
    <3> QED  BY <1>1, <1>4, <1>6 DEF sizeUnknown
  <2>2. w \notin Sealed
    BY <1>1, <1>6 DEF FinalInv, SealInv, Sealed
  <2> QED  BY <1>1, <1>6, <2>1, <2>2 DEF Patching, seekable
<1> QED  BY <1>3, <1>5, <1>6

(* The header of the bound sink gives a signed 64-bit length.              *)
LEMMA BoundLength ==
    ASSUME IInv, AudioInv, HeaderInv, w # NoSink, disk[w].stage = "headed"
    PROVE  disk[w].head.ds64DataSize <= MaxInt64
<1>1. /\ w \in Sinks /\ Len(disk[w].audio) = written /\ written \in Nat
      /\ MaxInt64 \in Nat
  BY BoundRecord, EncoderAssumption
<1>2. written <= MaxInt64
  BY <1>1 DEF AudioInv, LengthInv
<1>3. sizeAtReset(cfg) <= MaxInt64
  BY <1>1, BoundFacts, PromiseIsByteCount DEF HeaderInv, BuiltInv, Built
<1>4. disk[w].head.ds64DataSize \in {0, sizeAtReset(cfg)} \cup 0..written
  BY HeadSays
<1> QED  BY <1>1, <1>2, <1>3, <1>4

(* Only a torn upgrade cannot be read.                                     *)
LEMMA BoundUnreadable ==
    ASSUME IInv, FinalInv, HeaderInv, w # NoSink, disk[w].stage = "headed",
           ~Readable(disk[w].head)
    PROVE  /\ ledger[w].cfg.rf64 = "Auto" /\ w \in SeekableSinks /\ ~Declared(w)
           /\ ~fitsRIFF(headerLength(w), Len(disk[w].audio))
           /\ w \notin Sealed
           /\ closed /\ err = "sink"
<1>1. /\ w \in Sinks /\ ledger[w].cfg = cfg
      /\ Declared(w) <=> framesKnown(cfg)
      /\ FitsRIFF(lay, written) <=> fitsRIFF(headerLength(w), Len(disk[w].audio))
      /\ written \in Nat /\ disk[w].head \in HeaderType
  BY BoundRecord, HeadSays
<1>2. sizeAtReset(cfg) \in Nat
  BY BoundFacts DEF HeaderInv
<1>3. cont # planned /\ err = "sink" /\ Patching
  BY <1>1, <1>2, HeadSays, SaysResolves
<1>4. cfg.rf64 = "Auto" /\ seekable /\ ~framesKnown(cfg)
  BY <1>3, BoundFacts DEF HeaderInv
<1>5. w \notin Sealed
  BY <1>1, <1>3 DEF FinalInv, SealInv, Sealed
<1> QED  BY <1>1, <1>3, <1>4, <1>5 DEF Patching, seekable

(* What is known of a sink that Close has just sealed.                     *)
LEMMA SealedFacts ==
    ASSUME IInv, FinalInv, AudioInv, HeaderInv, w # NoSink, ledger[w].sealed
    PROVE  /\ w \in Sinks /\ disk[w].stage = "headed" /\ err = "nil" /\ closed
           /\ pc = "idle" /\ carry = << >> /\ pend = << >>
           /\ PromiseKept
           /\ disk[w].head = IF seekable THEN FinalHeader ELSE lay.bytes
           /\ written = ledger[w].sent /\ written % cfg.frame = 0
           /\ cfg.frame \in Nat /\ cfg.frame > 0 /\ frames \in Nat
           /\ written = frames * cfg.frame
           /\ framesKnown(cfg) => written = declaredDataSize(cfg) /\ written > 0
<1>1. w \in Sinks /\ disk[w].stage = "headed" /\ err = "nil" /\ closed /\ pc = "idle"
  BY DEF FinalInv, SealInv, IInv, Core, TypeOK
<1>2. carry = << >> /\ pend = << >> /\ Len(<< >>) = 0
  BY <1>1, EmptySeq DEF AudioInv, PendInv
<1>3. /\ PromiseKept /\ disk[w].head = IF seekable THEN FinalHeader ELSE lay.bytes
  BY <1>1 DEF HeaderInv, HeadInv
<1>4. /\ written \in Nat /\ ledger[w].sent \in Nat /\ written % cfg.frame = 0
      /\ written + Len(carry) + Len(pend) = ledger[w].sent
      /\ cfg.frame \in Nat /\ cfg.frame > 0
  BY <1>1, StreamFacts
<1>5. written = ledger[w].sent
  <2>1. /\ written \in Nat /\ written + Len(carry) + Len(pend) = ledger[w].sent
        /\ Len(carry) = 0 /\ Len(pend) = 0
    BY <1>2, <1>4
  <2> QED  BY <2>1
<1>6. written = (written \div cfg.frame) * cfg.frame
  BY <1>4, WholeFrames
<1>7. frames = written \div cfg.frame /\ written \div cfg.frame \in Nat
  BY <1>4 DEF frames
<1>8. ASSUME framesKnown(cfg) PROVE written = declaredDataSize(cfg) /\ written > 0
  <2>1. frames = cfg.total /\ cfg.total \in Nat /\ cfg.total > 0
    BY <1>3, <1>7, <1>8 DEF framesKnown, PromiseKept
  <2>2. written = cfg.total * cfg.frame
    BY <1>6, <1>7, <2>1
  <2> HIDE DEF frames
  <2>3. cfg.total * cfg.frame > 0
    BY <1>4, <2>1
  <2> QED  BY <2>2, <2>3 DEF declaredDataSize
<1> QED  BY <1>1, <1>2, <1>3, <1>4, <1>5, <1>6, <1>7, <1>8

(* The container of a sealed stream is the one its length needs.           *)
LEMMA BoundContainer ==
    ASSUME IInv, FinalInv, AudioInv, HeaderInv, w # NoSink, ledger[w].sealed
    PROVE  LET head == disk[w].head
           IN CASE ledger[w].cfg.rf64 = "Always" -> head.magic = "RF64"
                [] ledger[w].cfg.rf64 = "Never" -> head.magic = "RIFF"
                [] OTHER -> head.magic = "RF64" <=>
                     IF Declared(w) THEN ~FitsPlainRIFF(ledger[w].cfg, Len(disk[w].audio))
                     ELSE ~fitsRIFF(headerLength(w), Len(disk[w].audio))
<1> DEFINE p == plan(cfg, w \in SeekableSinks)
<1>1. /\ disk[w].stage = "headed" /\ err = "nil"
      /\ disk[w].head = IF seekable THEN FinalHeader ELSE lay.bytes
      /\ framesKnown(cfg) => written = declaredDataSize(cfg)
  BY SealedFacts
<1>2. /\ ledger[w].cfg = cfg /\ Len(disk[w].audio) = written
      /\ Declared(w) <=> framesKnown(cfg)
      /\ FitsRIFF(lay, written) <=> fitsRIFF(headerLength(w), Len(disk[w].audio))
  BY <1>1, BoundRecord
<1>3. /\ cfg \in ConfigType /\ cont \in Containers /\ planned \in Containers
      /\ lay.bytes.magic = planned
      /\ cont # planned => /\ cont = "RF64" /\ planned = "RIFF"
                           /\ cfg.rf64 = "Auto" /\ seekable /\ ~framesKnown(cfg)
                           /\ ~FitsRIFF(lay, written)
  BY <1>1, BoundFacts DEF HeaderInv
<1>4. disk[w].head.magic = cont
  <2>1. FinalHeader.magic = cont
    BY FinalFacts DEF HeaderInv
  <2> QED  BY <1>1, <1>3, <2>1
<1>5. planned = p.container /\ (w \in SeekableSinks) \in BOOLEAN
  BY DEF planned, seekable
<1>6. /\ cfg.rf64 = "Always" => p.container = "RF64"
      /\ cfg.rf64 = "Never" => p.container = "RIFF"
      /\ cfg.rf64 = "Auto" /\ framesKnown(cfg) =>
            (p.container = "RIFF" <=> FitsPlainRIFF(cfg, declaredDataSize(cfg)))
      /\ cfg.rf64 = "Auto" /\ ~framesKnown(cfg) => p.container = "RIFF"
  BY <1>3, <1>5, PlanFacts
<1> HIDE DEF p
<1>7. cont = "RIFF" => FitsRIFF(lay, written)
  BY DEF IInv, Core, LayoutInv
<1>8. CASE cfg.rf64 = "Always"
  BY <1>2, <1>3, <1>4, <1>5, <1>6, <1>8
<1>9. CASE cfg.rf64 = "Never"
  BY <1>2, <1>3, <1>4, <1>5, <1>6, <1>9
<1>10. CASE cfg.rf64 = "Auto" /\ framesKnown(cfg)
  BY <1>1, <1>2, <1>3, <1>4, <1>5, <1>6, <1>10 DEF Containers
<1>11. CASE cfg.rf64 = "Auto" /\ ~framesKnown(cfg)
  BY <1>2, <1>3, <1>4, <1>5, <1>6, <1>7, <1>11 DEF Containers
<1>12. cfg.rf64 \in ModeType
  BY <1>3 DEF ConfigType
<1> QED  BY <1>8, <1>9, <1>10, <1>11, <1>12 DEF ModeType

(* The first bytes of a sequence with something behind it are the sequence *)
(* itself.                                                                 *)
LEMMA PrefixOfConcat ==
    ASSUME NEW a \in Seq(Nat), NEW b \in Seq(Nat)
    PROVE  SubSeq(a \o b, 1, Len(a)) = a
<1> DEFINE ab == a \o b
           n == Len(a)
<1>1. /\ ab \in Seq(Nat) /\ n \in Nat /\ Len(b) \in Nat /\ Len(ab) = n + Len(b)
      /\ \A i \in 1 .. n : ab[i] = a[i]
  <2>1. Len(a) \in Nat /\ Len(b) \in Nat
    BY LenProperties
  <2>2. /\ a \o b \in Seq(Nat) /\ Len(a \o b) = Len(a) + Len(b)
        /\ \A i \in 1 .. Len(a) + Len(b) :
              (a \o b)[i] = IF i <= Len(a) THEN a[i] ELSE b[i - Len(a)]
    BY ConcatProperties
  <2>3. \A i \in 1 .. Len(a) : i \in 1 .. Len(a) + Len(b) /\ i <= Len(a)
    BY <2>1
  <2> QED  BY <2>1, <2>2, <2>3
<1>2. \A i \in 1 .. n : ab[i] \in Nat
  BY <1>1, ElementOfSeq
<1> HIDE DEF ab
<1>3. /\ SubSeq(ab, 1, n) \in Seq(Nat) /\ Len(SubSeq(ab, 1, n)) = n
      /\ \A i \in 1 .. n : SubSeq(ab, 1, n)[i] = ab[i]
  <2> HIDE DEF n
  <2>1. /\ SubSeq(ab, 1, n) \in Seq(Nat)
        /\ Len(SubSeq(ab, 1, n)) = IF 1 <= n THEN n - 1 + 1 ELSE 0
        /\ \A i \in 1 .. n - 1 + 1 : SubSeq(ab, 1, n)[i] = ab[1 + i - 1]
    <3>1. 1 \in Int /\ n \in Int
      BY <1>1
    <3> QED  BY <1>2, <3>1, SubSeqProperties
  <2>2. n - 1 + 1 = n /\ \A i \in 1 .. n : 1 + i - 1 = i
    BY <1>1
  <2> QED  BY <1>1, <2>1, <2>2
<1>4. SubSeq(ab, 1, n) = a
  BY <1>1, <1>3, SeqEqual
<1> QED  BY <1>4 DEF ab

(* The length a sealed header says: the bytes that were offered.           *)
LEMMA SealedSays ==
    ASSUME IInv, FinalInv, AudioInv, HeaderInv, w # NoSink, ledger[w].sealed,
           w \in SeekableSinks \/ Declared(w), MaxSent <= MaxDataSize
    PROVE  /\ disk[w].head \in HeaderType /\ Readable(disk[w].head)
           /\ resolveDataSize(disk[w].head) = IF written = 0 THEN sizeUnknown ELSE written
           /\ disk[w].head.blockAlign = cfg.frame
           /\ written = 0 => /\ disk[w].head.ds64SampleCount = 0
                             /\ disk[w].head.factFrames \in {0, sentinel32}
<1>1. /\ w \in Sinks /\ disk[w].stage = "headed" /\ err = "nil"
      /\ disk[w].head = IF seekable THEN FinalHeader ELSE lay.bytes
      /\ written = ledger[w].sent /\ frames \in Nat
      /\ framesKnown(cfg) => written = declaredDataSize(cfg) /\ written > 0
  BY SealedFacts
<1>2. /\ written \in Nat /\ written <= MaxDataSize /\ MaxDataSize \in Nat
  <2>1. written <= MaxSent /\ MaxSent \in Nat
    BY <1>1, EncoderAssumption DEF AudioInv, TapeInv
  <2>2. written \in Nat
    BY DEF IInv, Core, TypeOK
  <2> QED  BY <2>1, <2>2, SizeAssumption
<1>3. /\ disk[w].head \in HeaderType /\ Says(disk[w].head, written)
      /\ disk[w].head.blockAlign = cfg.frame
      /\ Sized64(disk[w].head.magic) \/ written < MaxUint32
      /\ written = 0 => /\ disk[w].head.ds64SampleCount = 0
                        /\ disk[w].head.factFrames \in {0, sentinel32}
  <2>1. CASE seekable
    <3>1. /\ disk[w].head = FinalHeader /\ cont \in Containers
          /\ FinalHeader \in HeaderType /\ Says(FinalHeader, written)
          /\ FinalHeader.magic = cont
          /\ FinalHeader.blockAlign = cfg.frame
          /\ FinalHeader.ds64SampleCount \in {0, frames}
          /\ FinalHeader.factFrames \in {0, frames, sentinel32}
          /\ cont = "RIFF" => written < MaxUint32
      BY <1>1, <2>1, FinalFacts DEF HeaderInv, IInv, Core, TypeOK
    <3>2. written = 0 => frames = 0
      <4>1. cfg.frame \in Nat /\ cfg.frame > 0
        BY SealedFacts
      <4>2. 0 \div cfg.frame = 0
        BY <4>1
      <4> QED  BY <4>1, <4>2 DEF frames
    <3> HIDE DEF frames
    <3> QED  BY <3>1, <3>2 DEF Sized64, Containers
  <2>2. CASE ~seekable
    <3>1. framesKnown(cfg)
      BY <1>1, <2>2, BoundRecord DEF seekable
    <3>2. sizeAtReset(cfg) = written /\ written # 0
      BY <1>1, <1>2, <3>1 DEF sizeAtReset
    <3>3. /\ disk[w].head = lay.bytes /\ planned \in Containers
          /\ lay.bytes \in HeaderType /\ lay.bytes.magic = planned
          /\ lay.bytes.blockAlign = cfg.frame
          /\ Says(lay.bytes, sizeAtReset(cfg))
          /\ planned = "RIFF" => sizeAtReset(cfg) < MaxUint32
      BY <1>1, <2>2, BoundFacts DEF HeaderInv
    <3> QED  BY <3>2, <3>3 DEF Sized64, Containers
  <2> QED  BY <2>1, <2>2
<1>4. CASE written = 0
  BY <1>2, <1>3, <1>4, SaysResolves
<1>5. CASE written # 0
  BY <1>2, <1>3, <1>5, SaysResolves
<1> QED  BY <1>3, <1>4, <1>5

(* A sealed sink reads back as the bytes offered to it.                    *)
LEMMA BoundReadsBack ==
    ASSUME IInv, FinalInv, AudioInv, HeaderInv, w # NoSink, ledger[w].sealed,
           w \in SeekableSinks \/ Declared(w), MaxSent <= MaxDataSize
    PROVE  /\ Readable(disk[w].head)
           /\ ReadBack(w) = [i \in 1..ledger[w].sent |-> i]
           /\ resolveFrames(disk[w].head) * ledger[w].cfg.frame = ledger[w].sent
<1> DEFINE tape == disk[w].audio
           tail == [i \in 1..disk[w].pad |-> padByte]
           size == resolveDataSize(disk[w].head)
<1>1. /\ w \in Sinks /\ disk[w].stage = "headed" /\ err = "nil"
      /\ written = ledger[w].sent
      /\ cfg.frame \in Nat /\ cfg.frame > 0
      /\ written = frames * cfg.frame /\ frames \in Nat
  BY SealedFacts
<1>2. /\ Readable(disk[w].head) /\ disk[w].head.blockAlign = cfg.frame
      /\ size = IF written = 0 THEN sizeUnknown ELSE written
      /\ written = 0 => /\ disk[w].head.ds64SampleCount = 0
                        /\ disk[w].head.factFrames \in {0, sentinel32}
  BY SealedSays
<1>3. /\ tape \in Seq(Nat) /\ Len(tape) = written /\ Counts(tape, 0) /\ written \in Nat
  BY <1>1, StreamFacts
<1>4. tape = [i \in 1..ledger[w].sent |-> i]
  <2> HIDE DEF tape
  <2> QED  BY <1>1, <1>3, CountsIsTheStream
<1>5. /\ disk[w].pad \in 0..1
      /\ disk[w].pad = 1 => written % 2 # 0
  BY <1>1 DEF IInv, Core, TypeOK, FileType, MediumInv
<1>6. tail \in Seq(Nat) /\ Len(tail) = disk[w].pad
  <2>1. disk[w].pad \in Nat /\ padByte \in Nat
    BY <1>5 DEF padByte
  <2> QED  BY <2>1, IsASeq
<1>7. OnMedium(w) = tape \o tail
  BY DEF OnMedium
<1>8. ledger[w].cfg = cfg
  BY <1>1, BoundRecord
<1>9. sizeUnknown # written
  BY <1>3 DEF sizeUnknown
<1> HIDE DEF tape, tail
<1>10. ReadBack(w) = tape
  <2>1. ReadBack(w) = IF size = sizeUnknown \/ size > Len(tape \o tail) THEN tape \o tail
                      ELSE SubSeq(tape \o tail, 1, size)
    BY <1>7 DEF ReadBack
  <2> HIDE DEF size
  <2>2. CASE written = 0
    <3>1. disk[w].pad = 0
      <4>1. 0 % 2 = 0
        OBVIOUS
      <4> QED  BY <1>5, <2>2, <4>1
    <3>2. tail = << >>
      BY <1>6, <3>1, EmptySeq
    <3>3. tape \o tail = tape
      BY <1>3, <3>2, ConcatEmptySeq
    <3> QED  BY <1>2, <2>1, <2>2, <3>3
  <2>3. CASE written # 0
    <3>1. Len(tape \o tail) = written + disk[w].pad
      <4>1. tape \in Seq(Nat) /\ tail \in Seq(Nat)
        BY <1>3, <1>6
      <4>2. Len(tape \o tail) = Len(tape) + Len(tail)
        BY <4>1, ConcatProperties
      <4> QED  BY <1>3, <1>6, <4>2
    <3>2. ~(size > Len(tape \o tail)) /\ size # sizeUnknown /\ size = Len(tape)
      <4>1. disk[w].pad \in Nat
        BY <1>6, LenProperties
      <4> QED  BY <1>2, <1>3, <1>9, <2>3, <3>1, <4>1
    <3>3. SubSeq(tape \o tail, 1, Len(tape)) = tape
      BY <1>3, <1>6, PrefixOfConcat
    <3> QED  BY <2>1, <3>2, <3>3
  <2> QED  BY <2>2, <2>3
<1>11. resolveFrames(disk[w].head) * cfg.frame = written
  <2>1. CASE written = 0
    <3>1. /\ size = sizeUnknown /\ disk[w].head.ds64SampleCount = 0
          /\ disk[w].head.factFrames \in {0, sentinel32}
      BY <1>2, <2>1
    <3>2. boundedFrames(0, disk[w].head.blockAlign) = 0
      BY DEF boundedFrames
    <3>3. resolveFrames(disk[w].head) = 0
      BY <3>1, <3>2 DEF resolveFrames
    <3> QED  BY <1>1, <2>1, <3>3
  <2>2. CASE written # 0
    <3>1. size = written /\ size # sizeUnknown
      BY <1>2, <1>9, <2>2
    <3>2. resolveFrames(disk[w].head) = written \div cfg.frame
      BY <1>1, <1>2, <3>1 DEF resolveFrames
    <3>3. frames = written \div cfg.frame
      BY <1>1 DEF frames
    <3> HIDE DEF frames
    <3> QED  BY <1>1, <3>2, <3>3
  <2> QED  BY <2>1, <2>2
<1> QED  BY <1>1, <1>2, <1>4, <1>8, <1>10, <1>11

-----------------------------------------------------------------------------
(* From the bound sink to all of them.                                     *)

(* A sink the step leaves unbound is left as it was.                       *)
LEMMA OthersUntouched ==
    ASSUME IInv, [Next]_vars, NEW s \in Sinks, s # w'
    PROVE  disk'[s] = disk[s] /\ ledger'[s] = ledger[s]
<1>1. CASE UNCHANGED vars
  BY <1>1 DEF vars
<1>2. CASE Running
  BY <1>2, RunningStep
<1>3. ASSUME Next, ~Running
      PROVE  disk'[s] = disk[s] /\ ledger'[s] = ledger[s]
  <2>1. CASE UNCHANGED <<disk, ledger>>
    BY <2>1
  <2>2. ASSUME NEW t \in Sinks, NEW c \in Configs, ResetBinds(t, c)
        PROVE  disk'[s] = disk[s] /\ ledger'[s] = ledger[s]
    BY <2>2, ResetBindsFacts
  <2>3. ASSUME NEW n \in WriteSizes, WriteBegin(n)
        PROVE  disk'[s] = disk[s] /\ ledger'[s] = ledger[s]
    BY <2>3 DEF WriteBegin, IInv, Core, TypeOK
  <2> QED
    BY <1>3, <2>1, <2>2, <2>3, IdleStep
       DEF ResetRejected, WriteRefused, CloseAgain, CloseBegin
<1> QED  BY <1>1, <1>2, <1>3

Invs == IInv /\ FinalInv /\ AudioInv /\ HeaderInv

(* The four invariants hold together.                                      *)
LEMMA AllInvs == Spec => []Invs
  BY Invariance, Finality, Audio, Headers, PTL DEF Invs

(* For every policy, limit and frame width, wherever a sink fails or the   *)
(* recording is abandoned: a readable stream of undeclared length never    *)
(* claims audio that is not there, and claims less than there is only when *)
(* the sink failed inside the rewrite of its header: never on a sink that  *)
(* cannot seek, never on a sealed one, and not before Close has failed.    *)
THEOREM UnderstatedOnlyIfTorn == Spec => []OnlyATornRewriteUnderstates
<1> DEFINE Bound == w # NoSink /\ disk[w].stage = "headed" /\ ~Declared(w)
                    /\ Readable(disk[w].head) =>
                       LET size == resolveDataSize(disk[w].head)
                       IN /\ size <= Len(disk[w].audio)
                          /\ size \notin {sizeUnknown, Len(disk[w].audio)} =>
                                /\ w \in SeekableSinks /\ w \notin Sealed
                                /\ closed /\ err = "sink"
<1>1. Invs => Bound
  BY BoundUnderstates DEF Invs
<1>2. Init => OnlyATornRewriteUnderstates
  BY DEF Init, OnlyATornRewriteUnderstates, Headed, BlankFile
<1>3. Invs /\ OnlyATornRewriteUnderstates /\ [Next]_vars /\ Bound'
         => OnlyATornRewriteUnderstates'
  <2> SUFFICES ASSUME Invs, OnlyATornRewriteUnderstates, [Next]_vars, Bound', NEW s \in Sinks,
                      disk'[s].stage = "headed", ~(ledger'[s].cfg.total > 0),
                      Readable(disk'[s].head)
               PROVE  LET size == resolveDataSize(disk'[s].head)
                      IN /\ size <= Len(disk'[s].audio)
                         /\ size \notin {sizeUnknown, Len(disk'[s].audio)} =>
                               /\ s \in SeekableSinks /\ ~ledger'[s].sealed
                               /\ s = w' => closed' /\ err' = "sink"
    BY DEF OnlyATornRewriteUnderstates, Headed, Declared, Sealed, Readable, Sized64,
           haveDS64, resolveDataSize
  <2>1. CASE s # w'
    <3>1. disk'[s] = disk[s] /\ ledger'[s] = ledger[s]
      BY <2>1, OthersUntouched DEF Invs
    <3> QED  BY <2>1, <3>1 DEF OnlyATornRewriteUnderstates, Headed, Declared, Sealed
  <2>2. CASE s = w'
    <3>1. w' # NoSink
      BY <2>2, EncoderAssumption
    <3> QED
      BY <2>2, <3>1 DEF Declared, Sealed, Readable, Sized64, haveDS64, resolveDataSize
  <2> QED  BY <2>1, <2>2
<1> HIDE DEF Bound
<1> QED  BY <1>1, <1>2, <1>3, AllInvs, PTL DEF Spec

(* No byte count wraps, whatever lengths are promised or written, in       *)
(* either container, and wherever a rewrite is torn: neither Reset nor     *)
(* checkCapacity lets one past a signed 64-bit count.                      *)
THEOREM LengthsAreRepresentable == Spec => []LengthIsRepresentable
<1> DEFINE Bound == /\ LengthInv
                    /\ w # NoSink /\ disk[w].stage = "headed" =>
                          disk[w].head.ds64DataSize <= MaxInt64
<1>1. Invs => Bound
  BY BoundLength DEF Invs, AudioInv
<1>2. Init => LengthIsRepresentable
  BY EmptySeq, EncoderAssumption DEF Init, LengthIsRepresentable, BlankFile, NoHeader
<1>3. Invs /\ LengthIsRepresentable /\ [Next]_vars /\ Bound' => LengthIsRepresentable'
  <2> SUFFICES ASSUME Invs, LengthIsRepresentable, [Next]_vars, Bound', NEW s \in Sinks
               PROVE  /\ Len(disk'[s].audio) <= MaxInt64
                      /\ disk'[s].head.ds64DataSize <= MaxInt64
    BY DEF LengthIsRepresentable
  <2>1. Len(disk'[s].audio) <= MaxInt64
    BY DEF LengthInv
  <2>2. CASE s # w'
    <3>1. disk'[s] = disk[s]
      BY <2>2, OthersUntouched DEF Invs
    <3> QED  BY <2>1, <3>1 DEF LengthIsRepresentable
  <2>3. CASE s = w' /\ disk'[s].stage = "headed"
    <3>1. w' # NoSink
      BY <2>3, EncoderAssumption
    <3> QED  BY <2>1, <2>3, <3>1
  <2>4. CASE disk'[s].stage # "headed"
    <3>1. disk'[s].head.ds64DataSize = 0
      BY <2>4 DEF LengthInv
    <3> QED  BY <2>1, <3>1, EncoderAssumption
  <2> QED  BY <2>2, <2>3, <2>4
<1> HIDE DEF Bound
<1> QED  BY <1>1, <1>2, <1>3, AllInvs, PTL DEF Spec

(* The one way a recording becomes unreadable, for every limit and header  *)
(* length, is a sink that fails inside the header rewrite of a stream that *)
(* outgrew plain RIFF.                                                     *)
THEOREM UnreadableOnlyIfTorn == Spec => []OnlyATornUpgradeIsUnreadable
<1> DEFINE Bound == w # NoSink /\ disk[w].stage = "headed" /\ ~Readable(disk[w].head) =>
                       /\ ledger[w].cfg.rf64 = "Auto" /\ w \in SeekableSinks /\ ~Declared(w)
                       /\ ~fitsRIFF(headerLength(w), Len(disk[w].audio))
                       /\ w \notin Sealed
                       /\ closed /\ err = "sink"
<1>1. Invs => Bound
  BY BoundUnreadable DEF Invs
<1>2. Init => OnlyATornUpgradeIsUnreadable
  BY DEF Init, OnlyATornUpgradeIsUnreadable, Headed, BlankFile
<1>3. Invs /\ OnlyATornUpgradeIsUnreadable /\ [Next]_vars /\ Bound'
         => OnlyATornUpgradeIsUnreadable'
  <2> SUFFICES ASSUME Invs, OnlyATornUpgradeIsUnreadable, [Next]_vars, Bound', NEW s \in Sinks,
                      disk'[s].stage = "headed", ~Readable(disk'[s].head)
               PROVE  /\ ledger'[s].cfg.rf64 = "Auto" /\ s \in SeekableSinks
                      /\ ~(ledger'[s].cfg.total > 0)
                      /\ ~fitsRIFF(HeaderLen(ledger'[s].cfg, disk'[s].head.ds64Id # "none"),
                                   Len(disk'[s].audio))
                      /\ ~ledger'[s].sealed
                      /\ s = w' => closed' /\ err' = "sink"
    BY DEF OnlyATornUpgradeIsUnreadable, Headed, Declared, headerLength, Sealed
  <2>1. CASE s # w'
    <3>1. disk'[s] = disk[s] /\ ledger'[s] = ledger[s]
      BY <2>1, OthersUntouched DEF Invs
    <3> QED
      BY <2>1, <3>1 DEF OnlyATornUpgradeIsUnreadable, Headed, Declared, headerLength, Sealed
  <2>2. CASE s = w'
    <3>1. w' # NoSink
      BY <2>2, EncoderAssumption
    <3> QED  BY <2>2, <3>1 DEF Declared, headerLength, Sealed
  <2> QED  BY <2>1, <2>2
<1> HIDE DEF Bound
<1> QED  BY <1>1, <1>2, <1>3, AllInvs, PTL DEF Spec

(* A sealed file is RF64 exactly when the policy asks for it or the audio, *)
(* padded and behind its header, is too long for 32-bit sizes, whatever    *)
(* the limit, the Config and the writes.                                   *)
THEOREM ContainerAlwaysMatches == Spec => []ContainerMatchesLength
<1> DEFINE Bound == w # NoSink /\ ledger[w].sealed =>
                       LET head == disk[w].head
                       IN CASE ledger[w].cfg.rf64 = "Always" -> head.magic = "RF64"
                            [] ledger[w].cfg.rf64 = "Never" -> head.magic = "RIFF"
                            [] OTHER -> head.magic = "RF64" <=>
                                 IF Declared(w)
                                 THEN ~FitsPlainRIFF(ledger[w].cfg, Len(disk[w].audio))
                                 ELSE ~fitsRIFF(headerLength(w), Len(disk[w].audio))
<1>1. Invs => Bound
  BY BoundContainer DEF Invs
<1>2. Init => ContainerMatchesLength
  BY DEF Init, ContainerMatchesLength, Sealed, BlankEntry
<1>3. Invs /\ ContainerMatchesLength /\ [Next]_vars /\ Bound' => ContainerMatchesLength'
  <2> SUFFICES ASSUME Invs, ContainerMatchesLength, [Next]_vars, Bound', NEW s \in Sinks,
                      ledger'[s].sealed
               PROVE  LET head == disk'[s].head
                      IN CASE ledger'[s].cfg.rf64 = "Always" -> head.magic = "RF64"
                           [] ledger'[s].cfg.rf64 = "Never" -> head.magic = "RIFF"
                           [] OTHER -> head.magic = "RF64" <=>
                                IF ledger'[s].cfg.total > 0
                                THEN ~FitsPlainRIFF(ledger'[s].cfg, Len(disk'[s].audio))
                                ELSE ~fitsRIFF(HeaderLen(ledger'[s].cfg,
                                                         disk'[s].head.ds64Id # "none"),
                                               Len(disk'[s].audio))
    BY DEF ContainerMatchesLength, Declared, headerLength, Sealed
  <2>1. CASE s # w'
    <3>1. disk'[s] = disk[s] /\ ledger'[s] = ledger[s]
      BY <2>1, OthersUntouched DEF Invs
    <3> QED  BY <3>1 DEF ContainerMatchesLength, Sealed, Declared, headerLength
  <2>2. CASE s = w'
    <3>1. w' # NoSink
      BY <2>2, EncoderAssumption
    <3> QED  BY <2>2, <3>1 DEF Declared, headerLength
  <2> QED  BY <2>1, <2>2
<1> HIDE DEF Bound
<1> QED  BY <1>1, <1>2, <1>3, AllInvs, PTL DEF Spec

(* Once Close has returned nil, a file whose sink could seek or whose      *)
(* length was declared reads back as exactly the bytes offered, in whole   *)
(* frames, with the frame count the reader reports, for every limit, frame *)
(* width, policy and way of cutting the writes.  The hypothesis is the     *)
(* reader's: it believes no length beyond MaxDataSize, 2^62 in the code.   *)
THEOREM SealedFilesReadBack ==
    ASSUME MaxSent <= MaxDataSize
    PROVE  Spec => []SealedReadsBack
<1> DEFINE Bound == w # NoSink /\ ledger[w].sealed /\ (w \in SeekableSinks \/ Declared(w)) =>
                       /\ Readable(disk[w].head)
                       /\ ReadBack(w) = [i \in 1..ledger[w].sent |-> i]
                       /\ resolveFrames(disk[w].head) * ledger[w].cfg.frame = ledger[w].sent
<1>1. Invs => Bound
  BY BoundReadsBack DEF Invs
<1>2. Init => SealedReadsBack
  BY DEF Init, SealedReadsBack, Sealed, BlankEntry
<1>3. Invs /\ SealedReadsBack /\ [Next]_vars /\ Bound' => SealedReadsBack'
  <2> SUFFICES ASSUME Invs, SealedReadsBack, [Next]_vars, Bound', NEW s \in Sinks,
                      ledger'[s].sealed, s \in SeekableSinks \/ ledger'[s].cfg.total > 0
               PROVE  /\ Readable(disk'[s].head)
                      /\ ReadBack(s)' = [i \in 1..ledger'[s].sent |-> i]
                      /\ resolveFrames(disk'[s].head) * ledger'[s].cfg.frame = ledger'[s].sent
    BY DEF SealedReadsBack, Declared, Sealed
  <2>1. CASE s # w'
    <3>1. disk'[s] = disk[s] /\ ledger'[s] = ledger[s]
      BY <2>1, OthersUntouched DEF Invs
    <3>2. ReadBack(s)' = ReadBack(s)
      BY <3>1 DEF ReadBack, OnMedium
    <3> QED  BY <3>1, <3>2 DEF SealedReadsBack, Sealed, Declared
  <2>2. CASE s = w'
    <3>1. w' # NoSink
      BY <2>2, EncoderAssumption
    <3>2. ReadBack(s)' = ReadBack(w)'
      BY <2>2 DEF ReadBack, OnMedium
    <3> QED  BY <2>2, <3>1, <3>2 DEF Declared
  <2> QED  BY <2>1, <2>2
<1> HIDE DEF Bound
<1> QED  BY <1>1, <1>2, <1>3, AllInvs, PTL DEF Spec
=============================================================================
