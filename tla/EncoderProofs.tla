---------------------------- MODULE EncoderProofs ----------------------------
(***************************************************************************)
(* Safety of Encoder for every set of sinks and Configs, every limit and   *)
(* every way of cutting the audio into Writes; what a call may never do    *)
(* once the stream failed or was closed; and which bytes are where: the    *)
(* audio of every sink is what was offered to it, in order, and its length *)
(* is a byte count.                                                        *)
(***************************************************************************)
EXTENDS Encoder, RiffLayoutProofs, SequenceTheorems

-----------------------------------------------------------------------------
(* The inductive invariant.                                                *)

(* Where a call can be, and what is carried there.                         *)
CallInv ==
    /\ pc # "idle" => w # NoSink /\ err = "nil"
    /\ pc \in {"emitCarry", "emitAligned"} => ~closed
    /\ pc \in {"pad", "verify", "seekHead", "rewrite", "seekEnd"} => closed
    /\ pc = "emitAligned" => carry = << >>
    /\ pc = "pad" => written % 2 # 0
    /\ w # NoSink => /\ cfg.frame > 0
                     /\ Len(carry) <= cfg.frame
                     /\ err = "nil" /\ pc # "emitCarry" => Len(carry) < cfg.frame

(* The header that was built, and why the current container can be         *)
(* described by it.                                                        *)
LayoutInv ==
    w # NoSink =>
        /\ lay.dataOffset = HeaderLen(cfg, lay.hasDS64)
        /\ (lay.bytes.ds64Id = "none") <=> ~lay.hasDS64
        /\ cont = "RIFF" => lay.bytes.magic = "RIFF" /\ FitsRIFF(lay, written)
        /\ cont = "RF64" => /\ lay.hasDS64
                            /\ lay.bytes.magic = "RF64" \/ cfg.rf64 = "Auto"

(* The bound sink holds what the encoder counted.                          *)
MediumInv ==
    w # NoSink =>
        /\ ledger[w].cfg = cfg
        /\ Len(disk[w].audio) = written
        /\ err = "nil" => disk[w].stage = "headed"
        /\ disk[w].stage = "headed" =>
              ((disk[w].head.ds64Id = "none") <=> ~lay.hasDS64)
        /\ ~closed => disk[w].pad = 0
        /\ disk[w].pad = 1 => written % 2 # 0

BlankInv ==
    \A s \in Sinks : disk[s].stage = "blank" =>
        disk[s].audio = << >> /\ disk[s].pad = 0

Core == TypeOK /\ CallInv /\ LayoutInv /\ MediumInv /\ BlankInv /\ CloseCanStamp

IInv == Core /\ PlainRIFFNeverOutgrown

-----------------------------------------------------------------------------
(* Facts about the operators the actions share.                            *)

(* A Config accepted by validate is one the header arithmetic is about.    *)
LEMMA ConfigFacts ==
    ASSUME NEW c \in ConfigType
    PROVE  HasLayout(c) /\ c.frame \in Nat /\ c.total \in Nat
  BY DEF ConfigType, HasLayout

(* What a sink call inside Write does: whatever the sink takes is counted, *)
(* goes to the bound sink only, and leaves the stream describable.         *)
LEMMA EmitStep ==
    ASSUME TypeOK, w \in Sinks, NEW buf \in Seq(Nat), NEW e, emit(buf, e)
    PROVE  /\ written' \in Nat /\ written' >= written
           /\ cont' \in Containers
           /\ disk' \in [Sinks -> FileType]
           /\ \A s \in Sinks \ {w} : disk'[s] = disk[s]
           /\ disk'[w].stage = disk[w].stage
           /\ disk'[w].head = disk[w].head
           /\ disk'[w].pad = disk[w].pad
           /\ Len(disk[w].audio) = written => Len(disk'[w].audio) = written'
           /\ cont' = "RIFF" =>
                 /\ cont = "RIFF"
                 /\ FitsRIFF(lay, written) => FitsRIFF(lay, written')
           /\ cont' = "RF64" => cont = "RF64" \/ Rescuable
<1> DEFINE next == written + Len(buf)
<1>1. /\ Len(buf) \in Nat /\ written \in Nat /\ next \in Nat
      /\ disk \in [Sinks -> FileType] /\ disk[w] \in FileType
      /\ disk[w].audio \in Seq(Nat) /\ Len(disk[w].audio) \in Nat
      /\ cont \in Containers /\ lay.dataOffset \in Nat
  BY LenProperties DEF TypeOK, FileType, LayoutType
<1>2. CASE UNCHANGED <<written, cont, disk>>
  BY <1>1, <1>2 DEF Containers
<1>3. CASE /\ ~TooLarge(next)
           /\ cont' = ContainerFor(next)
           /\ \E k \in 0..Len(buf) :
                 /\ written' = written + k
                 /\ disk' = [disk EXCEPT ![w].audio = @ \o SubSeq(buf, 1, k)]
  <2>1. PICK k \in 0..Len(buf) :
           /\ written' = written + k
           /\ disk' = [disk EXCEPT ![w].audio = @ \o SubSeq(buf, 1, k)]
    BY <1>3
  <2>2. k \in Nat /\ k <= Len(buf)
    BY <2>1, <1>1
  <2>3. SubSeq(buf, 1, k) \in Seq(Nat) /\ Len(SubSeq(buf, 1, k)) = k
    <3>1. \A i \in 1..k : buf[i] \in Nat
      BY <2>2, <1>1, ElementOfSeq
    <3> QED  BY <3>1, <2>2, SubSeqProperties
  <2>4. /\ disk[w].audio \o SubSeq(buf, 1, k) \in Seq(Nat)
        /\ Len(disk[w].audio \o SubSeq(buf, 1, k)) = Len(disk[w].audio) + k
    BY <2>3, <1>1, ConcatProperties
  <2>5. disk'[w] = [disk[w] EXCEPT !.audio = @ \o SubSeq(buf, 1, k)]
    BY <2>1, <1>1
  <2>6. /\ disk'[w] \in FileType
        /\ disk'[w].audio = disk[w].audio \o SubSeq(buf, 1, k)
        /\ disk'[w].stage = disk[w].stage
        /\ disk'[w].head = disk[w].head
        /\ disk'[w].pad = disk[w].pad
    BY <2>5, <2>4, <1>1 DEF FileType
  <2>7. /\ disk' \in [Sinks -> FileType]
        /\ \A s \in Sinks \ {w} : disk'[s] = disk[s]
    BY <2>6, <2>1, <1>1
  <2>8. /\ cont' \in Containers
        /\ cont' = "RF64" => cont = "RF64" \/ Rescuable
        /\ cont' = "RIFF" => cont = "RIFF" /\ FitsRIFF(lay, next)
    BY <1>1, <1>3 DEF ContainerFor, TooLarge, Sized64, Containers
  <2>9. FitsRIFF(lay, next) => FitsRIFF(lay, written')
    <3>1. written' \in Nat /\ next \in Nat /\ written' <= next
      BY <1>1, <2>1, <2>2
    <3> HIDE DEF next
    <3> QED  BY <1>1, <3>1, FitsIsDownwardClosed DEF FitsRIFF
  <2> QED
    BY <1>1, <2>1, <2>2, <2>4, <2>6, <2>7, <2>8, <2>9
<1> QED
  BY <1>2, <1>3 DEF emit

(* Only the bound sink may change; then no plain RIFF file is outgrown.    *)
LEMMA PlainStep ==
    ASSUME PlainRIFFNeverOutgrown, TypeOK', LayoutInv', MediumInv',
           \A s \in Sinks : s # w' =>
               disk'[s] = disk[s] /\ ledger'[s].cfg = ledger[s].cfg
    PROVE  PlainRIFFNeverOutgrown'
<1> SUFFICES ASSUME NEW s \in Sinks, disk'[s].stage = "headed",
                    disk'[s].head.magic = "RIFF", disk'[s].head.ds64Id = "none"
             PROVE  HeaderLen(ledger'[s].cfg, disk'[s].head.ds64Id # "none")
                      + Len(disk'[s].audio) + disk'[s].pad - 8 <= MaxUint32
  BY DEF PlainRIFFNeverOutgrown, Headed, headerLength
<1>1. CASE s # w'
  BY <1>1 DEF PlainRIFFNeverOutgrown, Headed, headerLength
<1>2. CASE s = w'
  <2>1. w' # NoSink
    BY <1>2, EncoderAssumption
  <2>2. /\ lay'.hasDS64 \in BOOLEAN /\ cont' \in Containers /\ written' \in Nat
        /\ lay'.dataOffset \in Nat /\ disk'[s].pad \in 0..1
    BY DEF TypeOK, LayoutType, FileType
  <2>3. ~lay'.hasDS64 /\ ledger'[s].cfg = cfg' /\ Len(disk'[s].audio) = written'
        /\ (disk'[s].pad = 1 => written' % 2 # 0)
    BY <1>2, <2>1, <2>2 DEF MediumInv
  <2>4. /\ fitsRIFF(lay'.dataOffset, written')
        /\ lay'.dataOffset = HeaderLen(cfg', FALSE)
    <3>1. cont' = "RIFF"
      BY <2>1, <2>2, <2>3 DEF LayoutInv, Containers
    <3>2. lay'.hasDS64 = FALSE
      BY <2>2, <2>3
    <3> QED  BY <2>1, <3>1, <3>2 DEF LayoutInv, FitsRIFF
  <2>5. HeaderLen(cfg', FALSE) + written' + disk'[s].pad - 8 <= MaxUint32
    BY <2>2, <2>3, <2>4, PadFits
  <2>6. (disk'[s].head.ds64Id # "none") = FALSE
    OBVIOUS
  <2> QED
    BY <2>3, <2>5, <2>6
<1> QED  BY <1>1, <1>2

-----------------------------------------------------------------------------
(* The initial state.                                                      *)

(* The zero Encoder and the blank sinks satisfy the invariant.             *)
LEMMA InitIInv == Init => IInv
<1> SUFFICES ASSUME Init PROVE IInv
  OBVIOUS
<1>1. NoHeader \in HeaderType /\ NoConfig \in ConfigType
  BY DEF NoHeader, HeaderType, NoConfig, ConfigType, Containers, ModeType
<1>2. NoLayout \in LayoutType
  BY <1>1 DEF NoLayout, LayoutType
<1>3. BlankFile \in FileType /\ BlankEntry \in EntryType
  BY <1>1 DEF BlankFile, FileType, BlankEntry, EntryType
<1>4. TypeOK
  <2>1. << >> \in Seq(Nat)
    BY EmptySeq
  <2>2. /\ disk \in [Sinks -> FileType] /\ ledger \in [Sinks -> EntryType]
    BY <1>3 DEF Init
  <2> QED
    BY <1>1, <1>2, <2>1, <2>2 DEF Init, TypeOK, Containers, Errors, PCs
<1>5. CallInv /\ LayoutInv /\ MediumInv /\ BlankInv /\ CloseCanStamp
  BY DEF Init, CallInv, LayoutInv, MediumInv, BlankInv, CloseCanStamp, BlankFile
<1>6. PlainRIFFNeverOutgrown
  BY DEF Init, PlainRIFFNeverOutgrown, Headed, BlankFile
<1> QED  BY <1>4, <1>5, <1>6 DEF IInv, Core

-----------------------------------------------------------------------------
(* Reset.                                                                  *)

(* plan names a container that is written, and reserves only behind RIFF.  *)
LEMMA PlanType ==
    ASSUME NEW c, c.rf64 \in ModeType, NEW canSeek \in BOOLEAN
    PROVE  LET p == plan(c, canSeek)
           IN /\ p.container \in Containers /\ p.reserve \in BOOLEAN
              /\ p.container = "RF64" => c.rf64 # "Never"
              /\ p.reserve => p.container = "RIFF"
<1>1. CASE c.rf64 = "Always"
  BY <1>1 DEF plan, Containers
<1>2. CASE c.rf64 = "Never"
  BY <1>2 DEF plan, Containers
<1>3. CASE c.rf64 = "Auto" /\ framesKnown(c)
  BY <1>3 DEF plan, Containers
<1>4. CASE c.rf64 = "Auto" /\ ~framesKnown(c)
  BY <1>4 DEF plan, Containers
<1> QED  BY <1>1, <1>2, <1>3, <1>4 DEF ModeType

(* A Reset that refuses leaves no stream behind, and no sink touched.      *)
LEMMA ResetRejectedStep ==
    ASSUME IInv, NEW s, NEW c \in Configs, ResetRejected(s, c)
    PROVE  IInv'
<1>1. NoConfig \in ConfigType /\ NoLayout \in LayoutType
  BY DEF NoHeader, HeaderType, NoConfig, ConfigType, Containers, ModeType,
         NoLayout, LayoutType
<1>2. Rejection(s, c) \in Errors /\ Rejection(s, c) # "cannotPatch"
  BY DEF Rejection, plan, Errors
<1>3. TypeOK'
  BY <1>1, <1>2 DEF IInv, Core, TypeOK, ResetRejected, invalidate, Return, Containers, PCs
<1>4. CallInv' /\ LayoutInv' /\ MediumInv' /\ BlankInv' /\ CloseCanStamp'
  BY <1>2 DEF IInv, Core, CallInv, LayoutInv, MediumInv, BlankInv, CloseCanStamp,
       ResetRejected, invalidate, Return
<1>5. PlainRIFFNeverOutgrown'
  BY <1>3, <1>4, PlainStep DEF IInv, ResetRejected
<1> QED  BY <1>3, <1>4, <1>5 DEF IInv, Core

(* A Reset that accepts has built a header for a length that fits it,      *)
(* even when the sink then fails.                                          *)
LEMMA ResetBindsStep ==
    ASSUME IInv, NEW s \in Sinks, NEW c \in Configs, ResetBinds(s, c)
    PROVE  IInv'
<1> DEFINE p == plan(c, s \in SeekableSinks)
           d == sizeAtReset(c)
           built == BuildHeader(c, p.container, p.reserve, d, c.total)
<1>1. /\ c \in ConfigType /\ HasLayout(c) /\ c.frame \in Nat /\ c.total \in Nat
      /\ c.rf64 \in ModeType
  BY EncoderAssumption, ConfigFacts DEF ConfigType
<1>2. /\ s # NoSink /\ c.valid
      /\ CanBuild(c, p.container, p.reserve, d)
  BY EncoderAssumption DEF ResetBinds, Rejection
<1>3. c.frame > 0
  BY <1>2, EncoderAssumption
<1>4. /\ p.container \in Containers /\ p.reserve \in BOOLEAN
      /\ p.container = "RF64" => c.rf64 # "Never"
      /\ p.reserve => p.container = "RIFF"
  <2>1. (s \in SeekableSinks) \in BOOLEAN
    OBVIOUS
  <2>2. p = plan(c, s \in SeekableSinks)
    OBVIOUS
  <2> HIDE DEF p
  <2> QED  BY <1>1, <2>1, <2>2, PlanType
<1>5. d \in Nat
  BY <1>1 DEF sizeAtReset, declaredDataSize
<1>6. /\ built \in LayoutType
      /\ built.hasDS64 = (Sized64(p.container) \/ p.reserve)
      /\ built.dataOffset = HeaderLen(c, built.hasDS64)
      /\ built.bytes.magic = p.container
      /\ (built.bytes.ds64Id = "none") <=> ~built.hasDS64
  BY <1>1, <1>4, <1>5, BuildType
<1>7. p.container = "RIFF" => fitsRIFF(built.dataOffset, 0)
  <2> SUFFICES ASSUME p.container = "RIFF" PROVE fitsRIFF(built.dataOffset, 0)
    OBVIOUS
  <2>1. built.dataOffset = blankLayout(c, p.container, p.reserve).dataOffset
    BY <1>6 DEF blankLayout
  <2>2. fitsRIFF(built.dataOffset, d)
    BY <1>2, <2>1 DEF CanBuild, CanStamp, Sized64, riffSizeFor, fitsRIFF
  <2>3. built.dataOffset \in Nat
    BY <1>6 DEF LayoutType
  <2> QED
    BY <1>5, <2>2, <2>3, FitsIsDownwardClosed
<1>8. /\ w' = s /\ cfg' = c /\ cont' = p.container /\ lay' = built
      /\ written' = 0 /\ carry' = << >> /\ closed' = FALSE
      /\ ledger' = [ledger EXCEPT ![s].cfg = c]
      /\ pc' = "idle" /\ pend' = << >> /\ done' = 0
      /\ ret' = [op |-> "Reset", n |-> 0, err |-> err']
      /\ disk[s].stage = "blank"
  BY DEF ResetBinds, Return
<1>9. /\ err' \in {"nil", "sink"}
      /\ \/ disk' = [disk EXCEPT ![s].stage = "headed", ![s].head = built.bytes]
         \/ /\ err' = "sink"
            /\ \E stage \in {"blank", "stub"} : disk' = [disk EXCEPT ![s].stage = stage]
  BY DEF ResetBinds
<1>10. /\ disk \in [Sinks -> FileType] /\ ledger \in [Sinks -> EntryType]
       /\ disk[s] \in FileType /\ ledger[s] \in EntryType
       /\ disk[s].audio = << >> /\ disk[s].pad = 0
  BY <1>8 DEF IInv, Core, TypeOK, BlankInv
<1>11. built.bytes \in HeaderType
  BY <1>6 DEF LayoutType
<1>12. /\ disk' \in [Sinks -> FileType]
       /\ disk'[s].audio = << >> /\ disk'[s].pad = 0
       /\ \A t \in Sinks \ {s} : disk'[t] = disk[t]
       /\ err' = "nil" => disk'[s].stage = "headed"
       /\ disk'[s].stage = "headed" => disk'[s].head = built.bytes
  <2>1. CASE disk' = [disk EXCEPT ![s].stage = "headed", ![s].head = built.bytes]
    <3>1. disk'[s] = [[disk[s] EXCEPT !.stage = "headed"] EXCEPT !.head = built.bytes]
      BY <1>10, <2>1
    <3>2. /\ disk'[s] \in FileType /\ disk'[s].stage = "headed"
          /\ disk'[s].head = built.bytes
          /\ disk'[s].audio = << >> /\ disk'[s].pad = 0
      BY <1>10, <1>11, <3>1 DEF FileType
    <3> QED  BY <1>10, <2>1, <3>2
  <2>2. ASSUME NEW stage \in {"blank", "stub"}, err' = "sink",
               disk' = [disk EXCEPT ![s].stage = stage]
        PROVE  <1>12!:
    <3>1. disk'[s] = [disk[s] EXCEPT !.stage = stage]
      BY <1>10, <2>2
    <3>2. /\ disk'[s] \in FileType /\ disk'[s].stage = stage
          /\ disk'[s].audio = << >> /\ disk'[s].pad = 0
      BY <1>10, <3>1 DEF FileType
    <3> QED  BY <1>10, <2>2, <3>2
  <2> QED  BY <1>9, <2>1, <2>2
<1>13. /\ ledger' \in [Sinks -> EntryType] /\ ledger'[s].cfg = c
       /\ \A t \in Sinks \ {s} : ledger'[t] = ledger[t]
  BY <1>1, <1>8, <1>10 DEF EntryType
<1> HIDE DEF p, d, built
<1>14. TypeOK'
  <2>1. << >> \in Seq(Nat)
    BY EmptySeq
  <2> QED
    BY <1>1, <1>4, <1>6, <1>8, <1>9, <1>12, <1>13, <2>1 DEF TypeOK, Errors, PCs
<1>15. CallInv' /\ BlankInv' /\ CloseCanStamp'
  <2>1. Len(carry') = 0
    BY <1>8, EmptySeq
  <2>2. CallInv'
    BY <1>1, <1>3, <1>8, <2>1 DEF CallInv
  <2>3. BlankInv'
    BY <1>12 DEF BlankInv, IInv, Core
  <2>4. CloseCanStamp'
    BY <1>9 DEF CloseCanStamp
  <2> QED  BY <2>2, <2>3, <2>4
<1>16. LayoutInv'
  <2>1. p.container = "RF64" => built.hasDS64
    BY <1>6 DEF Sized64
  <2> QED
    BY <1>4, <1>6, <1>7, <1>8, <2>1 DEF LayoutInv, FitsRIFF
<1>17. MediumInv'
  BY <1>6, <1>8, <1>12, <1>13, EmptySeq DEF MediumInv
<1>18. PlainRIFFNeverOutgrown'
  BY <1>8, <1>12, <1>13, <1>14, <1>16, <1>17, PlainStep DEF IInv
<1> QED  BY <1>14, <1>15, <1>16, <1>17, <1>18 DEF IInv, Core

-----------------------------------------------------------------------------
(* Write.                                                                  *)

(* A remainder is smaller than the divisor and no larger than the dividend.*)
LEMMA Remainder ==
    ASSUME NEW n \in Nat, NEW f \in Nat, f > 0
    PROVE  n % f \in Nat /\ n % f < f /\ n % f <= n
<1>1. n % f \in Nat /\ n % f < f
  OBVIOUS
<1>2. n % f <= n
  OBVIOUS
<1> QED  BY <1>1, <1>2

(* An action that returns without touching the stream keeps the invariant. *)
LEMMA WriteRefusedStep ==
    ASSUME IInv, NEW n, WriteRefused(n)
    PROVE  IInv'
<1>1. TypeOK'
  BY EmptySeq DEF IInv, Core, TypeOK, WriteRefused, Return, encoder, PCs, Errors
<1>2. CallInv' /\ LayoutInv' /\ MediumInv' /\ BlankInv' /\ CloseCanStamp'
  BY DEF IInv, Core, CallInv, LayoutInv, MediumInv, BlankInv, CloseCanStamp,
         WriteRefused, Return, encoder
<1>3. PlainRIFFNeverOutgrown'
  BY <1>1, <1>2, PlainStep DEF IInv, WriteRefused
<1> QED  BY <1>1, <1>2, <1>3 DEF IInv, Core

(* Appending a slice to what is carried.                                   *)
LEMMA SliceFacts ==
    ASSUME NEW p \in Seq(Nat), NEW a \in Nat, NEW b \in Nat, 1 <= a, b <= Len(p), a <= b + 1
    PROVE  SubSeq(p, a, b) \in Seq(Nat) /\ Len(SubSeq(p, a, b)) = b - a + 1
<1>1. \A i \in a..b : p[i] \in Nat
  <2> SUFFICES ASSUME NEW i \in a..b PROVE p[i] \in Nat
    OBVIOUS
  <2>1. Len(p) \in Nat
    BY LenProperties
  <2>2. i \in 1..Len(p)
    BY <2>1
  <2> QED  BY <2>2, ElementOfSeq
<1> QED  BY <1>1, SubSeqProperties

(* A Write that only carries, or has yet to reach the sink.                *)
LEMMA WriteBeginStep ==
    ASSUME IInv, NEW n \in WriteSizes, WriteBegin(n)
    PROVE  IInv'
<1> DEFINE p == Offered(n)
           need == cfg.frame - Len(carry)
<1>1. /\ pc = "idle" /\ err = "nil" /\ ~closed /\ w # NoSink /\ w \in Sinks
      /\ n \in Nat /\ cfg \in ConfigType /\ cfg.frame \in Nat
      /\ carry \in Seq(Nat) /\ Len(carry) \in Nat
      /\ ledger \in [Sinks -> EntryType] /\ ledger[w] \in EntryType
      /\ ledger[w].sent \in Nat
  BY EncoderAssumption, ConfigFacts, LenProperties
     DEF WriteBegin, IInv, Core, TypeOK, EntryType
<1>2. need \in Nat /\ need > 0
  BY <1>1 DEF IInv, Core, CallInv
<1>3. p \in Seq(Nat) /\ Len(p) = n
  BY <1>1, IsASeq DEF Offered
<1>4. /\ ledger' = [ledger EXCEPT ![w].sent = @ + n]
      /\ UNCHANGED <<w, cfg, cont, lay, written, closed, err, disk>>
  BY DEF WriteBegin
<1>5. /\ ledger' \in [Sinks -> EntryType]
      /\ \A s \in Sinks : ledger'[s].cfg = ledger[s].cfg
  <2>1. ledger'[w] = [ledger[w] EXCEPT !.sent = @ + n]
    BY <1>1, <1>4
  <2>2. ledger'[w] \in EntryType /\ ledger'[w].cfg = ledger[w].cfg
    BY <1>1, <2>1 DEF EntryType
  <2> QED  BY <1>1, <1>4, <2>2
<1>6. /\ pc' \in {"idle", "emitAligned", "emitCarry"}
      /\ pend' \in Seq(Nat) /\ done' \in Nat /\ carry' \in Seq(Nat)
      /\ ret' = ret \/ \E k \in Nat : ret' = [op |-> "Write", n |-> k, err |-> "nil"]
      /\ Len(carry') <= cfg.frame
      /\ pc' # "emitCarry" => Len(carry') < cfg.frame
      /\ pc' = "emitAligned" => carry' = << >>
  <2>1. CASE n = 0 /\ Return("Write", 0, "nil") /\ UNCHANGED carry
    BY <1>1, <1>2, <2>1, EmptySeq DEF Return
  <2>2. CASE /\ n > 0 /\ carry = << >>
             /\ pend' = p /\ done' = 0 /\ Continue("emitAligned")
             /\ UNCHANGED carry
    BY <1>1, <1>2, <1>3, <2>2 DEF Continue
  <2>3. CASE /\ n > 0 /\ carry # << >> /\ n < need
             /\ carry' = carry \o p /\ Return("Write", n, "nil")
    <3>1. carry \o p \in Seq(Nat) /\ Len(carry \o p) = Len(carry) + n
      BY <1>1, <1>3, ConcatProperties
    <3> HIDE DEF p
    <3> QED
      BY <1>1, <2>3, <3>1, EmptySeq DEF Return
  <2>4. CASE /\ carry # << >> /\ n >= need
             /\ carry' = carry \o SubSeq(p, 1, need)
             /\ pend' = SubSeq(p, need + 1, n) /\ done' = need
             /\ Continue("emitCarry")
    <3> HIDE DEF p
    <3>1. SubSeq(p, 1, need) \in Seq(Nat) /\ Len(SubSeq(p, 1, need)) = need
      <4> HIDE DEF need
      <4> QED  BY <1>1, <1>2, <1>3, <2>4, SliceFacts
    <3>2. SubSeq(p, need + 1, n) \in Seq(Nat)
      <4> HIDE DEF need
      <4>1. need + 1 \in Nat /\ 1 <= need + 1 /\ need + 1 <= n + 1 /\ n <= Len(p)
        BY <1>1, <1>2, <1>3, <2>4
      <4> QED  BY <1>1, <1>3, <4>1, SliceFacts
    <3>3. /\ carry \o SubSeq(p, 1, need) \in Seq(Nat)
          /\ Len(carry \o SubSeq(p, 1, need)) = Len(carry) + need
      <4> HIDE DEF need
      <4> QED  BY <1>1, <1>2, <3>1, ConcatProperties
    <3>4. carry' \in Seq(Nat) /\ Len(carry') = cfg.frame
      <4>1. Len(carry) + need = cfg.frame
        BY <1>1
      <4>2. carry' = carry \o SubSeq(p, 1, need)
        BY <2>4
      <4> HIDE DEF need
      <4> QED  BY <3>3, <4>1, <4>2
    <3>5. pend' \in Seq(Nat) /\ done' \in Nat /\ pc' = "emitCarry" /\ ret' = ret
      BY <1>2, <2>4, <3>2 DEF Continue
    <3> QED
      BY <1>1, <3>4, <3>5
  <2> QED
    BY <2>1, <2>2, <2>3, <2>4 DEF WriteBegin
<1>7. TypeOK'
  BY <1>4, <1>5, <1>6 DEF IInv, Core, TypeOK, PCs, Errors
<1>8. CallInv' /\ LayoutInv' /\ MediumInv' /\ BlankInv' /\ CloseCanStamp'
  BY <1>1, <1>4, <1>5, <1>6
     DEF IInv, Core, CallInv, LayoutInv, MediumInv, BlankInv, CloseCanStamp
<1>9. PlainRIFFNeverOutgrown'
  BY <1>4, <1>5, <1>7, <1>8, PlainStep DEF IInv
<1> QED  BY <1>7, <1>8, <1>9 DEF IInv, Core

(* What a sink call inside Write leaves of the invariant, whatever becomes *)
(* of the call.                                                            *)
LEMMA EmitKeeps ==
    ASSUME IInv, pc \in {"emitCarry", "emitAligned"}, NEW buf \in Seq(Nat), NEW e,
           emit(buf, e), UNCHANGED <<w, cfg, lay, closed, ledger>>
    PROVE  /\ written' \in Nat /\ cont' \in Containers /\ disk' \in [Sinks -> FileType]
           /\ LayoutInv' /\ BlankInv'
           /\ err' # "nil" \/ err' = err => MediumInv'
           /\ \A s \in Sinks : s # w' => disk'[s] = disk[s]
<1>1. w \in Sinks /\ w # NoSink /\ err = "nil" /\ ~closed
  BY DEF IInv, Core, CallInv, TypeOK
<1>2. TypeOK
  BY DEF IInv, Core
<1>3. /\ written' \in Nat /\ cont' \in Containers
      /\ disk' \in [Sinks -> FileType]
      /\ \A s \in Sinks \ {w} : disk'[s] = disk[s]
      /\ disk'[w].stage = disk[w].stage
      /\ disk'[w].head = disk[w].head
      /\ disk'[w].pad = disk[w].pad
      /\ Len(disk[w].audio) = written => Len(disk'[w].audio) = written'
      /\ cont' = "RIFF" =>
            /\ cont = "RIFF"
            /\ FitsRIFF(lay, written) => FitsRIFF(lay, written')
      /\ cont' = "RF64" => cont = "RF64" \/ Rescuable
  BY <1>1, <1>2, EmitStep
<1>4. LayoutInv'
  <2>1. lay' = lay /\ cfg' = cfg /\ w' = w
    OBVIOUS
  <2>2. cont' = "RIFF" => lay.bytes.magic = "RIFF" /\ FitsRIFF(lay, written')
    BY <1>1, <1>3 DEF IInv, Core, LayoutInv
  <2>3. cont' = "RF64" => lay.hasDS64 /\ (lay.bytes.magic = "RF64" \/ cfg.rf64 = "Auto")
    BY <1>1, <1>3 DEF IInv, Core, LayoutInv, Rescuable
  <2> QED
    BY <1>1, <2>1, <2>2, <2>3 DEF IInv, Core, LayoutInv, FitsRIFF
<1>5. disk[w].stage = "headed" /\ disk[w].pad = 0
  BY <1>1 DEF IInv, Core, MediumInv
<1>6. BlankInv'
  BY <1>3, <1>5 DEF IInv, Core, BlankInv
<1>7. MediumInv'
  BY <1>1, <1>3, <1>5 DEF IInv, Core, MediumInv
<1> QED  BY <1>3, <1>4, <1>6, <1>7

(* The carried frame is sent; when that fails the whole frame stays        *)
(* carried.                                                                *)
LEMMA EmitCarryStep ==
    ASSUME IInv, EmitCarry
    PROVE  IInv'
<1>1. PICK e \in EmitResults :
         /\ emit(carry, e)
         /\ IF e = "nil"
            THEN /\ carry' = << >> /\ Continue("emitAligned")
                 /\ UNCHANGED <<err, pend, done>>
            ELSE Fail("Write", 0, e) /\ UNCHANGED carry
  BY DEF EmitCarry
<1>2. /\ pc = "emitCarry" /\ carry \in Seq(Nat) /\ UNCHANGED <<w, cfg, lay, closed, ledger>>
      /\ err = "nil" /\ w # NoSink /\ ~closed
      /\ cfg.frame \in Nat /\ cfg.frame > 0 /\ Len(carry) <= cfg.frame
  BY ConfigFacts DEF EmitCarry, IInv, Core, TypeOK, CallInv
<1>3. /\ written' \in Nat /\ cont' \in Containers /\ disk' \in [Sinks -> FileType]
      /\ LayoutInv' /\ BlankInv' /\ MediumInv'
      /\ \A s \in Sinks : s # w' => disk'[s] = disk[s]
  BY <1>1, <1>2, EmitKeeps
<1>4. /\ TypeOK' /\ CallInv' /\ CloseCanStamp'
  <2>1. CASE e = "nil"
    <3>1. /\ carry' = << >> /\ pc' = "emitAligned" /\ Len(carry') = 0
          /\ UNCHANGED <<ret, err, pend, done>>
      BY <1>1, <2>1, EmptySeq DEF Continue
    <3>2. TypeOK'
      BY <1>2, <1>3, <3>1, EmptySeq DEF IInv, Core, TypeOK, PCs
    <3> QED
      BY <1>2, <3>1, <3>2 DEF CallInv, CloseCanStamp
  <2>2. CASE e \in {"tooLarge", "sink"}
    <3>1. /\ carry' = carry /\ err' = e /\ pc' = "idle" /\ pend' = << >> /\ done' = 0
          /\ ret' = [op |-> "Write", n |-> 0, err |-> e]
      BY <1>1, <1>2, <2>2 DEF Fail, Latched, Return
    <3>2. TypeOK'
      BY <1>2, <1>3, <2>2, <3>1, EmptySeq DEF IInv, Core, TypeOK, PCs, Errors
    <3> QED
      BY <1>2, <2>2, <3>1, <3>2 DEF CallInv, CloseCanStamp
  <2> QED  BY <2>1, <2>2 DEF EmitResults
<1>5. PlainRIFFNeverOutgrown'
  BY <1>2, <1>3, <1>4, PlainStep DEF IInv
<1> QED  BY <1>3, <1>4, <1>5 DEF IInv, Core

(* The whole frames are sent and less than a frame is carried.             *)
LEMMA EmitAlignedStep ==
    ASSUME IInv, EmitAligned
    PROVE  IInv'
<1> DEFINE part == Len(pend) % cfg.frame
           whole == Len(pend) - part
           rest == SubSeq(pend, whole + 1, Len(pend))
<1>1. PICK e \in EmitResults :
         /\ IF whole > 0
            THEN emit(SubSeq(pend, 1, whole), e)
            ELSE e = "nil" /\ UNCHANGED <<written, cont, disk>>
         /\ IF e = "nil"
            THEN /\ carry' = carry \o rest
                 /\ Return("Write", done + Len(pend), "nil")
                 /\ UNCHANGED err
            ELSE Fail("Write", done, e) /\ UNCHANGED carry
  BY DEF EmitAligned
<1>2. /\ pc = "emitAligned" /\ UNCHANGED <<w, cfg, lay, closed, ledger>>
      /\ err = "nil" /\ w # NoSink /\ ~closed /\ carry = << >>
      /\ pend \in Seq(Nat) /\ Len(pend) \in Nat /\ done \in Nat
      /\ cfg.frame \in Nat /\ cfg.frame > 0
  BY ConfigFacts, LenProperties DEF EmitAligned, IInv, Core, TypeOK, CallInv
<1>3. part \in Nat /\ part < cfg.frame /\ part <= Len(pend)
  BY <1>2, Remainder
<1>4. whole \in Nat /\ whole <= Len(pend)
  <2> HIDE DEF part
  <2> QED  BY <1>2, <1>3
<1>5. rest \in Seq(Nat) /\ Len(rest) < cfg.frame
  <2>1. whole + 1 \in Nat /\ 1 <= whole + 1 /\ whole + 1 <= Len(pend) + 1
        /\ Len(pend) - (whole + 1) + 1 = part
    <3> HIDE DEF part
    <3> QED  BY <1>2, <1>3, <1>4
  <2> HIDE DEF whole, part
  <2> QED  BY <1>2, <1>3, <2>1, SliceFacts
<1>6. carry \o rest = rest
  <2> HIDE DEF rest
  <2> QED  BY <1>2, <1>5, ConcatEmptySeq
<1> HIDE DEF part, whole, rest
<1>7. /\ written' \in Nat /\ cont' \in Containers /\ disk' \in [Sinks -> FileType]
      /\ LayoutInv' /\ BlankInv' /\ MediumInv'
      /\ \A s \in Sinks : s # w' => disk'[s] = disk[s]
  <2>1. CASE whole > 0
    <3>1. SubSeq(pend, 1, whole) \in Seq(Nat)
      BY <1>2, <1>4, <2>1, SliceFacts
    <3> QED
      BY <1>1, <1>2, <2>1, <3>1, EmitKeeps DEF Fail, Latched
  <2>2. CASE ~(whole > 0)
    BY <1>1, <1>2, <2>2
       DEF IInv, Core, TypeOK, LayoutInv, BlankInv, MediumInv, FitsRIFF
  <2> QED  BY <2>1, <2>2
<1>8. TypeOK' /\ CallInv' /\ CloseCanStamp'
  <2>1. CASE e = "nil"
    <3>1. /\ carry' = rest /\ UNCHANGED err /\ pc' = "idle" /\ pend' = << >> /\ done' = 0
          /\ ret' = [op |-> "Write", n |-> done + Len(pend), err |-> "nil"]
      BY <1>1, <1>6, <2>1 DEF Return
    <3> QED
      BY <1>2, <1>5, <1>7, <3>1, LenProperties, EmptySeq
         DEF IInv, Core, TypeOK, CallInv, CloseCanStamp, PCs, Errors
  <2>2. CASE e \in {"tooLarge", "sink"}
    <3>1. /\ carry' = carry /\ err' = e /\ pc' = "idle" /\ pend' = << >> /\ done' = 0
          /\ ret' = [op |-> "Write", n |-> done, err |-> e]
      BY <1>1, <1>2, <2>2 DEF Fail, Latched, Return
    <3>2. TypeOK'
      BY <1>2, <1>7, <2>2, <3>1, EmptySeq DEF IInv, Core, TypeOK, PCs, Errors
    <3>3. Len(carry) = 0
      BY <1>2, EmptySeq
    <3> QED
      BY <1>2, <2>2, <3>1, <3>2, <3>3 DEF CallInv, CloseCanStamp
  <2> QED  BY <2>1, <2>2 DEF EmitResults
<1>9. PlainRIFFNeverOutgrown'
  BY <1>2, <1>7, <1>8, PlainStep DEF IInv
<1> QED  BY <1>7, <1>8, <1>9 DEF IInv, Core

-----------------------------------------------------------------------------
(* Close.                                                                  *)

(* Leaving a call: the position in it is cleared.                          *)
LEMMA ReturnFacts ==
    ASSUME NEW op, NEW n, NEW e, Return(op, n, e)
    PROVE  /\ pc' = "idle" /\ pend' \in Seq(Nat) /\ done' \in Nat
           /\ ret' = [op |-> op, n |-> n, err |-> e]
  BY EmptySeq DEF Return

(* The first failure is the one latched and reported.                      *)
LEMMA FailFacts ==
    ASSUME NEW op, NEW n, NEW e, Fail(op, n, e), err = "nil"
    PROVE  /\ err' = e
           /\ pc' = "idle" /\ pend' \in Seq(Nat) /\ done' \in Nat
           /\ ret' = [op |-> op, n |-> n, err |-> e]
  BY ReturnFacts DEF Fail, Latched

(* Closing again changes nothing.                                          *)
LEMMA CloseAgainStep ==
    ASSUME IInv, CloseAgain
    PROVE  IInv'
<1>1. TypeOK'
  BY EmptySeq DEF IInv, Core, TypeOK, CloseAgain, Return, encoder, PCs, Errors
<1>2. CallInv' /\ LayoutInv' /\ MediumInv' /\ BlankInv' /\ CloseCanStamp'
  BY DEF IInv, Core, CallInv, LayoutInv, MediumInv, BlankInv, CloseCanStamp,
         CloseAgain, Return, encoder
<1>3. PlainRIFFNeverOutgrown'
  BY <1>1, <1>2, PlainStep DEF IInv, CloseAgain
<1> QED  BY <1>1, <1>2, <1>3 DEF IInv, Core

(* Close decides whether there is anything to pad.                         *)
LEMMA CloseBeginStep ==
    ASSUME IInv, CloseBegin
    PROVE  IInv'
<1>1. /\ pc = "idle" /\ ~closed /\ w # NoSink /\ closed' = TRUE
      /\ UNCHANGED <<w, cfg, cont, lay, written, carry, disk, ledger>>
  BY DEF CloseBegin
<1>2. \/ /\ err # "nil" /\ Return("Close", 0, err) /\ UNCHANGED err
      \/ /\ err = "nil" /\ Fail("Close", 0, "partialFrame")
      \/ /\ err = "nil" /\ UNCHANGED <<err, pend, done>>
         /\ Continue(IF written % 2 # 0 THEN "pad" ELSE "verify")
  BY DEF CloseBegin
<1>3. /\ err' \in {err, "partialFrame"} /\ pend' \in Seq(Nat) /\ done' \in Nat
      /\ \/ pc' = "idle"
         \/ err' = "nil" /\ pc' = "pad" /\ written % 2 # 0
         \/ err' = "nil" /\ pc' = "verify"
      /\ \/ ret' = ret
         \/ ret' = [op |-> "Close", n |-> 0, err |-> err']
  <2>1. CASE err # "nil" /\ Return("Close", 0, err) /\ UNCHANGED err
    BY <2>1, ReturnFacts
  <2>2. CASE err = "nil" /\ Fail("Close", 0, "partialFrame")
    BY <2>2, FailFacts
  <2>3. CASE /\ err = "nil" /\ UNCHANGED <<err, pend, done>>
             /\ Continue(IF written % 2 # 0 THEN "pad" ELSE "verify")
    BY <2>3 DEF Continue, IInv, Core, TypeOK
  <2> QED  BY <1>2, <2>1, <2>2, <2>3
<1>4. err' = "nil" => err = "nil"
  BY <1>2 DEF Fail, Latched
<1>5. TypeOK'
  BY <1>1, <1>3 DEF IInv, Core, TypeOK, PCs, Errors
<1>6. CallInv' /\ LayoutInv' /\ MediumInv' /\ BlankInv' /\ CloseCanStamp'
  BY <1>1, <1>3, <1>4
     DEF IInv, Core, CallInv, LayoutInv, MediumInv, BlankInv, CloseCanStamp, FitsRIFF
<1>7. PlainRIFFNeverOutgrown'
  BY <1>1, <1>5, <1>6, PlainStep DEF IInv
<1> QED  BY <1>5, <1>6, <1>7 DEF IInv, Core

(* The pad byte goes after an odd length only, whether or not the sink     *)
(* takes it.                                                               *)
LEMMA WritePadStep ==
    ASSUME IInv, WritePad
    PROVE  IInv'
<1>1. /\ pc = "pad" /\ err = "nil" /\ w # NoSink /\ w \in Sinks /\ closed
      /\ written % 2 # 0
      /\ disk \in [Sinks -> FileType] /\ disk[w] \in FileType
      /\ UNCHANGED <<w, cfg, cont, lay, written, carry, closed, ledger>>
  BY DEF WritePad, IInv, Core, TypeOK, CallInv
<1>2. PICK pad \in 0..1 : disk' = [disk EXCEPT ![w].pad = pad]
  BY DEF WritePad
<1>3. \/ Continue("verify") /\ UNCHANGED <<err, pend, done>>
      \/ Fail("Close", 0, "sink")
  BY DEF WritePad
<1>4. /\ disk' \in [Sinks -> FileType]
      /\ \A s \in Sinks \ {w} : disk'[s] = disk[s]
      /\ disk'[w].stage = disk[w].stage /\ disk'[w].head = disk[w].head
      /\ disk'[w].audio = disk[w].audio
  <2>1. disk'[w] = [disk[w] EXCEPT !.pad = pad]
    BY <1>1, <1>2
  <2>2. disk'[w] \in FileType
        /\ disk'[w].stage = disk[w].stage /\ disk'[w].head = disk[w].head
        /\ disk'[w].audio = disk[w].audio
    BY <1>1, <1>2, <2>1 DEF FileType
  <2> QED  BY <1>1, <1>2, <2>2
<1>5. /\ err' \in {"nil", "sink"} /\ pend' \in Seq(Nat) /\ done' \in Nat
      /\ pc' = "idle" \/ (pc' = "verify" /\ err' = "nil")
      /\ ret' = ret \/ ret' = [op |-> "Close", n |-> 0, err |-> "sink"]
  <2>1. CASE Continue("verify") /\ UNCHANGED <<err, pend, done>>
    BY <1>1, <2>1 DEF Continue, IInv, Core, TypeOK
  <2>2. CASE Fail("Close", 0, "sink")
    BY <1>1, <2>2, FailFacts
  <2> QED  BY <1>3, <2>1, <2>2
<1>6. TypeOK'
  BY <1>1, <1>4, <1>5 DEF IInv, Core, TypeOK, PCs, Errors
<1>7. disk[w].stage = "headed"
  BY <1>1 DEF IInv, Core, MediumInv
<1>8. CallInv' /\ LayoutInv' /\ CloseCanStamp'
  BY <1>1, <1>5
     DEF IInv, Core, CallInv, LayoutInv, CloseCanStamp, FitsRIFF
<1>9. MediumInv' /\ BlankInv'
  BY <1>1, <1>4, <1>5, <1>7 DEF IInv, Core, MediumInv, BlankInv
<1>10. PlainRIFFNeverOutgrown'
  BY <1>1, <1>4, <1>6, <1>8, <1>9, PlainStep DEF IInv
<1> QED  BY <1>6, <1>8, <1>9, <1>10 DEF IInv, Core

(* The header chosen by Close can always hold the sizes.                   *)
LEMMA FinaliseIsPossible ==
    ASSUME IInv, w # NoSink
    PROVE  CanFinalise
<1>1. cont \in Containers /\ written \in Nat /\ lay.dataOffset \in Nat
  BY DEF IInv, Core, TypeOK, LayoutType
<1>2. CASE cont = "RIFF"
  BY <1>1, <1>2 DEF IInv, Core, LayoutInv, CanFinalise, Upgrading, Sized64,
       CanPatch, CanStamp, FitsRIFF, fitsRIFF, riffSizeFor
<1>3. CASE cont = "RF64"
  BY <1>1, <1>3 DEF IInv, Core, LayoutInv, CanFinalise, Upgrading, Sized64,
       CanPatch, CanUpgrade, CanStamp
<1> QED  BY <1>1, <1>2, <1>3 DEF Containers

(* The steps of Close that only decide, seek, or seal.                     *)
LEMMA CloseOnStep ==
    ASSUME IInv, pc \in {"verify", "seekHead", "seekEnd"},
           UNCHANGED <<w, cfg, cont, lay, written, carry, closed, disk>>,
           \/ /\ UNCHANGED <<err, pend, done, ret, ledger>>
              /\ pc' \in {"seekHead", "rewrite"}
           \/ /\ Return("Close", 0, "nil") /\ Seal /\ UNCHANGED err
           \/ /\ Fail("Close", 0, "frameMismatch") \/ Fail("Close", 0, "sink")
              /\ UNCHANGED ledger
    PROVE  IInv'
<1>1. /\ err = "nil" /\ w # NoSink /\ w \in Sinks /\ closed
      /\ ledger \in [Sinks -> EntryType] /\ ledger[w] \in EntryType
  BY DEF IInv, Core, TypeOK, CallInv
<1>2. /\ ledger' \in [Sinks -> EntryType]
      /\ \A s \in Sinks : ledger'[s].cfg = ledger[s].cfg
  <2>1. CASE ledger' = ledger
    BY <1>1, <2>1
  <2>2. CASE Seal
    <3>1. ledger'[w] = [ledger[w] EXCEPT !.sealed = TRUE]
      BY <1>1, <2>2 DEF Seal
    <3>2. ledger'[w] \in EntryType /\ ledger'[w].cfg = ledger[w].cfg
      BY <1>1, <3>1 DEF EntryType
    <3> QED  BY <1>1, <2>2, <3>2 DEF Seal
  <2> QED  BY <2>1, <2>2
<1>3. /\ err' \in {"nil", "frameMismatch", "sink"}
      /\ pend' \in Seq(Nat) /\ done' \in Nat
      /\ pc' = "idle" \/ (pc' \in {"seekHead", "rewrite"} /\ err' = "nil")
      /\ ret' = ret \/ ret' = [op |-> "Close", n |-> 0, err |-> err']
  <2>1. CASE UNCHANGED <<err, pend, done, ret>> /\ pc' \in {"seekHead", "rewrite"}
    BY <1>1, <2>1 DEF IInv, Core, TypeOK
  <2>2. CASE Return("Close", 0, "nil") /\ UNCHANGED err
    BY <1>1, <2>2, ReturnFacts
  <2>3. CASE Fail("Close", 0, "frameMismatch") \/ Fail("Close", 0, "sink")
    BY <1>1, <2>3, FailFacts
  <2> QED  BY <2>1, <2>2, <2>3
<1>4. TypeOK'
  BY <1>2, <1>3 DEF IInv, Core, TypeOK, PCs, Errors
<1>5. CallInv' /\ LayoutInv' /\ MediumInv' /\ BlankInv' /\ CloseCanStamp'
  BY <1>1, <1>2, <1>3
     DEF IInv, Core, CallInv, LayoutInv, MediumInv, BlankInv, CloseCanStamp, FitsRIFF
<1>6. PlainRIFFNeverOutgrown'
  BY <1>2, <1>4, <1>5, PlainStep DEF IInv
<1> QED  BY <1>4, <1>5, <1>6 DEF IInv, Core

(* The declared count is compared; the cannotPatch branch is never taken.  *)
LEMMA VerifyStep ==
    ASSUME IInv, Verify
    PROVE  IInv'
<1>1. /\ pc = "verify" /\ CanFinalise
      /\ UNCHANGED <<w, cfg, cont, lay, written, carry, closed, disk>>
  BY FinaliseIsPossible DEF Verify, IInv, Core, CallInv
<1>2. \/ Fail("Close", 0, "frameMismatch") /\ UNCHANGED ledger
      \/ Return("Close", 0, "nil") /\ Seal /\ UNCHANGED err
      \/ Continue("seekHead") /\ UNCHANGED <<err, pend, done, ledger>>
  BY <1>1 DEF Verify
<1> QED  BY <1>1, <1>2, CloseOnStep DEF Continue

(* Seeking back to the header.                                             *)
LEMMA SeekHeadStep ==
    ASSUME IInv, SeekHead
    PROVE  IInv'
  BY CloseOnStep DEF SeekHead, Continue

(* Seeking forward again ends Close.                                       *)
LEMMA SeekEndStep ==
    ASSUME IInv, SeekEnd
    PROVE  IInv'
  BY CloseOnStep DEF SeekEnd

(* The header is replaced, in full or up to the byte the sink failed at.   *)
LEMMA RewriteHeadStep ==
    ASSUME IInv, RewriteHead
    PROVE  IInv'
<1>1. /\ pc = "rewrite" /\ err = "nil" /\ w # NoSink /\ w \in Sinks /\ closed
      /\ disk \in [Sinks -> FileType] /\ disk[w] \in FileType
      /\ disk[w].stage = "headed" /\ disk[w].head \in HeaderType
      /\ (disk[w].head.ds64Id = "none") <=> ~lay.hasDS64
      /\ UNCHANGED <<w, cfg, cont, lay, written, carry, closed, ledger>>
  BY DEF RewriteHead, IInv, Core, TypeOK, CallInv, MediumInv, FileType
<1>2. /\ lay \in LayoutType /\ cont \in Containers /\ written \in Nat /\ frames \in Nat
      /\ (lay.bytes.ds64Id = "none") <=> ~lay.hasDS64
  <2>1. cfg.frame \in Nat /\ written \in Nat
    BY ConfigFacts DEF IInv, Core, TypeOK
  <2>2. frames \in Nat
    BY <2>1 DEF frames
  <2> QED  BY <1>1, <2>2 DEF IInv, Core, TypeOK, LayoutInv
<1>3. lay.dataOffset >= 8
  <2>1. HasLayout(cfg) /\ lay.hasDS64 \in BOOLEAN
    BY <1>2, ConfigFacts DEF IInv, Core, TypeOK, LayoutType
  <2>2. HeaderLen(cfg, lay.hasDS64) \in Nat /\ HeaderLen(cfg, lay.hasDS64) >= 44
    BY <2>1, HeaderLenBounds
  <2> QED  BY <1>1, <2>2 DEF IInv, Core, LayoutInv
<1>4. FinalHeader \in HeaderType /\ ((FinalHeader.ds64Id = "none") <=> ~lay.hasDS64)
  <2>1. Upgrading => lay.hasDS64
    BY DEF Upgrading
  <2> HIDE DEF frames
  <2> QED  BY <1>2, <1>3, <2>1, FinalHeaderType DEF FinalHeader
<1>5. PICK head \in HeaderType :
         /\ (head.ds64Id = "none") <=> ~lay.hasDS64
         /\ disk' = [disk EXCEPT ![w].head = head]
  <2>1. CASE disk' = [disk EXCEPT ![w].head = FinalHeader]
    BY <1>4, <2>1
  <2>2. ASSUME NEW n \in 0..RewrittenFields, NEW m \in Places \cup {1},
               disk' = [disk EXCEPT ![w].head = tornHeader(@, FinalHeader, n, m)]
        PROVE  \E head \in HeaderType :
                  /\ (head.ds64Id = "none") <=> ~lay.hasDS64
                  /\ disk' = [disk EXCEPT ![w].head = head]
    <3> DEFINE torn == tornHeader(disk[w].head, FinalHeader, n, m)
    <3>1. /\ torn \in HeaderType
          /\ torn.ds64Id \in {disk[w].head.ds64Id, FinalHeader.ds64Id}
      <4>1. n \in Nat /\ m \in Nat \ {0}
        BY EncoderAssumption
      <4> DEFINE was == disk[w].head
                 final == FinalHeader
                 id == tornHeader(was, final, n, m).ds64Id
      <4>2. was \in HeaderType /\ final \in HeaderType
        BY <1>1, <1>4
      <4> HIDE DEF was, final
      <4>3. /\ tornHeader(was, final, n, m) \in HeaderType
            /\ id = IF n >= 3 THEN final.ds64Id ELSE was.ds64Id
        BY <4>1, <4>2, TornType
      <4> HIDE DEF id
      <4>4. id \in {was.ds64Id, final.ds64Id}
        BY <4>3
      <4> QED  BY <4>3, <4>4 DEF was, final, id
    <3>2. disk' = [disk EXCEPT ![w].head = torn]
      BY <2>2
    <3> HIDE DEF torn
    <3> QED  BY <1>1, <1>4, <3>1, <3>2
  <2> QED  BY <2>1, <2>2 DEF RewriteHead
<1>6. /\ disk' \in [Sinks -> FileType]
      /\ \A s \in Sinks \ {w} : disk'[s] = disk[s]
      /\ disk'[w].stage = disk[w].stage /\ disk'[w].head = head
      /\ disk'[w].audio = disk[w].audio /\ disk'[w].pad = disk[w].pad
  <2>1. disk'[w] = [disk[w] EXCEPT !.head = head]
    BY <1>1, <1>5
  <2>2. /\ disk'[w] \in FileType
        /\ disk'[w].stage = disk[w].stage /\ disk'[w].head = head
        /\ disk'[w].audio = disk[w].audio /\ disk'[w].pad = disk[w].pad
    BY <1>1, <1>5, <2>1 DEF FileType
  <2> QED  BY <1>1, <1>5, <2>2
<1>7. /\ err' \in {"nil", "sink"} /\ pend' \in Seq(Nat) /\ done' \in Nat
      /\ pc' = "idle" \/ (pc' = "seekEnd" /\ err' = "nil")
      /\ ret' = ret \/ ret' = [op |-> "Close", n |-> 0, err |-> "sink"]
  <2>1. \/ Continue("seekEnd") /\ UNCHANGED <<err, pend, done>>
        \/ Fail("Close", 0, "sink")
    BY DEF RewriteHead
  <2>2. CASE Continue("seekEnd") /\ UNCHANGED <<err, pend, done>>
    BY <1>1, <2>2 DEF Continue, IInv, Core, TypeOK
  <2>3. CASE Fail("Close", 0, "sink")
    BY <1>1, <2>3, FailFacts
  <2> QED  BY <2>1, <2>2, <2>3
<1>8. TypeOK'
  BY <1>1, <1>6, <1>7 DEF IInv, Core, TypeOK, PCs, Errors
<1>9. CallInv' /\ LayoutInv' /\ CloseCanStamp'
  BY <1>1, <1>7
     DEF IInv, Core, CallInv, LayoutInv, CloseCanStamp, FitsRIFF
<1>10. MediumInv' /\ BlankInv'
  BY <1>1, <1>5, <1>6, <1>7 DEF IInv, Core, MediumInv, BlankInv
<1>11. PlainRIFFNeverOutgrown'
  BY <1>1, <1>6, <1>8, <1>9, <1>10, PlainStep DEF IInv
<1> QED  BY <1>8, <1>9, <1>10, <1>11 DEF IInv, Core

-----------------------------------------------------------------------------
(* The invariant holds, and with it what it implies.                       *)

(* Nothing moves.                                                          *)
LEMMA StutterStep ==
    ASSUME IInv, UNCHANGED vars
    PROVE  IInv'
<1>1. Core'
  BY DEF IInv, Core, TypeOK, CallInv, LayoutInv, MediumInv, BlankInv, CloseCanStamp,
         FitsRIFF, vars, encoder, call
<1>2. PlainRIFFNeverOutgrown'
  BY <1>1, PlainStep DEF IInv, Core, vars, encoder, call
<1> QED  BY <1>1, <1>2 DEF IInv

(* Every call of the encoder, at every sink call inside it, keeps IInv.    *)
LEMMA NextKeepsIInv ==
    ASSUME IInv, [Next]_vars
    PROVE  IInv'
<1>1. ASSUME NEW s \in Sinks \cup {NoSink}, NEW c \in Configs, Reset(s, c)
      PROVE  IInv'
  <2>1. CASE ResetRejected(s, c)
    BY <2>1, ResetRejectedStep
  <2>2. CASE ResetBinds(s, c)
    <3>1. s \in Sinks
      BY <2>2 DEF ResetBinds, Rejection
    <3> QED  BY <2>2, <3>1, ResetBindsStep
  <2> QED  BY <1>1, <2>1, <2>2 DEF Reset
<1>2. ASSUME NEW n \in WriteSizes, Write(n)
      PROVE  IInv'
  BY <1>2, WriteRefusedStep, WriteBeginStep DEF Write
<1>3. CASE Close
  BY <1>3, CloseAgainStep, CloseBeginStep DEF Close
<1>4. CASE Running
  BY <1>4, EmitCarryStep, EmitAlignedStep, WritePadStep, VerifyStep,
     SeekHeadStep, RewriteHeadStep, SeekEndStep DEF Running
<1>5. CASE UNCHANGED vars
  BY <1>5, StutterStep
<1> QED  BY <1>1, <1>2, <1>3, <1>4, <1>5 DEF Next

(* The inductive invariant holds in every state the encoder reaches.       *)
THEOREM Invariance == Spec => []IInv
<1>1. Init => IInv
  BY InitIInv
<1>2. IInv /\ [Next]_vars => IInv'
  BY NextKeepsIInv
<1> QED  BY <1>1, <1>2, PTL DEF Spec

(* Every variable, and everything on every sink, keeps its type: the       *)
(* carry, the counters and the header fields never go negative or          *)
(* undefined, whatever fails.                                              *)
THEOREM TypeCorrect == Spec => []TypeOK
<1>1. IInv => TypeOK
  BY DEF IInv, Core
<1> QED  BY <1>1, Invariance, PTL

(* For every 32-bit limit, header length and sequence of Writes, a plain   *)
(* RIFF header never heads more audio and padding than it can describe:    *)
(* checkCapacity refuses before the sink is touched.                       *)
THEOREM PlainRIFFSafe == Spec => []PlainRIFFNeverOutgrown
<1>1. IInv => PlainRIFFNeverOutgrown
  BY DEF IInv
<1> QED  BY <1>1, Invariance, PTL

(* What checkCapacity accepted, Close can stamp: neither PatchSizes nor    *)
(* UpgradeToRF64 ever refuses.                                             *)
THEOREM CloseStamps == Spec => []CloseCanStamp
<1>1. IInv => CloseCanStamp
  BY DEF IInv, Core
<1> QED  BY <1>1, Invariance, PTL

-----------------------------------------------------------------------------
(* The action properties FailureIsFinal and CloseIsFinal.                  *)

(* A failed Reset left its error latched; a sealed sink has its header,    *)
(* and if it is the bound one no call is running on it.                    *)
ResetInv == ret.op = "Reset" /\ ret.err # "nil" => err = ret.err

SealInv ==
    \A s \in Sinks : ledger[s].sealed =>
        /\ disk[s].stage = "headed"
        /\ s = w => closed /\ pc = "idle" /\ err = "nil"

FinalInv == ResetInv /\ SealInv

-----------------------------------------------------------------------------
(* The steps inside a call leave every other sink alone, and the bound     *)
(* sink is not sealed while they run.                                      *)
LEMMA RunningStep ==
    ASSUME IInv, Running
    PROVE  /\ pc # "idle" /\ err = "nil" /\ w # NoSink /\ w' = w
           /\ disk[w].stage = "headed" /\ disk'[w].stage = "headed"
           /\ \A s \in Sinks : s # w =>
                 disk'[s] = disk[s] /\ ledger'[s] = ledger[s]
           /\ ledger' = ledger \/ (Seal /\ closed' /\ pc' = "idle" /\ err' = "nil")
           /\ \/ ret' = ret /\ err' = err
              \/ ret'.op \in {"Write", "Close"}
<1>1. pc # "idle"
  BY DEF Running, EmitCarry, EmitAligned, WritePad, Verify, SeekHead, RewriteHead, SeekEnd
<1>2. /\ err = "nil" /\ w # NoSink /\ w \in Sinks /\ disk[w].stage = "headed"
      /\ disk \in [Sinks -> FileType] /\ disk[w] \in FileType
      /\ ledger \in [Sinks -> EntryType]
  BY <1>1 DEF IInv, Core, TypeOK, CallInv, MediumInv
<1>3. w' = w
  BY DEF Running, EmitCarry, EmitAligned, WritePad, Verify, SeekHead, RewriteHead, SeekEnd
<1>4. /\ \A s \in Sinks : s # w => disk'[s] = disk[s]
      /\ disk'[w].stage = disk[w].stage
  <2>1. ASSUME NEW buf, NEW e, emit(buf, e)
        PROVE  <1>4!:
    <3>1. CASE disk' = disk
      BY <3>1
    <3>2. ASSUME NEW k, disk' = [disk EXCEPT ![w].audio = @ \o SubSeq(buf, 1, k)]
          PROVE  <1>4!:
      <4>1. disk'[w] = [disk[w] EXCEPT !.audio = @ \o SubSeq(buf, 1, k)]
        BY <1>2, <3>2
      <4>2. disk'[w].stage = disk[w].stage
        BY <1>2, <4>1 DEF FileType
      <4> QED  BY <1>2, <3>2, <4>2
    <3> QED  BY <2>1, <3>1, <3>2 DEF emit
  <2>2. ASSUME NEW pad, disk' = [disk EXCEPT ![w].pad = pad]
        PROVE  <1>4!:
    <3>1. disk'[w] = [disk[w] EXCEPT !.pad = pad]
      BY <1>2, <2>2
    <3>2. disk'[w].stage = disk[w].stage
      BY <1>2, <3>1 DEF FileType
    <3> QED  BY <1>2, <2>2, <3>2
  <2>3. ASSUME NEW head, disk' = [disk EXCEPT ![w].head = head]
        PROVE  <1>4!:
    <3>1. disk'[w] = [disk[w] EXCEPT !.head = head]
      BY <1>2, <2>3
    <3>2. disk'[w].stage = disk[w].stage
      BY <1>2, <3>1 DEF FileType
    <3> QED  BY <1>2, <2>3, <3>2
  <2>4. CASE EmitCarry
    BY <2>1, <2>4 DEF EmitCarry
  <2>5. CASE EmitAligned
    <3>1. \/ disk' = disk
          \/ \E buf, e : emit(buf, e)
      BY <2>5 DEF EmitAligned
    <3> QED  BY <2>1, <3>1
  <2>6. CASE WritePad
    BY <2>2, <2>6 DEF WritePad
  <2>7. CASE RewriteHead
    BY <2>3, <2>7 DEF RewriteHead
  <2>8. CASE Verify \/ SeekHead \/ SeekEnd
    BY <2>8 DEF Verify, SeekHead, SeekEnd
  <2> QED  BY <2>4, <2>5, <2>6, <2>7, <2>8 DEF Running
<1>5. \/ ledger' = ledger
      \/ Seal /\ closed' /\ pc' = "idle" /\ err' = "nil"
  <2>1. pc \in {"verify", "seekEnd"} => closed
    BY DEF IInv, Core, CallInv
  <2>2. CASE Verify
    BY <1>2, <2>1, <2>2 DEF Verify, Return
  <2>3. CASE SeekEnd
    BY <1>2, <2>1, <2>3 DEF SeekEnd, Return
  <2>4. CASE EmitCarry \/ EmitAligned \/ WritePad \/ SeekHead \/ RewriteHead
    BY <2>4 DEF EmitCarry, EmitAligned, WritePad, SeekHead, RewriteHead
  <2> QED  BY <2>2, <2>3, <2>4 DEF Running
<1>6. \A s \in Sinks : s # w => ledger'[s] = ledger[s]
  BY <1>2, <1>5 DEF Seal
<1>7. \/ ret' = ret /\ err' = err
      \/ ret'.op \in {"Write", "Close"}
  <2>1. CASE EmitCarry \/ EmitAligned
    BY <2>1 DEF EmitCarry, EmitAligned, Fail, Return, Continue
  <2>2. CASE WritePad \/ Verify \/ SeekHead \/ RewriteHead \/ SeekEnd
    BY <2>2 DEF WritePad, Verify, SeekHead, RewriteHead, SeekEnd, Fail, Return, Continue
  <2> QED  BY <2>1, <2>2 DEF Running
<1> QED  BY <1>1, <1>2, <1>3, <1>4, <1>5, <1>6, <1>7

(* The calls that begin while none is running.                             *)
LEMMA IdleStep ==
    ASSUME IInv, Next, ~Running
    PROVE  /\ pc = "idle"
           /\ \/ \E s, c : ResetRejected(s, c)
              \/ (\E s \in Sinks, c \in Configs : ResetBinds(s, c))
              \/ (\E n : WriteRefused(n))
              \/ (\E n \in WriteSizes : WriteBegin(n))
              \/ CloseAgain
              \/ CloseBegin
<1>1. ASSUME NEW s \in Sinks \cup {NoSink}, NEW c \in Configs, Reset(s, c)
      PROVE  ResetRejected(s, c) \/ (s \in Sinks /\ ResetBinds(s, c))
  BY <1>1 DEF Reset, ResetBinds, Rejection
<1> QED
  BY <1>1 DEF Next, Write, Close, ResetRejected, ResetBinds, WriteRefused, WriteBegin,
              CloseAgain, CloseBegin

(* A fresh encoder has neither failed nor sealed anything.                 *)
LEMMA FinalInvInit == Init => FinalInv
  BY DEF Init, FinalInv, ResetInv, SealInv, BlankEntry

(* A failed Reset leaves its error behind, and only a running Close seals. *)
LEMMA FinalInvStep ==
    ASSUME IInv, FinalInv, [Next]_vars
    PROVE  FinalInv'
<1>0. /\ disk \in [Sinks -> FileType] /\ ledger \in [Sinks -> EntryType]
      /\ w \in Sinks \cup {NoSink} /\ NoSink \notin Sinks
  BY EncoderAssumption DEF IInv, Core, TypeOK
<1>1. CASE UNCHANGED vars
  BY <1>1 DEF FinalInv, ResetInv, SealInv, vars, encoder, call
<1>2. CASE Running
  <2>1. ResetInv'
    BY <1>2, RunningStep DEF FinalInv, ResetInv
  <2>2. SealInv'
    <3> SUFFICES ASSUME NEW s \in Sinks, ledger'[s].sealed
                 PROVE  /\ disk'[s].stage = "headed"
                        /\ s = w' => closed' /\ pc' = "idle" /\ err' = "nil"
      BY DEF SealInv
    <3>1. CASE s # w
      BY <1>2, <3>1, RunningStep DEF FinalInv, SealInv
    <3>2. CASE s = w
      <4>1. ~ledger[w].sealed
        BY <1>2, <3>2, RunningStep DEF FinalInv, SealInv
      <4> QED  BY <1>2, <3>2, <4>1, RunningStep
    <3> QED  BY <3>1, <3>2
  <2> QED  BY <2>1, <2>2 DEF FinalInv
<1>3. ASSUME NEW s, NEW c, ResetRejected(s, c)
      PROVE  FinalInv'
  BY <1>0, <1>3 DEF ResetRejected, invalidate, Return, FinalInv, ResetInv, SealInv
<1>4. ASSUME NEW s \in Sinks, NEW c \in Configs, ResetBinds(s, c)
      PROVE  FinalInv'
  <2>1. /\ w' = s /\ disk[s].stage = "blank"
        /\ ledger' = [ledger EXCEPT ![s].cfg = c]
        /\ ret' = [op |-> "Reset", n |-> 0, err |-> err']
    BY <1>4 DEF ResetBinds, Return
  <2>2. \A t \in Sinks \ {s} : disk'[t] = disk[t]
    <3>1. \/ (\E stage : disk' = [disk EXCEPT ![s].stage = stage])
          \/ (\E head : disk' = [disk EXCEPT ![s].stage = "headed", ![s].head = head])
      BY <1>4 DEF ResetBinds
    <3> QED  BY <1>0, <3>1
  <2>3. \A t \in Sinks : ledger'[t].sealed = ledger[t].sealed
    <3>1. ledger'[s] = [ledger[s] EXCEPT !.cfg = c]
      BY <1>0, <2>1
    <3>2. ledger'[s].sealed = ledger[s].sealed
      BY <1>0, <3>1 DEF EntryType
    <3> QED  BY <1>0, <2>1, <3>2
  <2>4. ~ledger[s].sealed
    BY <2>1 DEF FinalInv, SealInv
  <2> QED
    BY <2>1, <2>2, <2>3, <2>4 DEF FinalInv, ResetInv, SealInv
<1>5. ASSUME NEW n, WriteRefused(n)
      PROVE  FinalInv'
  BY <1>5 DEF WriteRefused, Return, encoder, FinalInv, ResetInv, SealInv
<1>6. ASSUME NEW n \in WriteSizes, WriteBegin(n)
      PROVE  FinalInv'
  <2>1. /\ ~closed /\ err = "nil" /\ UNCHANGED <<w, err, disk>>
        /\ ledger' = [ledger EXCEPT ![w].sent = @ + n] /\ w \in Sinks
    BY <1>0, <1>6 DEF WriteBegin
  <2>2. ~ledger[w].sealed
    BY <2>1 DEF FinalInv, SealInv
  <2>3. \A t \in Sinks : ledger'[t].sealed = ledger[t].sealed
    <3>1. ledger'[w] = [ledger[w] EXCEPT !.sent = @ + n]
      BY <1>0, <2>1
    <3>2. ledger'[w].sealed = ledger[w].sealed
      BY <1>0, <2>1, <3>1 DEF EntryType
    <3> QED  BY <1>0, <2>1, <3>2
  <2>4. ret' = ret \/ ret'.op = "Write"
    BY <1>6 DEF WriteBegin, Return, Continue
  <2> QED
    BY <2>1, <2>2, <2>3, <2>4 DEF FinalInv, ResetInv, SealInv
<1>7. CASE CloseAgain
  BY <1>7 DEF CloseAgain, Return, encoder, FinalInv, ResetInv, SealInv
<1>8. CASE CloseBegin
  <2>1. (ret' = ret /\ err' = err) \/ ret'.op = "Close"
    BY <1>8 DEF CloseBegin, Return, Fail, Continue
  <2>2. ~closed /\ UNCHANGED <<w, disk, ledger>>
    BY <1>8 DEF CloseBegin
  <2> QED
    BY <2>1, <2>2 DEF FinalInv, ResetInv, SealInv
<1> QED
  BY <1>1, <1>2, <1>3, <1>4, <1>5, <1>6, <1>7, <1>8, IdleStep

(* FinalInv holds in every state the encoder reaches.                      *)
LEMMA Finality == Spec => []FinalInv
<1>1. IInv /\ FinalInv /\ [Next]_vars => FinalInv'
  BY FinalInvStep
<1> QED  BY <1>1, FinalInvInit, Invariance, PTL DEF Spec

-----------------------------------------------------------------------------
(* After a failure of any call, Write and Close touch no sink and report   *)
(* the first error again; only a Reset leaves the failed state.            *)
THEOREM FailureStaysFinal == Spec => FailureIsFinal
<1> DEFINE Failed == err # "nil" \/ (ret.op = "Reset" /\ ret.err # "nil")
           Kept == (disk' = disk /\ err' = err) \/ IsReset
<1>1. ASSUME IInv, FinalInv, [Next]_vars
      PROVE  [Failed => Kept]_vars
  <2> SUFFICES ASSUME Next, Failed PROVE Kept
    BY <1>1 DEF vars
  <2>1. err # "nil"
    BY <1>1 DEF FinalInv, ResetInv
  <2>2. ~Running
    BY <1>1, <2>1, RunningStep
  <2>3. CASE (\E s, c : ResetRejected(s, c))
             \/ (\E s \in Sinks, c \in Configs : ResetBinds(s, c))
    <3>1. \E e : Return("Reset", 0, e)
      BY <2>3 DEF ResetRejected, ResetBinds
    <3> QED  BY <3>1 DEF Return, IsReset
  <2>4. CASE (\E n : WriteRefused(n)) \/ CloseAgain
    BY <2>4 DEF WriteRefused, CloseAgain, encoder
  <2>5. CASE \E n \in WriteSizes : WriteBegin(n)
    BY <2>1, <2>5 DEF WriteBegin
  <2>6. CASE CloseBegin
    BY <2>1, <2>6 DEF CloseBegin
  <2> QED  BY <1>1, <2>2, <2>3, <2>4, <2>5, <2>6, IdleStep
<1>2. Spec => [][Failed => Kept]_vars
  BY <1>1, Invariance, Finality, PTL DEF Spec
<1> QED  BY <1>2 DEF FailureIsFinal

(* Once Close has returned nil no call, on this sink or another, changes   *)
(* the file, and closing it again returns nil again.                       *)
THEOREM CloseStaysFinal == Spec => CloseIsFinal
<1> DEFINE Kept == \A s \in Sealed :
                      /\ disk'[s] = disk[s]
                      /\ s = w' /\ pc' = "idle" /\ ret'.op = "Close" => ret'.err = "nil"
<1>1. ASSUME IInv, FinalInv, [Next]_vars
      PROVE  [Kept]_vars
  <2> SUFFICES ASSUME Next, NEW s \in Sinks, ledger[s].sealed
               PROVE  /\ disk'[s] = disk[s]
                      /\ s = w' /\ pc' = "idle" /\ ret'.op = "Close" => ret'.err = "nil"
    BY <1>1 DEF Sealed
  <2>1. /\ disk[s].stage = "headed" /\ disk \in [Sinks -> FileType] /\ NoSink \notin Sinks
        /\ s = w => closed /\ pc = "idle" /\ err = "nil"
    BY <1>1, EncoderAssumption DEF FinalInv, SealInv, IInv, Core, TypeOK
  <2>2. CASE Running
    BY <1>1, <2>1, <2>2, RunningStep
  <2>3. CASE \E t, c : ResetRejected(t, c)
    BY <2>1, <2>3 DEF ResetRejected, invalidate
  <2>4. ASSUME NEW t \in Sinks, NEW c \in Configs, ResetBinds(t, c)
        PROVE  /\ disk'[s] = disk[s]
               /\ s = w' /\ pc' = "idle" /\ ret'.op = "Close" => ret'.err = "nil"
    <3>1. s # t /\ w' = t
      BY <2>1, <2>4 DEF ResetBinds
    <3>2. \/ (\E stage : disk' = [disk EXCEPT ![t].stage = stage])
          \/ (\E head : disk' = [disk EXCEPT ![t].stage = "headed", ![t].head = head])
      BY <2>4 DEF ResetBinds
    <3> QED  BY <2>1, <3>1, <3>2
  <2>5. CASE \E n : WriteRefused(n)
    BY <2>5 DEF WriteRefused, Return
  <2>6. CASE \E n \in WriteSizes : WriteBegin(n)
    BY <2>1, <2>6 DEF WriteBegin
  <2>7. CASE CloseAgain
    BY <2>1, <2>7 DEF CloseAgain, Return, encoder
  <2>8. CASE CloseBegin
    BY <2>1, <2>8 DEF CloseBegin
  <2> QED  BY <1>1, <2>2, <2>3, <2>4, <2>5, <2>6, <2>7, <2>8, IdleStep
<1>2. Spec => [][Kept]_vars
  BY <1>1, Invariance, Finality, PTL DEF Spec
<1> QED  BY <1>2 DEF CloseIsFinal

-----------------------------------------------------------------------------
(* The audio.                                                              *)

(* seq numbers its elements upwards from the one after from.               *)
Counts(seq, from) == \A i \in 1..Len(seq) : seq[i] = from + i

(* A sink holds the first bytes of its stream; nothing was offered to one  *)
(* that has no header yet.                                                 *)
TapeInv ==
    \A s \in Sinks :
        /\ Len(disk[s].audio) <= ledger[s].sent
        /\ Counts(disk[s].audio, 0)
        /\ disk[s].stage = "blank" => ledger[s].sent = 0
        /\ ledger[s].sent <= MaxSent

(* Behind what is written come the carry and what the call still holds,    *)
(* up to the last byte offered; whole frames are written.                  *)
HeldInv ==
    w # NoSink /\ err = "nil" =>
        /\ Counts(carry, written)
        /\ Counts(pend, written + Len(carry))
        /\ written + Len(carry) + Len(pend) = ledger[w].sent
        /\ written % cfg.frame = 0

(* Only the two halves of Write hold bytes of the caller; the first of     *)
(* them carries one whole frame, and Close none.                           *)
PendInv ==
    /\ pc \notin {"emitCarry", "emitAligned"} => pend = << >>
    /\ pc = "emitCarry" => Len(carry) = cfg.frame
    /\ closed /\ err = "nil" => carry = << >>

(* What is on a sink is a byte count, and without a header promises none.  *)
LengthInv ==
    \A s \in Sinks : /\ Len(disk[s].audio) <= MaxInt64
                     /\ disk[s].stage # "headed" => disk[s].head.ds64DataSize = 0

AudioInv == TapeInv /\ HeldInv /\ PendInv /\ LengthInv

-----------------------------------------------------------------------------
(* Numbered sequences.                                                     *)

(* The numbering goes on from the first sequence into the second.          *)
LEMMA CountsConcat ==
    ASSUME NEW a \in Seq(Nat), NEW b \in Seq(Nat), NEW from \in Nat,
           Counts(a, from), Counts(b, from + Len(a))
    PROVE  a \o b \in Seq(Nat) /\ Len(a \o b) = Len(a) + Len(b) /\ Counts(a \o b, from)
<1>1. /\ a \o b \in Seq(Nat) /\ Len(a \o b) = Len(a) + Len(b)
      /\ \A i \in 1 .. Len(a) + Len(b) :
            (a \o b)[i] = IF i <= Len(a) THEN a[i] ELSE b[i - Len(a)]
  BY ConcatProperties
<1>2. Len(a) \in Nat /\ Len(b) \in Nat
  BY LenProperties
<1>3. ASSUME NEW i \in 1 .. Len(a) + Len(b)
      PROVE  (a \o b)[i] = from + i
  <2>1. CASE i <= Len(a)
    BY <1>1, <1>2, <2>1 DEF Counts
  <2>2. CASE ~(i <= Len(a))
    <3>1. i - Len(a) \in 1 .. Len(b)
      BY <1>2, <2>2
    <3>2. b[i - Len(a)] = (from + Len(a)) + (i - Len(a))
      BY <3>1 DEF Counts
    <3>3. (from + Len(a)) + (i - Len(a)) = from + i
      BY <1>2
    <3> QED  BY <1>1, <2>2, <3>2, <3>3
  <2> QED  BY <2>1, <2>2
<1> QED  BY <1>1, <1>3 DEF Counts

(* A numbered sequence cut in two: the second part goes on where the first *)
(* one ends.                                                               *)
LEMMA CountsSplit ==
    ASSUME NEW p \in Seq(Nat), NEW from \in Nat, Counts(p, from), NEW k \in 0 .. Len(p)
    PROVE  /\ SubSeq(p, 1, k) \in Seq(Nat) /\ Len(SubSeq(p, 1, k)) = k
           /\ Counts(SubSeq(p, 1, k), from)
           /\ SubSeq(p, k + 1, Len(p)) \in Seq(Nat)
           /\ Len(SubSeq(p, k + 1, Len(p))) = Len(p) - k
           /\ Counts(SubSeq(p, k + 1, Len(p)), from + k)
<1>1. Len(p) \in Nat /\ k \in Nat /\ k <= Len(p) /\ k + 1 \in Nat
  BY LenProperties
<1>2. \A i \in 1 .. Len(p) : p[i] \in Nat
  BY ElementOfSeq
<1>3. /\ SubSeq(p, 1, k) \in Seq(Nat) /\ Len(SubSeq(p, 1, k)) = k
      /\ \A i \in 1 .. k : SubSeq(p, 1, k)[i] = p[i]
  <2>1. \A i \in 1 .. k : p[i] \in Nat
    BY <1>1, <1>2
  <2>2. /\ SubSeq(p, 1, k) \in Seq(Nat)
        /\ Len(SubSeq(p, 1, k)) = IF 1 <= k THEN k - 1 + 1 ELSE 0
        /\ \A i \in 1 .. k - 1 + 1 : SubSeq(p, 1, k)[i] = p[1 + i - 1]
    BY <1>1, <2>1, SubSeqProperties
  <2> QED  BY <1>1, <2>2
<1>4. /\ SubSeq(p, k + 1, Len(p)) \in Seq(Nat)
      /\ Len(SubSeq(p, k + 1, Len(p))) = Len(p) - k
      /\ \A i \in 1 .. Len(p) - k : SubSeq(p, k + 1, Len(p))[i] = p[k + i]
  <2>1. \A i \in k + 1 .. Len(p) : p[i] \in Nat
    BY <1>1, <1>2
  <2> DEFINE m == k + 1
             n == Len(p)
  <2>2. m \in Int /\ n \in Int /\ \A i \in m .. n : p[i] \in Nat
    BY <1>1, <2>1
  <2> HIDE DEF m, n
  <2>3. /\ SubSeq(p, m, n) \in Seq(Nat)
        /\ Len(SubSeq(p, m, n)) = IF m <= n THEN n - m + 1 ELSE 0
        /\ \A i \in 1 .. n - m + 1 : SubSeq(p, m, n)[i] = p[m + i - 1]
    BY <2>2, SubSeqProperties
  <2>4. Len(SubSeq(p, m, n)) = n - k
    BY <1>1, <2>2, <2>3 DEF m, n
  <2>5. ASSUME NEW i \in 1 .. n - k
        PROVE  SubSeq(p, m, n)[i] = p[k + i]
    <3>1. i \in 1 .. n - m + 1 /\ m + i - 1 = k + i
      BY <1>1, <2>2 DEF m
    <3> QED  BY <2>3, <3>1
  <2> QED  BY <2>3, <2>4, <2>5 DEF m, n
<1>5. Counts(SubSeq(p, 1, k), from)
  BY <1>1, <1>3 DEF Counts
<1>6. ASSUME NEW i \in 1 .. Len(p) - k
      PROVE  SubSeq(p, k + 1, Len(p))[i] = from + k + i
  <2>1. k + i \in 1 .. Len(p)
    BY <1>1
  <2>2. p[k + i] = from + (k + i)
    BY <2>1 DEF Counts
  <2>3. from + (k + i) = from + k + i
    BY <1>1
  <2> QED  BY <1>4, <2>2, <2>3
<1> QED  BY <1>3, <1>4, <1>5, <1>6 DEF Counts

(* Nothing is numbered from anywhere.                                      *)
LEMMA CountsEmpty ==
    \A from : Counts(<< >>, from)
<1>1. Len(<< >>) = 0
  BY EmptySeq
<1> QED  BY <1>1 DEF Counts

(* A promised number of frames that does not overflow is a byte count.     *)
LEMMA ProductBound ==
    ASSUME NEW n \in Nat, NEW f \in Nat, f > 0, NEW t \in Nat, t <= n \div f
    PROVE  t * f <= n
<1>1. n \div f \in Nat /\ (n \div f) * f <= n
  OBVIOUS
<1>2. t * f <= (n \div f) * f
  BY <1>1
<1> QED  BY <1>1, <1>2

(* A multiple of the frame width leaves no remainder.                      *)
LEMMA MultipleOf ==
    ASSUME NEW q \in Int, NEW f \in Nat, f > 0
    PROVE  (q * f) % f = 0
<1> DEFINE n == q * f
           d == n \div f
           r == n % f
<1>1. n \in Int /\ d \in Int /\ r \in Int /\ n = f * d + r /\ 0 <= r /\ r < f
  OBVIOUS
<1>2. r = f * (q - d)
  BY <1>1
<1>3. q - d = 0
  <2>1. CASE q - d >= 1
    <3>1. f * (q - d) >= f
      BY <1>1, <2>1
    <3> QED  BY <1>1, <1>2, <3>1
  <2>2. CASE q - d <= -1
    <3>1. f * (q - d) <= -f
      BY <1>1, <2>2
    <3> QED  BY <1>1, <1>2, <3>1
  <2> QED  BY <1>1, <2>1, <2>2
<1> QED  BY <1>1, <1>2, <1>3

(* Whole frames stay whole frames when whole frames are added, and when a  *)
(* slice is cut to its whole frames.                                       *)
LEMMA WholeFrames ==
    ASSUME NEW f \in Nat, f > 0, NEW n \in Nat, NEW m \in Nat, n % f = 0
    PROVE  /\ m % f = 0 => (n + m) % f = 0
           /\ (n + f) % f = 0
           /\ (m - (m % f)) % f = 0
           /\ n = (n \div f) * f
<1>1. /\ n \div f \in Int /\ m \div f \in Int
      /\ n = (n \div f) * f
      /\ m = (m \div f) * f + (m % f)
  OBVIOUS
<1>2. m - (m % f) = (m \div f) * f
  BY <1>1
<1>3. n + f = ((n \div f) + 1) * f
  BY <1>1
<1>4. m % f = 0 => n + m = ((n \div f) + (m \div f)) * f
  BY <1>1
<1>5. (n \div f) + 1 \in Int /\ (n \div f) + (m \div f) \in Int
  BY <1>1
<1>6. (((n \div f) + 1) * f) % f = 0
  BY <1>5, MultipleOf
<1>7. (((n \div f) + (m \div f)) * f) % f = 0
  BY <1>5, MultipleOf
<1>8. ((m \div f) * f) % f = 0
  BY <1>1, MultipleOf
<1>9. (m - (m % f)) % f = 0
  BY <1>2, <1>8
<1>10. (n + f) % f = 0
  BY <1>3, <1>6
<1>11. m % f = 0 => (n + m) % f = 0
  BY <1>4, <1>7
<1> QED  BY <1>1, <1>9, <1>10, <1>11

-----------------------------------------------------------------------------
(* Init and Reset.                                                         *)

(* Nothing was offered, nothing is held.                                   *)
LEMMA AudioInit == Init => AudioInv
<1> SUFFICES ASSUME Init PROVE AudioInv
  OBVIOUS
<1>1. TapeInv
  BY EmptySeq, CountsEmpty, EncoderAssumption
     DEF Init, TapeInv, BlankFile, BlankEntry
<1>2. HeldInv /\ PendInv
  BY DEF Init, HeldInv, PendInv
<1>3. LengthInv
  BY EmptySeq, EncoderAssumption
     DEF Init, LengthInv, BlankFile, NoHeader
<1> QED  BY <1>1, <1>2, <1>3 DEF AudioInv

(* What an accepted Reset does: the sink is the one handed over, still     *)
(* without audio, and the header on it, if any, is the one that was built. *)
LEMMA ResetBindsFacts ==
    ASSUME IInv, NEW s \in Sinks, NEW c \in Configs, ResetBinds(s, c)
    PROVE  /\ disk[s].stage = "blank" /\ disk[s].audio = << >> /\ disk[s].pad = 0
           /\ w' = s /\ cfg' = c /\ written' = 0 /\ carry' = << >> /\ closed' = FALSE
           /\ pc' = "idle" /\ pend' = << >>
           /\ err' \in {"nil", "sink"}
           /\ disk'[s].audio = << >> /\ disk'[s].pad = 0
           /\ \A t \in Sinks \ {s} : disk'[t] = disk[t] /\ ledger'[t] = ledger[t]
           /\ ledger'[s].cfg = c /\ ledger'[s].sent = ledger[s].sent
           /\ ledger'[s].sealed = ledger[s].sealed
           /\ \/ disk'[s].stage = "headed" /\ disk'[s].head = lay'.bytes
              \/ /\ err' = "sink" /\ disk'[s].stage \in {"blank", "stub"}
                 /\ disk'[s].head = disk[s].head
<1>1. /\ disk \in [Sinks -> FileType] /\ ledger \in [Sinks -> EntryType]
      /\ disk[s] \in FileType /\ ledger[s] \in EntryType /\ c \in ConfigType
      /\ disk[s].stage = "blank" => disk[s].audio = << >> /\ disk[s].pad = 0
  BY EncoderAssumption DEF IInv, Core, TypeOK, BlankInv
<1>2. /\ w' = s /\ cfg' = c /\ written' = 0 /\ carry' = << >> /\ closed' = FALSE
      /\ pc' = "idle" /\ pend' = << >>
      /\ ledger' = [ledger EXCEPT ![s].cfg = c]
      /\ disk[s].stage = "blank"
      /\ err' \in {"nil", "sink"}
      /\ \/ disk' = [disk EXCEPT ![s].stage = "headed", ![s].head = lay'.bytes]
         \/ /\ err' = "sink"
            /\ \E stage \in {"blank", "stub"} : disk' = [disk EXCEPT ![s].stage = stage]
  BY DEF ResetBinds, Return
<1>3. /\ \A t \in Sinks \ {s} : ledger'[t] = ledger[t]
      /\ ledger'[s].cfg = c /\ ledger'[s].sent = ledger[s].sent
      /\ ledger'[s].sealed = ledger[s].sealed
  <2>1. ledger'[s] = [ledger[s] EXCEPT !.cfg = c]
    BY <1>1, <1>2
  <2> QED  BY <1>1, <1>2, <2>1 DEF EntryType
<1>4. CASE disk' = [disk EXCEPT ![s].stage = "headed", ![s].head = lay'.bytes]
  <2>1. disk'[s] = [[disk[s] EXCEPT !.stage = "headed"] EXCEPT !.head = lay'.bytes]
    BY <1>1, <1>4
  <2>2. /\ disk'[s].stage = "headed" /\ disk'[s].head = lay'.bytes
        /\ disk'[s].audio = << >> /\ disk'[s].pad = 0
    BY <1>1, <1>2, <2>1 DEF FileType
  <2> QED  BY <1>1, <1>2, <1>3, <1>4, <2>2
<1>5. ASSUME NEW stage \in {"blank", "stub"}, err' = "sink",
             disk' = [disk EXCEPT ![s].stage = stage]
      PROVE  /\ \A t \in Sinks \ {s} : disk'[t] = disk[t]
             /\ disk'[s].stage \in {"blank", "stub"} /\ disk'[s].head = disk[s].head
             /\ disk'[s].audio = << >> /\ disk'[s].pad = 0
  <2>1. disk'[s] = [disk[s] EXCEPT !.stage = stage]
    BY <1>1, <1>5
  <2> QED  BY <1>1, <1>2, <1>5, <2>1 DEF FileType
<1> QED  BY <1>1, <1>2, <1>3, <1>4, <1>5

(* The length a Reset stamps is a byte count.                              *)
LEMMA PromiseIsByteCount ==
    ASSUME NEW s \in Sinks, NEW c \in Configs, Rejection(s, c) = "nil"
    PROVE  /\ sizeAtReset(c) \in Nat /\ sizeAtReset(c) <= MaxInt64
           /\ c.valid /\ c.frame > 0
<1>1. /\ c.frame \in Nat /\ c.total \in Nat /\ MaxInt64 \in Nat
      /\ c.valid /\ c.frame > 0
  <2>1. c.valid
    BY DEF Rejection
  <2> QED  BY <2>1, EncoderAssumption, ConfigFacts
<1>2. CASE framesKnown(c)
  <2>1. ~Overflows(c)
    <3>1. plan(c, s \in SeekableSinks).err = "nil"
      BY DEF Rejection
    <3> QED  BY <1>2, <3>1 DEF Rejection
  <2>2. MaxInt64 \div c.frame \in Int
    BY <1>1
  <2>3. c.total <= MaxInt64 \div c.frame
    BY <1>1, <2>1, <2>2 DEF Overflows
  <2>4. c.total * c.frame <= MaxInt64
    BY <1>1, <2>3, ProductBound
  <2> QED  BY <1>1, <1>2, <2>4 DEF sizeAtReset, declaredDataSize
<1>3. CASE ~framesKnown(c)
  BY <1>1, <1>3 DEF sizeAtReset
<1> QED  BY <1>1, <1>2, <1>3

(* A Reset that accepts starts an empty stream on an empty sink.           *)
LEMMA ResetBindsAudio ==
    ASSUME IInv, AudioInv, NEW s \in Sinks, NEW c \in Configs, ResetBinds(s, c)
    PROVE  AudioInv'
<1>1. /\ disk[s].stage = "blank" /\ disk[s].audio = << >> /\ disk[s].pad = 0
      /\ w' = s /\ cfg' = c /\ written' = 0 /\ carry' = << >> /\ closed' = FALSE
      /\ pc' = "idle" /\ pend' = << >>
      /\ disk'[s].audio = << >>
      /\ \A t \in Sinks \ {s} : disk'[t] = disk[t] /\ ledger'[t] = ledger[t]
      /\ ledger'[s].sent = ledger[s].sent
  BY ResetBindsFacts
<1>2. ledger[s].sent = 0
  BY <1>1 DEF AudioInv, TapeInv
<1>3. Len(<< >>) = 0
  BY EmptySeq
<1>4. TapeInv'
  <2> SUFFICES ASSUME NEW t \in Sinks
               PROVE  /\ Len(disk'[t].audio) <= ledger'[t].sent
                      /\ Counts(disk'[t].audio, 0)
                      /\ disk'[t].stage = "blank" => ledger'[t].sent = 0
                      /\ ledger'[t].sent <= MaxSent
    BY DEF TapeInv, Counts
  <2>1. CASE t = s
    BY <1>1, <1>2, <1>3, <2>1, CountsEmpty, EncoderAssumption
  <2>2. CASE t # s
    BY <1>1, <2>2 DEF AudioInv, TapeInv
  <2> QED  BY <2>1, <2>2
<1>5. HeldInv'
  <2>1. Rejection(s, c) = "nil"
    BY DEF ResetBinds
  <2>2. c.frame \in Nat /\ c.frame > 0
    BY <2>1, PromiseIsByteCount, ConfigFacts, EncoderAssumption
  <2>3. 0 % c.frame = 0
    BY <2>2
  <2>4. Counts(carry', written') /\ Counts(pend', written' + Len(carry'))
    BY <1>1, CountsEmpty
  <2> QED  BY <1>1, <1>2, <1>3, <2>3, <2>4 DEF HeldInv, Counts
<1>6. PendInv'
  BY <1>1 DEF PendInv
<1>7. LengthInv'
  <2>1. disk'[s].stage # "headed" => disk'[s].head = disk[s].head
    BY ResetBindsFacts
  <2>2. disk'[s].stage # "headed" => disk'[s].head.ds64DataSize = 0
    BY <1>1, <2>1 DEF AudioInv, LengthInv
  <2>3. Len(disk'[s].audio) <= MaxInt64
    BY <1>1, <1>3, EncoderAssumption
  <2> QED  BY <1>1, <2>2, <2>3 DEF AudioInv, LengthInv
<1> QED  BY <1>4, <1>5, <1>6, <1>7 DEF AudioInv

(* A refused Reset forgets the stream; the sinks keep theirs.              *)
LEMMA ResetRejectedAudio ==
    ASSUME AudioInv, NEW s, NEW c, ResetRejected(s, c)
    PROVE  AudioInv'
<1>1. TapeInv' /\ HeldInv' /\ PendInv'
  BY DEF ResetRejected, invalidate, Return, AudioInv, TapeInv, HeldInv, PendInv, Counts
<1>2. LengthInv'
  BY DEF ResetRejected, AudioInv, LengthInv
<1> QED  BY <1>1, <1>2 DEF AudioInv

(* A call refused at once changes nothing.                                 *)
LEMMA RefusedAudio ==
    ASSUME AudioInv, pc = "idle", UNCHANGED <<encoder, disk, ledger>>,
           pc' = "idle", pend' = << >>
    PROVE  AudioInv'
<1>1. pend' = pend
  BY DEF AudioInv, PendInv
<1> QED
  BY <1>1 DEF encoder, AudioInv, TapeInv, HeldInv, PendInv, LengthInv, Counts

-----------------------------------------------------------------------------
(* Write.                                                                  *)

(* What is known of the stream while it has not failed.                    *)
LEMMA StreamFacts ==
    ASSUME IInv, AudioInv, w # NoSink, err = "nil"
    PROVE  /\ w \in Sinks /\ disk[w].stage = "headed"
           /\ disk \in [Sinks -> FileType] /\ disk[w] \in FileType
           /\ ledger \in [Sinks -> EntryType] /\ ledger[w] \in EntryType
           /\ ledger[w].sent \in Nat /\ written \in Nat
           /\ carry \in Seq(Nat) /\ Len(carry) \in Nat
           /\ pend \in Seq(Nat) /\ Len(pend) \in Nat
           /\ cfg.frame \in Nat /\ cfg.frame > 0
           /\ disk[w].audio \in Seq(Nat) /\ Len(disk[w].audio) = written
           /\ Counts(disk[w].audio, 0)
           /\ Counts(carry, written) /\ Counts(pend, written + Len(carry))
           /\ written + Len(carry) + Len(pend) = ledger[w].sent
           /\ written % cfg.frame = 0
<1>1. /\ w \in Sinks /\ disk \in [Sinks -> FileType] /\ disk[w] \in FileType
      /\ ledger \in [Sinks -> EntryType] /\ ledger[w] \in EntryType
      /\ ledger[w].sent \in Nat /\ written \in Nat
      /\ carry \in Seq(Nat) /\ pend \in Seq(Nat) /\ disk[w].audio \in Seq(Nat)
      /\ cfg \in ConfigType
  BY DEF IInv, Core, TypeOK, FileType, EntryType
<1>2. Len(carry) \in Nat /\ Len(pend) \in Nat
  BY <1>1, LenProperties
<1>3. cfg.frame \in Nat /\ cfg.frame > 0
  BY <1>1, ConfigFacts DEF IInv, Core, CallInv
<1>4. Len(disk[w].audio) = written /\ disk[w].stage = "headed"
  BY DEF IInv, Core, MediumInv
<1> QED
  BY <1>1, <1>2, <1>3, <1>4 DEF AudioInv, TapeInv, HeldInv

(* Only what the caller offered of the bound stream and what is held of it *)
(* changes; on the sinks nothing does.                                     *)
LEMMA NothingWritten ==
    ASSUME IInv, AudioInv, w # NoSink, err = "nil",
           UNCHANGED <<w, cfg, lay, written, disk>>,
           ledger' \in [Sinks -> EntryType],
           \A s \in Sinks \ {w} : ledger'[s] = ledger[s],
           ledger'[w].sent \in Nat, ledger'[w].sent >= ledger[w].sent,
           ledger'[w].sent <= MaxSent
    PROVE  TapeInv' /\ LengthInv'
<1>1. LengthInv'
  BY DEF AudioInv, LengthInv
<1>2. TapeInv'
  <2> SUFFICES ASSUME NEW s \in Sinks
               PROVE  /\ Len(disk[s].audio) <= ledger'[s].sent
                      /\ Counts(disk[s].audio, 0)
                      /\ disk[s].stage = "blank" => ledger'[s].sent = 0
                      /\ ledger'[s].sent <= MaxSent
    BY DEF TapeInv, Counts
  <2>1. CASE s = w
    BY <2>1, StreamFacts
  <2>2. CASE s # w
    BY <2>2 DEF AudioInv, TapeInv
  <2> QED  BY <2>1, <2>2
<1> QED  BY <1>1, <1>2

(* The bytes offered are numbered from the last one; they are carried, or  *)
(* complete the carry, or wait.                                            *)
LEMMA WriteBeginAudio ==
    ASSUME IInv, AudioInv, NEW n \in WriteSizes, WriteBegin(n)
    PROVE  AudioInv'
<1> DEFINE p == Offered(n)
           need == cfg.frame - Len(carry)
           sent == ledger[w].sent
<1>1. /\ pc = "idle" /\ err = "nil" /\ ~closed /\ w # NoSink /\ n \in Nat
      /\ sent + n <= MaxSent
      /\ ledger' = [ledger EXCEPT ![w].sent = @ + n]
      /\ UNCHANGED <<w, cfg, cont, lay, written, closed, err, disk>>
  BY EncoderAssumption DEF WriteBegin
<1>2. /\ w \in Sinks /\ ledger \in [Sinks -> EntryType] /\ ledger[w] \in EntryType
      /\ sent \in Nat /\ written \in Nat /\ MaxSent \in Nat
      /\ carry \in Seq(Nat) /\ Len(carry) \in Nat
      /\ cfg.frame \in Nat /\ cfg.frame > 0
      /\ Counts(carry, written)
      /\ written + Len(carry) + Len(pend) = sent
  BY <1>1, StreamFacts, EncoderAssumption
<1>3. pend = << >> /\ Len(pend) = 0 /\ written + Len(carry) = sent
  BY <1>1, <1>2, EmptySeq DEF AudioInv, PendInv
<1>4. need \in Nat /\ need > 0
  BY <1>1, <1>2 DEF IInv, Core, CallInv
<1>5. p \in Seq(Nat) /\ Len(p) = n /\ Counts(p, sent)
  <2>1. p \in Seq(Nat) /\ Len(p) = n
    <3>1. n \in Nat /\ ledger[w].sent \in Nat
      BY <1>1, <1>2
    <3> QED  BY <3>1, IsASeq DEF Offered
  <2>2. \A i \in 1..n : p[i] = sent + i
    BY DEF Offered
  <2> HIDE DEF p
  <2> QED  BY <2>1, <2>2 DEF Counts
<1>6. /\ ledger'[w].sent = sent + n
      /\ ledger' \in [Sinks -> EntryType]
      /\ \A s \in Sinks \ {w} : ledger'[s] = ledger[s]
  <2>1. ledger'[w] = [ledger[w] EXCEPT !.sent = @ + n]
    BY <1>1, <1>2
  <2>2. ledger[w] \in EntryType /\ n \in Nat /\ ledger[w].sent \in Nat
    BY <1>1, <1>2
  <2>3. ledger'[w] \in EntryType /\ ledger'[w].sent = sent + n
    BY <2>1, <2>2 DEF EntryType
  <2> QED  BY <1>1, <1>2, <2>3
<1>7. TapeInv' /\ LengthInv'
  <2>1. sent + n >= sent /\ sent + n \in Nat
    BY <1>1, <1>2
  <2> QED  BY <1>1, <1>2, <1>6, <2>1, NothingWritten
<1> HIDE DEF p, need, sent
<1>8. /\ Counts(carry', written) /\ Counts(pend', written + Len(carry'))
      /\ written + Len(carry') + Len(pend') = sent + n
      /\ pc' \notin {"emitCarry", "emitAligned"} => pend' = << >>
      /\ pc' = "emitCarry" => Len(carry') = cfg.frame
  <2>1. CASE n = 0 /\ Return("Write", 0, "nil") /\ UNCHANGED carry
    BY <1>2, <1>3, <2>1, CountsEmpty DEF Return
  <2>2. CASE /\ n > 0 /\ carry = << >>
             /\ pend' = p /\ done' = 0 /\ Continue("emitAligned")
             /\ UNCHANGED carry
    BY <1>2, <1>3, <1>5, <2>2 DEF Continue
  <2>3. CASE /\ n > 0 /\ carry # << >> /\ n < need
             /\ carry' = carry \o p /\ Return("Write", n, "nil")
    <3>1. carry \o p \in Seq(Nat) /\ Len(carry \o p) = Len(carry) + n
          /\ Counts(carry \o p, written)
      BY <1>2, <1>3, <1>5, CountsConcat
    <3> QED
      BY <1>1, <1>2, <1>3, <2>3, <3>1, EmptySeq, CountsEmpty DEF Return
  <2>4. CASE /\ carry # << >> /\ n >= need
             /\ carry' = carry \o SubSeq(p, 1, need)
             /\ pend' = SubSeq(p, need + 1, n) /\ done' = need
             /\ Continue("emitCarry")
    <3>1. need \in 0 .. Len(p)
      BY <1>1, <1>4, <1>5, <2>4
    <3>2. /\ SubSeq(p, 1, need) \in Seq(Nat) /\ Len(SubSeq(p, 1, need)) = need
          /\ Counts(SubSeq(p, 1, need), sent)
          /\ SubSeq(p, need + 1, n) \in Seq(Nat)
          /\ Len(SubSeq(p, need + 1, n)) = n - need
          /\ Counts(SubSeq(p, need + 1, n), sent + need)
      BY <1>2, <1>5, <3>1, CountsSplit
    <3>3. Counts(SubSeq(p, 1, need), written + Len(carry))
      BY <1>3, <3>2
    <3>4. /\ Len(carry') = Len(carry) + need /\ Counts(carry', written)
      BY <1>2, <2>4, <3>2, <3>3, CountsConcat
    <3>5. Len(carry') = cfg.frame
      BY <1>2, <3>4 DEF need
    <3>6. Counts(pend', written + Len(carry')) /\ Len(pend') = n - need
      <4>1. sent + need = written + Len(carry')
        BY <1>1, <1>2, <1>3, <1>4, <3>4
      <4> QED  BY <2>4, <3>2, <4>1
    <3>7. written + Len(carry') + Len(pend') = sent + n
      BY <1>1, <1>2, <1>3, <1>4, <3>4, <3>6
    <3> QED  BY <2>4, <3>4, <3>5, <3>6, <3>7 DEF Continue
  <2> QED
    BY <2>1, <2>2, <2>3, <2>4 DEF WriteBegin, p, need
<1>9. HeldInv' /\ PendInv'
  <2>1. written % cfg.frame = 0
    BY <1>1, StreamFacts
  <2> QED
    BY <1>1, <1>2, <1>6, <1>8, <2>1 DEF HeldInv, PendInv, Counts
<1> QED  BY <1>7, <1>9 DEF AudioInv

(* A sink call inside Write appends the first k bytes it was given, and    *)
(* only within a byte count.                                               *)
LEMMA EmitAppends ==
    ASSUME IInv, AudioInv, w # NoSink, err = "nil",
           NEW buf \in Seq(Nat), Counts(buf, written), NEW e, emit(buf, e)
    PROVE  \E k \in 0 .. Len(buf) :
              /\ e = "nil" => k = Len(buf)
              /\ written' = written + k
              /\ k > 0 => written + Len(buf) <= MaxInt64
              /\ disk'[w].audio = disk[w].audio \o SubSeq(buf, 1, k)
              /\ disk'[w].audio \in Seq(Nat) /\ Len(disk'[w].audio) = written + k
              /\ Counts(disk'[w].audio, 0)
              /\ SubSeq(buf, 1, k) \in Seq(Nat) /\ Len(SubSeq(buf, 1, k)) = k
              /\ Counts(SubSeq(buf, 1, k), written)
              /\ disk'[w].stage = disk[w].stage /\ disk'[w].head = disk[w].head
              /\ disk'[w].pad = disk[w].pad
              /\ \A s \in Sinks \ {w} : disk'[s] = disk[s]
<1>1. /\ disk \in [Sinks -> FileType] /\ disk[w] \in FileType /\ w \in Sinks
      /\ disk[w].audio \in Seq(Nat) /\ Len(disk[w].audio) = written
      /\ Counts(disk[w].audio, 0) /\ written \in Nat
  BY StreamFacts
<1>2. Len(buf) \in Nat /\ MaxInt64 \in Nat
  BY LenProperties, EncoderAssumption
<1>3. ASSUME NEW k \in 0 .. Len(buf)
      PROVE  /\ SubSeq(buf, 1, k) \in Seq(Nat) /\ Len(SubSeq(buf, 1, k)) = k
             /\ Counts(SubSeq(buf, 1, k), written)
             /\ disk[w].audio \o SubSeq(buf, 1, k) \in Seq(Nat)
             /\ Len(disk[w].audio \o SubSeq(buf, 1, k)) = written + k
             /\ Counts(disk[w].audio \o SubSeq(buf, 1, k), 0)
  <2>1. /\ SubSeq(buf, 1, k) \in Seq(Nat) /\ Len(SubSeq(buf, 1, k)) = k
        /\ Counts(SubSeq(buf, 1, k), written)
    BY <1>1, CountsSplit
  <2>2. Counts(SubSeq(buf, 1, k), 0 + Len(disk[w].audio))
    BY <1>1, <2>1
  <2> QED  BY <1>1, <2>1, <2>2, CountsConcat
<1>4. CASE e = "tooLarge" /\ UNCHANGED <<written, cont, disk>>
  <2>1. 0 \in 0 .. Len(buf) /\ SubSeq(buf, 1, 0) = << >>
    BY <1>2, SubSeqEmpty
  <2>2. disk[w].audio \o SubSeq(buf, 1, 0) = disk[w].audio
    BY <1>1, <2>1, ConcatEmptySeq
  <2>3. written = written + 0
    BY <1>1
  <2>4. /\ SubSeq(buf, 1, 0) \in Seq(Nat) /\ Len(SubSeq(buf, 1, 0)) = 0
        /\ Counts(SubSeq(buf, 1, 0), written)
    BY <1>3, <2>1
  <2>5. /\ disk' = disk /\ written' = written /\ e # "nil" /\ ~(0 > 0)
    BY <1>4
  <2> WITNESS 0 \in 0 .. Len(buf)
  <2>6. /\ disk'[w].audio = disk[w].audio \o SubSeq(buf, 1, 0)
        /\ disk'[w].audio \in Seq(Nat) /\ Len(disk'[w].audio) = written + 0
        /\ Counts(disk'[w].audio, 0)
    BY <1>1, <2>2, <2>3, <2>5
  <2> QED  BY <2>3, <2>4, <2>5, <2>6
<1>5. ASSUME NEW k \in 0 .. Len(buf), ~TooLarge(written + Len(buf)),
             e = "nil" => k = Len(buf), written' = written + k,
             disk' = [disk EXCEPT ![w].audio = @ \o SubSeq(buf, 1, k)]
      PROVE  \E j \in 0 .. Len(buf) :
                /\ e = "nil" => j = Len(buf)
                /\ written' = written + j
                /\ j > 0 => written + Len(buf) <= MaxInt64
                /\ disk'[w].audio = disk[w].audio \o SubSeq(buf, 1, j)
                /\ disk'[w].audio \in Seq(Nat) /\ Len(disk'[w].audio) = written + j
                /\ Counts(disk'[w].audio, 0)
                /\ SubSeq(buf, 1, j) \in Seq(Nat) /\ Len(SubSeq(buf, 1, j)) = j
                /\ Counts(SubSeq(buf, 1, j), written)
                /\ disk'[w].stage = disk[w].stage /\ disk'[w].head = disk[w].head
                /\ disk'[w].pad = disk[w].pad
                /\ \A s \in Sinks \ {w} : disk'[s] = disk[s]
  <2> WITNESS k \in 0 .. Len(buf)
  <2>1. written + Len(buf) <= MaxInt64
    BY <1>1, <1>2, <1>5 DEF TooLarge
  <2>2. disk'[w] = [disk[w] EXCEPT !.audio = @ \o SubSeq(buf, 1, k)]
    BY <1>1, <1>5
  <2>3. /\ disk'[w].audio = disk[w].audio \o SubSeq(buf, 1, k)
        /\ disk'[w].stage = disk[w].stage /\ disk'[w].head = disk[w].head
        /\ disk'[w].pad = disk[w].pad
    BY <1>1, <2>2 DEF FileType
  <2> QED  BY <1>1, <1>3, <1>5, <2>1, <2>3
<1> QED  BY <1>4, <1>5 DEF emit

(* What a Write that is under way leaves of the sinks.                     *)
LEMMA EmitKeepsTape ==
    ASSUME IInv, AudioInv, w # NoSink, err = "nil",
           NEW buf \in Seq(Nat), Counts(buf, written), NEW e, emit(buf, e),
           written + Len(buf) <= ledger[w].sent, UNCHANGED <<w, lay, ledger>>
    PROVE  TapeInv' /\ LengthInv'
<1>1. PICK k \in 0 .. Len(buf) :
         /\ e = "nil" => k = Len(buf)
         /\ written' = written + k
         /\ k > 0 => written + Len(buf) <= MaxInt64
         /\ disk'[w].audio \in Seq(Nat) /\ Len(disk'[w].audio) = written + k
         /\ Counts(disk'[w].audio, 0)
         /\ disk'[w].stage = disk[w].stage /\ disk'[w].head = disk[w].head
         /\ \A s \in Sinks \ {w} : disk'[s] = disk[s]
  BY EmitAppends
<1>2. /\ w \in Sinks /\ written \in Nat /\ Len(buf) \in Nat /\ ledger[w].sent \in Nat
      /\ Len(disk[w].audio) = written /\ disk[w].stage = "headed" /\ MaxInt64 \in Nat
  BY StreamFacts, LenProperties, EncoderAssumption
<1>3. written + k <= ledger[w].sent /\ written + k <= MaxInt64
  <2>1. written <= MaxInt64
    BY <1>2 DEF AudioInv, LengthInv
  <2> QED  BY <1>1, <1>2, <2>1
<1>4. TapeInv'
  <2> SUFFICES ASSUME NEW s \in Sinks
               PROVE  /\ Len(disk'[s].audio) <= ledger[s].sent
                      /\ Counts(disk'[s].audio, 0)
                      /\ disk'[s].stage = "blank" => ledger[s].sent = 0
                      /\ ledger[s].sent <= MaxSent
    BY DEF TapeInv, Counts
  <2>1. CASE s = w
    BY <1>1, <1>2, <1>3, <2>1 DEF AudioInv, TapeInv
  <2>2. CASE s # w
    BY <1>1, <2>2 DEF AudioInv, TapeInv
  <2> QED  BY <2>1, <2>2
<1>5. LengthInv'
  <2> SUFFICES ASSUME NEW s \in Sinks
               PROVE  /\ Len(disk'[s].audio) <= MaxInt64
                      /\ disk'[s].stage # "headed" => disk'[s].head.ds64DataSize = 0
    BY DEF AudioInv, LengthInv
  <2>1. CASE s = w
    BY <1>1, <1>2, <1>3, <2>1 DEF AudioInv, LengthInv
  <2>2. CASE s # w
    BY <1>1, <2>2 DEF AudioInv, LengthInv
  <2> QED  BY <2>1, <2>2
<1> QED  BY <1>4, <1>5

(* The completed frame goes out before the bytes behind it.                *)
LEMMA EmitCarryAudio ==
    ASSUME IInv, AudioInv, EmitCarry
    PROVE  AudioInv'
<1>1. PICK e \in EmitResults :
         /\ emit(carry, e)
         /\ IF e = "nil"
            THEN /\ carry' = << >> /\ Continue("emitAligned")
                 /\ UNCHANGED <<err, pend, done>>
            ELSE Fail("Write", 0, e) /\ UNCHANGED carry
  BY DEF EmitCarry
<1>2. /\ pc = "emitCarry" /\ UNCHANGED <<w, cfg, lay, closed, ledger>>
      /\ err = "nil" /\ w # NoSink /\ ~closed
  BY DEF EmitCarry, IInv, Core, CallInv
<1>3. /\ w \in Sinks /\ written \in Nat /\ carry \in Seq(Nat) /\ Len(carry) \in Nat
      /\ Len(pend) \in Nat /\ ledger[w].sent \in Nat
      /\ Counts(carry, written) /\ Counts(pend, written + Len(carry))
      /\ written + Len(carry) + Len(pend) = ledger[w].sent
  BY <1>2, StreamFacts
<1>4. TapeInv' /\ LengthInv'
  <2>1. written + Len(carry) <= ledger[w].sent
    BY <1>3
  <2> QED  BY <1>1, <1>2, <1>3, <2>1, EmitKeepsTape
<1>5. CASE e = "nil"
  <2>1. /\ carry' = << >> /\ pc' = "emitAligned" /\ pend' = pend /\ err' = err
    BY <1>1, <1>5 DEF Continue
  <2>2. written' = written + Len(carry)
    BY <1>1, <1>2, <1>3, <1>5, EmitAppends
  <2>3. Len(<< >>) = 0
    BY EmptySeq
  <2>4. /\ Counts(carry', written') /\ Counts(pend, written' + Len(carry'))
        /\ written' + Len(carry') + Len(pend) = ledger[w].sent
    BY <1>3, <2>1, <2>2, <2>3, CountsEmpty
  <2>5. written' % cfg.frame = 0
    <3>1. /\ cfg.frame \in Nat /\ cfg.frame > 0 /\ written % cfg.frame = 0
          /\ Len(carry) = cfg.frame
      BY <1>2, StreamFacts DEF AudioInv, PendInv
    <3>2. (written + cfg.frame) % cfg.frame = 0
      BY <1>3, <3>1, WholeFrames
    <3> QED  BY <2>2, <3>1, <3>2
  <2> QED
    BY <1>2, <1>4, <2>1, <2>4, <2>5 DEF AudioInv, HeldInv, PendInv, Counts
<1>6. CASE e \in {"tooLarge", "sink"}
  <2>1. err' = e /\ pc' = "idle" /\ pend' = << >>
    BY <1>1, <1>2, <1>6 DEF Fail, Latched, Return
  <2> QED
    BY <1>4, <1>6, <2>1 DEF AudioInv, HeldInv, PendInv
<1> QED  BY <1>5, <1>6 DEF EmitResults

(* The whole frames of the slice go out; the rest is carried.              *)
LEMMA EmitAlignedAudio ==
    ASSUME IInv, AudioInv, EmitAligned
    PROVE  AudioInv'
<1> DEFINE part == Len(pend) % cfg.frame
           whole == Len(pend) - part
           rest == SubSeq(pend, whole + 1, Len(pend))
<1>1. PICK e \in EmitResults :
         /\ IF whole > 0
            THEN emit(SubSeq(pend, 1, whole), e)
            ELSE e = "nil" /\ UNCHANGED <<written, cont, disk>>
         /\ IF e = "nil"
            THEN /\ carry' = carry \o rest
                 /\ Return("Write", done + Len(pend), "nil")
                 /\ UNCHANGED err
            ELSE Fail("Write", done, e) /\ UNCHANGED carry
  BY DEF EmitAligned
<1>2. /\ pc = "emitAligned" /\ UNCHANGED <<w, cfg, lay, closed, ledger>>
      /\ err = "nil" /\ w # NoSink /\ ~closed /\ carry = << >>
  BY DEF EmitAligned, IInv, Core, CallInv
<1>3. Len(carry) = 0
  BY <1>2, EmptySeq
<1>4. /\ w \in Sinks /\ written \in Nat /\ pend \in Seq(Nat) /\ Len(pend) \in Nat
      /\ ledger[w].sent \in Nat /\ carry \in Seq(Nat)
      /\ cfg.frame \in Nat /\ cfg.frame > 0
      /\ Counts(pend, written) /\ written + Len(pend) = ledger[w].sent
      /\ ledger[w] \in EntryType /\ ledger \in [Sinks -> EntryType]
  <2>1. /\ w \in Sinks /\ written \in Nat /\ pend \in Seq(Nat) /\ Len(pend) \in Nat
        /\ ledger[w].sent \in Nat /\ carry \in Seq(Nat)
        /\ cfg.frame \in Nat /\ cfg.frame > 0
        /\ Counts(pend, written + Len(carry))
        /\ written + Len(carry) + Len(pend) = ledger[w].sent
        /\ ledger[w] \in EntryType /\ ledger \in [Sinks -> EntryType]
    BY <1>2, StreamFacts
  <2>2. written + Len(carry) = written
    BY <1>3, <2>1
  <2> QED  BY <2>1, <2>2
<1>5. part \in Nat /\ part < cfg.frame /\ part <= Len(pend)
  BY <1>4, Remainder
<1>6. whole \in 0 .. Len(pend) /\ whole \in Nat /\ whole % cfg.frame = 0
  <2>1. whole \in 0 .. Len(pend) /\ whole \in Nat
    <3> HIDE DEF part
    <3> QED  BY <1>4, <1>5
  <2>2. written % cfg.frame = 0
    BY <1>2, StreamFacts
  <2>3. whole % cfg.frame = 0
    BY <1>4, <2>2, WholeFrames
  <2> QED  BY <2>1, <2>3
<1>7. /\ SubSeq(pend, 1, whole) \in Seq(Nat) /\ Len(SubSeq(pend, 1, whole)) = whole
      /\ Counts(SubSeq(pend, 1, whole), written)
      /\ rest \in Seq(Nat) /\ Len(rest) = Len(pend) - whole
      /\ Counts(rest, written + whole)
  <2> HIDE DEF whole
  <2> QED  BY <1>4, <1>6, CountsSplit
<1>8. carry \o rest = rest
  <2> HIDE DEF rest
  <2> QED  BY <1>2, <1>7, ConcatEmptySeq
<1> HIDE DEF part, whole, rest
<1>9. TapeInv' /\ LengthInv'
  <2>1. CASE whole > 0
    <3>1. written + Len(SubSeq(pend, 1, whole)) <= ledger[w].sent
      BY <1>4, <1>6, <1>7
    <3> QED  BY <1>1, <1>2, <1>7, <2>1, <3>1, EmitKeepsTape
  <2>2. CASE ~(whole > 0)
    BY <1>1, <1>2, <2>2
       DEF AudioInv, TapeInv, LengthInv, Counts
  <2> QED  BY <2>1, <2>2
<1>10. CASE e = "nil"
  <2>1. /\ carry' = rest /\ pc' = "idle" /\ pend' = << >> /\ err' = err /\ Len(<< >>) = 0
    BY <1>1, <1>8, <1>10, EmptySeq DEF Return
  <2>2. written' = written + whole
    <3>1. CASE whole > 0
      BY <1>1, <1>2, <1>7, <1>10, <3>1, EmitAppends
    <3>2. CASE ~(whole > 0)
      BY <1>1, <1>4, <1>6, <3>2
    <3> QED  BY <3>1, <3>2
  <2>3. /\ Counts(carry', written') /\ Counts(pend', written' + Len(carry'))
        /\ written' + Len(carry') + Len(pend') = ledger[w].sent
    <3>1. Counts(carry', written')
      BY <1>7, <2>1, <2>2
    <3>2. Counts(pend', written' + Len(carry'))
      BY <2>1, CountsEmpty
    <3>3. Len(carry') = Len(pend) - whole /\ Len(pend') = 0
      BY <1>7, <2>1
    <3>4. whole \in Nat
      BY <1>6
    <3>5. written' + Len(carry') + Len(pend') = ledger[w].sent
      BY <1>4, <2>2, <3>3, <3>4
    <3> QED  BY <3>1, <3>2, <3>5
  <2>4. written' % cfg.frame = 0
    <3>1. written % cfg.frame = 0
      BY <1>2, StreamFacts
    <3>2. (written + whole) % cfg.frame = 0
      BY <1>4, <1>6, <3>1, WholeFrames
    <3> QED  BY <2>2, <3>2
  <2> QED
    BY <1>2, <1>9, <2>1, <2>3, <2>4 DEF AudioInv, HeldInv, PendInv, Counts
<1>11. CASE e \in {"tooLarge", "sink"}
  <2>1. err' = e /\ pc' = "idle" /\ pend' = << >>
    BY <1>1, <1>2, <1>11 DEF Fail, Latched, Return
  <2> QED
    BY <1>9, <1>11, <2>1 DEF AudioInv, HeldInv, PendInv
<1> QED  BY <1>10, <1>11 DEF EmitResults

-----------------------------------------------------------------------------
(* Close.                                                                  *)

(* Close moves no audio: it may change the pad byte and the header of the  *)
(* bound sink, and it is only entered without a carry.                     *)
LEMMA CloseKeepsAudio ==
    ASSUME AudioInv, UNCHANGED <<w, cfg, lay, written, carry>>, pend = << >>, pend' = << >>,
           pc' \notin {"emitCarry", "emitAligned"},
           err' = "nil" => err = "nil",
           closed' /\ err' = "nil" => carry = << >>,
           \A s \in Sinks : /\ disk'[s].audio = disk[s].audio
                            /\ disk'[s].stage = disk[s].stage
                            /\ disk'[s].head = disk[s].head \/ disk[s].stage = "headed"
                            /\ ledger'[s].sent = ledger[s].sent,
           w # NoSink => w \in Sinks
    PROVE  AudioInv'
<1>1. TapeInv'
  BY DEF AudioInv, TapeInv, Counts
<1>2. HeldInv'
  BY DEF AudioInv, HeldInv, Counts
<1>3. PendInv'
  BY DEF PendInv
<1>4. LengthInv'
  BY DEF AudioInv, LengthInv
<1> QED  BY <1>1, <1>2, <1>3, <1>4 DEF AudioInv

(* A Close that goes on has no partial frame left.                         *)
LEMMA CloseBeginAudio ==
    ASSUME IInv, AudioInv, CloseBegin
    PROVE  AudioInv'
<1>1. /\ pc = "idle" /\ pend = << >>
      /\ UNCHANGED <<w, cfg, cont, lay, written, carry, disk, ledger>>
      /\ w # NoSink => w \in Sinks
  BY DEF CloseBegin, AudioInv, PendInv, IInv, Core, TypeOK
<1>2. \/ err # "nil" /\ Return("Close", 0, err) /\ UNCHANGED err
      \/ err = "nil" /\ carry # << >> /\ Fail("Close", 0, "partialFrame")
      \/ /\ err = "nil" /\ carry = << >> /\ UNCHANGED <<err, pend, done>>
         /\ Continue(IF written % 2 # 0 THEN "pad" ELSE "verify")
  BY DEF CloseBegin
<1>3. /\ pend' = << >> /\ pc' \notin {"emitCarry", "emitAligned"}
      /\ err' = "nil" => err = "nil" /\ carry = << >>
  BY <1>1, <1>2 DEF Fail, Latched, Return, Continue
<1> QED  BY <1>1, <1>3, CloseKeepsAudio

(* Inside Close nothing is carried and nothing waits.                      *)
LEMMA InsideClose ==
    ASSUME IInv, AudioInv, WritePad \/ Verify \/ SeekHead \/ RewriteHead \/ SeekEnd
    PROVE  /\ pc \in {"pad", "verify", "seekHead", "rewrite", "seekEnd"}
           /\ w \in Sinks /\ w # NoSink /\ closed /\ err = "nil"
           /\ pend = << >> /\ carry = << >>
           /\ UNCHANGED <<w, cfg, cont, lay, written, carry, closed>>
           /\ pend' = << >> /\ pc' \notin {"emitCarry", "emitAligned"}
           /\ err' = "nil" \/ pc' = "idle"
<1>1. /\ pc \in {"pad", "verify", "seekHead", "rewrite", "seekEnd"}
      /\ UNCHANGED <<w, cfg, cont, lay, written, carry, closed>>
  BY DEF WritePad, Verify, SeekHead, RewriteHead, SeekEnd
<1>2. w \in Sinks /\ w # NoSink /\ closed /\ err = "nil" /\ pend = << >> /\ carry = << >>
  BY <1>1 DEF IInv, Core, TypeOK, CallInv, AudioInv, PendInv
<1>3. /\ pend' = << >> /\ pc' \notin {"emitCarry", "emitAligned"}
      /\ err' = "nil" \/ pc' = "idle"
  BY <1>2 DEF WritePad, Verify, SeekHead, RewriteHead, SeekEnd, Fail, Return, Continue
<1> QED  BY <1>1, <1>2, <1>3

(* The pad byte and the header are not audio.                              *)
LEMMA InsideCloseAudio ==
    ASSUME IInv, AudioInv, WritePad \/ Verify \/ SeekHead \/ RewriteHead \/ SeekEnd
    PROVE  AudioInv'
<1>1. /\ w \in Sinks /\ w # NoSink
      /\ disk \in [Sinks -> FileType] /\ disk[w] \in FileType
      /\ ledger \in [Sinks -> EntryType] /\ ledger[w] \in EntryType
  BY InsideClose DEF IInv, Core, TypeOK
<1>2. \A s \in Sinks : ledger'[s].sent = ledger[s].sent
  <2>1. ledger' = ledger \/ Seal
    BY DEF WritePad, Verify, SeekHead, RewriteHead, SeekEnd
  <2>2. CASE Seal
    <3>1. ledger'[w] = [ledger[w] EXCEPT !.sealed = TRUE]
      BY <1>1, <2>2 DEF Seal
    <3>2. ledger'[w].sent = ledger[w].sent
      BY <1>1, <3>1 DEF EntryType
    <3> QED  BY <1>1, <2>2, <3>2 DEF Seal
  <2> QED  BY <2>1, <2>2
<1>3. \A s \in Sinks : /\ disk'[s].audio = disk[s].audio
                       /\ disk'[s].stage = disk[s].stage
                       /\ disk'[s].head = disk[s].head \/ disk[s].stage = "headed"
  <2>1. disk[w].stage = "headed"
    BY InsideClose DEF IInv, Core, MediumInv
  <2>2. CASE Verify \/ SeekHead \/ SeekEnd
    BY <2>2 DEF Verify, SeekHead, SeekEnd
  <2>3. CASE WritePad
    <3>1. PICK pad \in 0..1 : disk' = [disk EXCEPT ![w].pad = pad]
      BY <2>3 DEF WritePad
    <3>2. disk'[w] = [disk[w] EXCEPT !.pad = pad]
      BY <1>1, <3>1
    <3>3. disk'[w].audio = disk[w].audio /\ disk'[w].stage = disk[w].stage
      BY <1>1, <3>2 DEF FileType
    <3> QED  BY <1>1, <2>1, <3>1, <3>3
  <2>4. CASE RewriteHead
    <3>1. PICK head : disk' = [disk EXCEPT ![w].head = head]
      BY <2>4 DEF RewriteHead
    <3>2. disk'[w] = [disk[w] EXCEPT !.head = head]
      BY <1>1, <3>1
    <3>3. disk'[w].audio = disk[w].audio /\ disk'[w].stage = disk[w].stage
      BY <1>1, <3>2 DEF FileType
    <3> QED  BY <1>1, <2>1, <3>1, <3>3
  <2> QED  BY <2>2, <2>3, <2>4
<1> QED  BY <1>2, <1>3, InsideClose, CloseKeepsAudio

-----------------------------------------------------------------------------
(* The invariant holds, and with it what it implies.                       *)

(* Every call of the encoder, at every sink call inside it, keeps AudioInv.*)
LEMMA NextKeepsAudio ==
    ASSUME IInv, AudioInv, [Next]_vars
    PROVE  AudioInv'
<1>1. CASE UNCHANGED vars
  BY <1>1 DEF vars, encoder, call, AudioInv, TapeInv, HeldInv, PendInv, LengthInv, Counts
<1>2. CASE Running
  BY <1>2, EmitCarryAudio, EmitAlignedAudio, InsideCloseAudio DEF Running
<1>3. ASSUME Next, ~Running
      PROVE  AudioInv'
  <2>1. ASSUME NEW s, NEW c, ResetRejected(s, c)
        PROVE  AudioInv'
    BY <2>1, ResetRejectedAudio
  <2>2. ASSUME NEW s \in Sinks, NEW c \in Configs, ResetBinds(s, c)
        PROVE  AudioInv'
    BY <2>2, ResetBindsAudio
  <2>3. ASSUME NEW n, WriteRefused(n)
        PROVE  AudioInv'
    <3>1. /\ pc = "idle" /\ UNCHANGED <<encoder, disk, ledger>>
          /\ pc' = "idle" /\ pend' = << >>
      BY <2>3 DEF WriteRefused, Return
    <3> QED  BY <3>1, RefusedAudio
  <2>4. ASSUME NEW n \in WriteSizes, WriteBegin(n)
        PROVE  AudioInv'
    BY <2>4, WriteBeginAudio
  <2>5. CASE CloseAgain
    <3>1. /\ pc = "idle" /\ UNCHANGED <<encoder, disk, ledger>>
          /\ pc' = "idle" /\ pend' = << >>
      BY <2>5 DEF CloseAgain, Return
    <3> QED  BY <3>1, RefusedAudio
  <2>6. CASE CloseBegin
    BY <2>6, CloseBeginAudio
  <2> QED  BY <1>3, <2>1, <2>2, <2>3, <2>4, <2>5, <2>6, IdleStep
<1> QED  BY <1>1, <1>2, <1>3

(* The audio invariant holds in every state the encoder reaches.           *)
LEMMA Audio == Spec => []AudioInv
<1>1. Init => AudioInv
  BY AudioInit
<1>2. IInv /\ AudioInv /\ [Next]_vars => AudioInv'
  BY NextKeepsAudio
<1> QED  BY <1>1, <1>2, Invariance, PTL DEF Spec

(* A numbered sequence of n bytes is the first n bytes of the stream.      *)
LEMMA CountsIsTheStream ==
    ASSUME NEW a \in Seq(Nat), NEW n \in Nat, Len(a) = n, Counts(a, 0)
    PROVE  a = [i \in 1..n |-> i]
<1> DEFINE b == [i \in 1..n |-> i]
<1>1. b \in Seq(Nat) /\ Len(b) = n
  BY IsASeq
<1>2. \A i \in 1..n : a[i] = b[i]
  <2>1. ASSUME NEW i \in 1..n
        PROVE  a[i] = i
    <3>1. a[i] = 0 + i
      BY DEF Counts
    <3> QED  BY <3>1
  <2> QED  BY <2>1
<1> HIDE DEF b
<1> QED  BY <1>1, <1>2, SeqEqual DEF b

(* The bytes on every sink are a prefix of what was offered to it, in      *)
(* order and without a gap or a repeat, for every frame width and however  *)
(* the caller cut its Writes and wherever a sink call failed; and until    *)
(* the encoder fails nothing of what was offered is missing.               *)
THEOREM AudioArrivesInOrder == Spec => []AudioInOrder
<1>1. IInv /\ AudioInv => AudioInOrder
  <2> SUFFICES ASSUME IInv, AudioInv PROVE AudioInOrder
    OBVIOUS
  <2>1. ASSUME NEW s \in Sinks
        PROVE  /\ Len(disk[s].audio) <= ledger[s].sent
               /\ \A i \in 1..Len(disk[s].audio) : disk[s].audio[i] = i
    <3>1. Counts(disk[s].audio, 0) /\ Len(disk[s].audio) <= ledger[s].sent
      BY DEF AudioInv, TapeInv
    <3>2. ASSUME NEW i \in 1..Len(disk[s].audio)
          PROVE  disk[s].audio[i] = i
      <4>1. disk[s].audio[i] = 0 + i
        BY <3>1 DEF Counts
      <4> QED  BY <4>1
    <3> QED  BY <3>1, <3>2
  <2>2. ASSUME w # NoSink, err = "nil"
        PROVE  disk[w].audio \o carry \o pend = [i \in 1..ledger[w].sent |-> i]
    <3> DEFINE tape == disk[w].audio
    <3>1. /\ tape \in Seq(Nat) /\ Len(tape) = written /\ Counts(tape, 0) /\ written \in Nat
          /\ carry \in Seq(Nat) /\ pend \in Seq(Nat)
          /\ Len(carry) \in Nat /\ Len(pend) \in Nat /\ ledger[w].sent \in Nat
          /\ Counts(carry, written) /\ Counts(pend, written + Len(carry))
          /\ written + Len(carry) + Len(pend) = ledger[w].sent
      BY <2>2, StreamFacts
    <3> HIDE DEF tape
    <3>2. Counts(carry, 0 + Len(tape))
      BY <3>1
    <3>3. /\ tape \o carry \in Seq(Nat) /\ Len(tape \o carry) = written + Len(carry)
          /\ Counts(tape \o carry, 0)
      BY <3>1, <3>2, CountsConcat
    <3> DEFINE both == tape \o carry
    <3> HIDE DEF both
    <3>4. both \in Seq(Nat) /\ Len(both) = written + Len(carry) /\ Counts(both, 0)
      BY <3>3 DEF both
    <3>5. Counts(pend, 0 + Len(both))
      BY <3>1, <3>4
    <3>6. /\ both \o pend \in Seq(Nat) /\ Len(both \o pend) = ledger[w].sent
          /\ Counts(both \o pend, 0)
      BY <3>1, <3>4, <3>5, CountsConcat
    <3>7. both \o pend = [i \in 1..ledger[w].sent |-> i]
      BY <3>1, <3>6, CountsIsTheStream
    <3> QED  BY <3>7 DEF both, tape
  <2>3. w # NoSink /\ err = "nil" => written % cfg.frame = 0
    BY DEF AudioInv, HeldInv
  <2> QED  BY <2>1, <2>2, <2>3 DEF AudioInOrder
<1> QED  BY <1>1, Invariance, Audio, PTL
=============================================================================
