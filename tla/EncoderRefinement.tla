-------------------------- MODULE EncoderRefinement --------------------------
(***************************************************************************)
(* Encoder implements Recorder, step by step.                              *)
(***************************************************************************)
EXTENDS EncoderHeaders, EncoderRecorder

-----------------------------------------------------------------------------
(* The mapping.                                                            *)

(* The tape of one sink.                                                   *)
TapeOf(s) == [loaded |-> disk[s].stage # "blank", audio |-> disk[s].audio,
              label |-> label(s), sealed |-> ledger[s].sealed]

(* A header's label: what a reader resolves, or illegible.                 *)
LabelOf(head) == IF Readable(head) THEN resolveDataSize(head) ELSE -2

(* A header that says d is labelled d, or unknown when d is zero.          *)
LEMMA LabelOfSays ==
    ASSUME NEW head \in HeaderType, NEW d \in Nat, Says(head, d), d <= MaxDataSize,
           Sized64(head.magic) \/ d < MaxUint32
    PROVE  LabelOf(head) = IF d = 0 THEN sizeUnknown ELSE d
<1>1. CASE d = 0
  BY <1>1, SaysResolves DEF LabelOf
<1>2. CASE d # 0
  BY <1>2, SaysResolves DEF LabelOf
<1> QED  BY <1>1, <1>2

(* The tapes, one by one, before and after a step.                         *)
LEMMA TapesAre ==
    /\ tapes = [s \in Sinks |-> TapeOf(s)]
    /\ tapes' = [s \in Sinks |-> TapeOf(s)']
    /\ \A s \in Sinks :
          /\ tapes[s].loaded = (disk[s].stage # "blank") /\ tapes[s].audio = disk[s].audio
          /\ tapes[s].label = LabelOf(disk[s].head) /\ tapes[s].sealed = ledger[s].sealed
          /\ label(s) = LabelOf(disk[s].head)
  BY DEF tapes, TapeOf, LabelOf, label, Readable, resolveDataSize, Sized64, haveDS64

(* A tape's fields, and what changing some of them alone makes of the rest.*)
LEMMA TapeEdits ==
    ASSUME NEW s \in Sinks, NEW x, NEW y
    PROVE  LET old == tapes[s] IN
           /\ old = [loaded |-> old.loaded, audio |-> old.audio,
                     label |-> old.label, sealed |-> old.sealed]
           /\ [tapes EXCEPT ![s].loaded = x, ![s].label = y] =
                 [tapes EXCEPT ![s] = [loaded |-> x, audio |-> old.audio,
                                       label |-> y, sealed |-> old.sealed]]
           /\ [tapes EXCEPT ![s].loaded = x] =
                 [tapes EXCEPT ![s] = [loaded |-> x, audio |-> old.audio,
                                       label |-> old.label, sealed |-> old.sealed]]
           /\ [tapes EXCEPT ![s].audio = x] =
                 [tapes EXCEPT ![s] = [loaded |-> old.loaded, audio |-> x,
                                       label |-> old.label, sealed |-> old.sealed]]
           /\ [tapes EXCEPT ![s].label = x] =
                 [tapes EXCEPT ![s] = [loaded |-> old.loaded, audio |-> old.audio,
                                       label |-> x, sealed |-> old.sealed]]
           /\ [tapes EXCEPT ![s].sealed = x] =
                 [tapes EXCEPT ![s] = [loaded |-> old.loaded, audio |-> old.audio,
                                       label |-> old.label, sealed |-> x]]
<1> DEFINE old == tapes[s]
<1>1. old = [loaded |-> old.loaded, audio |-> old.audio,
             label |-> old.label, sealed |-> old.sealed]
  BY TapesAre DEF TapeOf
<1>2. s \in DOMAIN tapes
  BY TapesAre
<1>3. /\ [tapes EXCEPT ![s].loaded = x] = [tapes EXCEPT ![s] = [old EXCEPT !.loaded = x]]
      /\ [tapes EXCEPT ![s].audio = x] = [tapes EXCEPT ![s] = [old EXCEPT !.audio = x]]
      /\ [tapes EXCEPT ![s].label = x] = [tapes EXCEPT ![s] = [old EXCEPT !.label = x]]
      /\ [tapes EXCEPT ![s].sealed = x] = [tapes EXCEPT ![s] = [old EXCEPT !.sealed = x]]
  BY <1>2
<1>4. [tapes EXCEPT ![s].loaded = x, ![s].label = y] =
         [tapes EXCEPT ![s] = [[old EXCEPT !.loaded = x] EXCEPT !.label = y]]
  BY <1>2
<1> HIDE DEF old
<1>5. /\ [old EXCEPT !.loaded = x] = [loaded |-> x, audio |-> old.audio,
                                      label |-> old.label, sealed |-> old.sealed]
      /\ [old EXCEPT !.audio = x] = [loaded |-> old.loaded, audio |-> x,
                                     label |-> old.label, sealed |-> old.sealed]
      /\ [old EXCEPT !.label = x] = [loaded |-> old.loaded, audio |-> old.audio,
                                     label |-> x, sealed |-> old.sealed]
      /\ [old EXCEPT !.sealed = x] = [loaded |-> old.loaded, audio |-> old.audio,
                                      label |-> old.label, sealed |-> x]
  BY <1>1
<1>6. [[old EXCEPT !.loaded = x] EXCEPT !.label = y] =
         [loaded |-> x, audio |-> old.audio, label |-> y, sealed |-> old.sealed]
  <2>1. [[loaded |-> x, audio |-> old.audio, label |-> old.label, sealed |-> old.sealed]
            EXCEPT !.label = y] =
           [loaded |-> x, audio |-> old.audio, label |-> y, sealed |-> old.sealed]
    OBVIOUS
  <2> QED  BY <1>5, <2>1, Zenon
<1> QED  BY <1>1, <1>3, <1>4, <1>5, <1>6 DEF old

(* A step that leaves the sinks audio, headers and seals leaves the tapes.*)
LEMMA TapesStay ==
    ASSUME \A s \in Sinks : /\ disk'[s].stage = disk[s].stage
                            /\ disk'[s].audio = disk[s].audio
                            /\ LabelOf(disk'[s].head) = LabelOf(disk[s].head)
                            /\ ledger'[s].sealed = ledger[s].sealed
    PROVE  tapes' = tapes
<1>1. ASSUME NEW s \in Sinks PROVE TapeOf(s)' = TapeOf(s)
  BY DEF TapeOf, LabelOf, label, Readable, resolveDataSize, Sized64, haveDS64
<1> QED  BY <1>1, TapesAre

(* A step that changes one sink changes one tape.                          *)
LEMMA TapeChanges ==
    ASSUME NEW t \in Sinks,
           \A s \in Sinks \ {t} : disk'[s] = disk[s] /\ ledger'[s] = ledger[s]
    PROVE  tapes' = [tapes EXCEPT ![t] = [loaded |-> disk'[t].stage # "blank",
                                          audio |-> disk'[t].audio,
                                          label |-> LabelOf(disk'[t].head),
                                          sealed |-> ledger'[t].sealed]]
<1>1. ASSUME NEW s \in Sinks, s # t PROVE TapeOf(s)' = TapeOf(s)
  BY <1>1 DEF TapeOf, LabelOf, label, Readable, resolveDataSize, Sized64, haveDS64
<1>2. TapeOf(t)' = [loaded |-> disk'[t].stage # "blank", audio |-> disk'[t].audio,
                    label |-> LabelOf(disk'[t].head), sealed |-> ledger'[t].sealed]
  BY DEF TapeOf, LabelOf, label, Readable, resolveDataSize, Sized64, haveDS64
<1> QED  BY <1>1, <1>2, TapesAre

-----------------------------------------------------------------------------
(* Reset.                                                                  *)

(* A Reset that accepts loads a blank tape, or spoils it.                  *)
LEMMA ResetLoads ==
    ASSUME IInv, NEW s \in Sinks, NEW c \in Configs, ResetBinds(s, c)
    PROVE  R!Load(s)
<1> DEFINE promise == LabelOf(lay'.bytes)
           old == tapes[s]
<1>1. /\ disk[s].stage = "blank" /\ disk[s].audio = << >>
      /\ w' = s /\ closed' = FALSE /\ err' \in {"nil", "sink"}
      /\ disk'[s].audio = << >>
      /\ \A t \in Sinks \ {s} : disk'[t] = disk[t] /\ ledger'[t] = ledger[t]
      /\ ledger'[s].sealed = ledger[s].sealed
      /\ \/ disk'[s].stage = "headed" /\ disk'[s].head = lay'.bytes
         \/ /\ err' = "sink" /\ disk'[s].stage \in {"blank", "stub"}
            /\ disk'[s].head = disk[s].head
  BY ResetBindsFacts
<1>2. promise \in R!Promises
  <2>1. Built(s, c, lay')
    BY DEF ResetBinds, Built
  <2>2. /\ lay'.bytes \in HeaderType /\ Says(lay'.bytes, sizeAtReset(c))
    BY <2>1, BuiltFacts
  <2>3. sizeAtReset(c) \in Nat /\ sizeAtReset(c) <= MaxInt64 /\ MaxInt64 \in Nat
    BY <2>1, PromiseIsByteCount, EncoderAssumption DEF Built
  <2>4. promise \in {sizeUnknown, sizeAtReset(c)}
    BY <2>2, <2>3, SaysResolves DEF LabelOf
  <2> HIDE DEF promise
  <2> QED  BY <2>3, <2>4 DEF R!Promises, R!Unknown, sizeUnknown
<1>3. ~old.loaded /\ old.audio = disk'[s].audio /\ old.sealed = ledger'[s].sealed
      /\ old.label = LabelOf(disk[s].head)
  BY <1>1, TapesAre
<1>4. /\ old = [loaded |-> old.loaded, audio |-> old.audio,
                label |-> old.label, sealed |-> old.sealed]
      /\ old.loaded = FALSE
  BY <1>1, TapesAre DEF TapeOf
<1>5. tapes' = [tapes EXCEPT ![s] = [loaded |-> disk'[s].stage # "blank",
                                     audio |-> old.audio,
                                     label |-> LabelOf(disk'[s].head),
                                     sealed |-> old.sealed]]
  BY <1>1, <1>3, TapeChanges
<1>6. runningTape' = IF err' = "nil" THEN s ELSE NoSink
  BY <1>1, EncoderAssumption DEF runningTape
<1>7. tapes = [tapes EXCEPT ![s] = old]
  BY TapesAre
<1> HIDE DEF promise, old
<1>8. CASE disk'[s].stage = "headed" /\ disk'[s].head = lay'.bytes
  <2>1. tapes' = [tapes EXCEPT ![s] = [loaded |-> TRUE, audio |-> old.audio,
                                       label |-> promise, sealed |-> old.sealed]]
    BY <1>5, <1>8 DEF promise
  <2>2. tapes' = [tapes EXCEPT ![s].loaded = TRUE, ![s].label = promise]
    BY <2>1, TapeEdits DEF old
  <2> QED  BY <1>2, <1>3, <1>6, <2>2 DEF R!Load, old
<1>9. CASE err' = "sink" /\ disk'[s].stage = "stub" /\ disk'[s].head = disk[s].head
  <2>1. tapes' = [tapes EXCEPT ![s] = [loaded |-> TRUE, audio |-> old.audio,
                                       label |-> old.label, sealed |-> old.sealed]]
    BY <1>3, <1>5, <1>9
  <2>2. tapes' = [tapes EXCEPT ![s].loaded = TRUE]
    BY <2>1, TapeEdits DEF old
  <2> QED  BY <1>2, <1>3, <1>6, <1>9, <2>2 DEF R!Load, old
<1>10. CASE err' = "sink" /\ disk'[s].stage = "blank" /\ disk'[s].head = disk[s].head
  <2>1. tapes' = [tapes EXCEPT ![s] = [loaded |-> FALSE, audio |-> old.audio,
                                       label |-> old.label, sealed |-> old.sealed]]
    BY <1>3, <1>5, <1>10
  <2>2. tapes' = tapes
    BY <1>4, <1>7, <2>1
  <2> QED  BY <1>2, <1>3, <1>6, <1>10, <2>2 DEF R!Load, old
<1> QED  BY <1>1, <1>8, <1>9, <1>10

-----------------------------------------------------------------------------
(* Steps a Recorder does not see, and steps that stop the tape.            *)

(* A recorder's step, or none.                                             *)
Recorded == R!RNext \/ UNCHANGED <<runningTape, tapes>>

(* A step that leaves the tapes may at most stop the running one.          *)
LEMMA Quiet ==
    ASSUME tapes' = tapes, runningTape' \in {runningTape, NoSink}
    PROVE  Recorded
  BY DEF Recorded, R!RNext, R!Stop

(* The bound sink runs inside a call and while it is open.                 *)
LEMMA RunsOn ==
    ASSUME IInv, w # NoSink, err = "nil", pc # "idle" \/ ~closed
    PROVE  runningTape = w /\ w \in Sinks
  BY DEF runningTape, IInv, Core, TypeOK

(* A Reset that refuses stops the tape; calls refused at once, the start   *)
(* of a Write and the start of a Close record nothing.                     *)
LEMMA IdleIsQuiet ==
    ASSUME IInv,
           \/ \E s, c : ResetRejected(s, c)
           \/ \E n : WriteRefused(n)
           \/ \E n \in WriteSizes : WriteBegin(n)
           \/ CloseAgain \/ CloseBegin
    PROVE  Recorded
<1>1. ASSUME NEW s, NEW c, ResetRejected(s, c)
      PROVE  Recorded
  <2>1. UNCHANGED <<disk, ledger>> /\ w' = NoSink
    BY <1>1 DEF ResetRejected, invalidate
  <2>2. tapes' = tapes
    BY <2>1, TapesStay
  <2>3. runningTape' = NoSink
    BY <2>1 DEF runningTape
  <2> QED  BY <2>2, <2>3, Quiet
<1>2. ASSUME \/ \E n : WriteRefused(n)
             \/ CloseAgain
      PROVE  Recorded
  <2>1. UNCHANGED <<disk, ledger, w, err, closed>> /\ pc' = pc
    BY <1>2 DEF WriteRefused, CloseAgain, Return, encoder
  <2>2. tapes' = tapes
    BY <2>1, TapesStay
  <2>3. runningTape' = runningTape
    BY <2>1 DEF runningTape
  <2> QED  BY <2>2, <2>3, Quiet
<1>3. ASSUME NEW n \in WriteSizes, WriteBegin(n)
      PROVE  Recorded
  <2>1. /\ UNCHANGED <<disk, w, err, closed>> /\ ~closed /\ w # NoSink
        /\ ledger' = [ledger EXCEPT ![w].sent = @ + n]
    BY <1>3 DEF WriteBegin
  <2>2. w \in Sinks /\ ledger \in [Sinks -> EntryType]
    BY <2>1 DEF IInv, Core, TypeOK
  <2>3. ASSUME NEW s \in Sinks PROVE ledger'[s].sealed = ledger[s].sealed
    <3>1. ledger'[s] = IF s = w THEN [ledger[w] EXCEPT !.sent = @ + n] ELSE ledger[s]
      BY <2>1, <2>2
    <3> QED  BY <2>2, <3>1 DEF EntryType
  <2>4. tapes' = tapes
    BY <2>1, <2>3, TapesStay
  <2>5. runningTape' = runningTape
    BY <2>1 DEF runningTape
  <2> QED  BY <2>4, <2>5, Quiet
<1>4. CASE CloseBegin
  <2>1. /\ UNCHANGED <<disk, ledger, w>> /\ ~closed /\ w # NoSink
        /\ err' = "nil" => err = "nil"
    BY <1>4 DEF CloseBegin, Fail, Latched
  <2>2. tapes' = tapes
    BY <2>1, TapesStay
  <2>3. runningTape' \in {runningTape, NoSink}
    BY <2>1 DEF runningTape
  <2> QED  BY <2>2, <2>3, Quiet
<1> QED  BY <1>1, <1>2, <1>3, <1>4

(* Inside Close, what touches neither header nor seal at most stops the    *)
(* tape.                                                                   *)
LEMMA CloseIsQuiet ==
    ASSUME IInv, AudioInv, WritePad \/ SeekHead \/ Verify \/ SeekEnd, ledger' = ledger
    PROVE  Recorded
<1>1. /\ w \in Sinks /\ w # NoSink /\ closed /\ err = "nil" /\ pc # "idle" /\ w' = w
  BY InsideClose
<1>2. runningTape' \in {runningTape, NoSink}
  BY <1>1, RunsOn DEF runningTape
<1>3. ASSUME NEW s \in Sinks
      PROVE  /\ disk'[s].stage = disk[s].stage /\ disk'[s].audio = disk[s].audio
             /\ disk'[s].head = disk[s].head
  <2>1. /\ disk \in [Sinks -> FileType]
        /\ \/ disk' = disk
           \/ \E pad : disk' = [disk EXCEPT ![w].pad = pad]
    BY DEF WritePad, SeekHead, Verify, SeekEnd, IInv, Core, TypeOK
  <2>2. ASSUME NEW pad, disk' = [disk EXCEPT ![w].pad = pad]
        PROVE  /\ disk'[s].stage = disk[s].stage /\ disk'[s].audio = disk[s].audio
               /\ disk'[s].head = disk[s].head
    <3>1. disk'[s] = IF s = w THEN [disk[w] EXCEPT !.pad = pad] ELSE disk[s]
      BY <1>1, <2>1, <2>2
    <3> QED  BY <2>1, <3>1 DEF FileType
  <2> QED  BY <2>1, <2>2
<1>4. tapes' = tapes
  BY <1>3, TapesStay
<1> QED  BY <1>2, <1>4, Quiet

-----------------------------------------------------------------------------
(* Write.                                                                  *)

(* A numbered sequence, element by element.                                *)
LEMMA CountsFrom ==
    ASSUME NEW a \in Seq(Nat), NEW n \in Nat, NEW from \in Nat, Len(a) = n,
           Counts(a, from)
    PROVE  a = [i \in 1 .. n |-> from + i]
<1> DEFINE b == [i \in 1 .. n |-> from + i]
<1>1. b \in Seq(Nat) /\ Len(b) = n
  <2>1. \A i \in 1 .. n : from + i \in Nat
    OBVIOUS
  <2> QED  BY <2>1, IsASeq
<1>2. \A i \in 1 .. n : a[i] = b[i]
  BY DEF Counts
<1> HIDE DEF b
<1> QED  BY <1>1, <1>2, SeqEqual DEF b

(* What a sink takes of a Write is recorded behind what is on the tape.    *)
LEMMA EmitRecords ==
    ASSUME IInv, AudioInv, w # NoSink, err = "nil", pc # "idle",
           NEW buf \in Seq(Nat), Counts(buf, written), NEW e, emit(buf, e),
           UNCHANGED <<w, ledger>>, runningTape' \in {runningTape, NoSink}
    PROVE  Recorded
<1>1. runningTape = w /\ w \in Sinks
  BY RunsOn
<1>2. PICK k \in 0 .. Len(buf) :
         /\ k > 0 => written + Len(buf) <= MaxInt64
         /\ disk'[w].audio = disk[w].audio \o SubSeq(buf, 1, k)
         /\ SubSeq(buf, 1, k) \in Seq(Nat) /\ Len(SubSeq(buf, 1, k)) = k
         /\ Counts(SubSeq(buf, 1, k), written)
         /\ disk'[w].stage = disk[w].stage /\ disk'[w].head = disk[w].head
         /\ \A s \in Sinks \ {w} : disk'[s] = disk[s]
  BY EmitAppends
<1>3. Len(disk[w].audio) = written /\ written \in Nat /\ Len(buf) \in Nat /\ MaxInt64 \in Nat
  BY StreamFacts, LenProperties, EncoderAssumption
<1>4. k \in 0 .. MaxInt64
  BY <1>2, <1>3
<1>5. SubSeq(buf, 1, k) = [i \in 1 .. k |-> written + i]
  BY <1>2, <1>3, CountsFrom
<1>6. tapes[w].audio = disk[w].audio
  BY <1>1, TapesAre
<1>7. disk'[w].audio = tapes[w].audio \o [i \in 1 .. k |-> Len(tapes[w].audio) + i]
  BY <1>2, <1>3, <1>5, <1>6
<1>8. tapes' = [tapes EXCEPT ![w] = [loaded |-> tapes[w].loaded, audio |-> disk'[w].audio,
                                     label |-> tapes[w].label, sealed |-> tapes[w].sealed]]
  <2>1. tapes' = [tapes EXCEPT ![w] = [loaded |-> disk'[w].stage # "blank",
                                       audio |-> disk'[w].audio,
                                       label |-> LabelOf(disk'[w].head),
                                       sealed |-> ledger'[w].sealed]]
    BY <1>1, <1>2, TapeChanges
  <2>2. /\ (disk'[w].stage # "blank") = tapes[w].loaded
        /\ LabelOf(disk'[w].head) = tapes[w].label /\ ledger'[w].sealed = tapes[w].sealed
    BY <1>1, <1>2, TapesAre
  <2> QED  BY <2>1, <2>2, Zenon
<1>9. tapes' = [tapes EXCEPT ![w].audio = disk'[w].audio]
  BY <1>1, <1>8, TapeEdits
<1>10. tapes' = [tapes EXCEPT ![runningTape].audio =
                    @ \o [i \in 1 .. k |-> Len(@) + i]]
  BY <1>1, <1>7, <1>9
<1>11. R!Record(k)
  BY <1>1, <1>10 DEF R!Record, R!MayStop
<1> QED  BY <1>4, <1>11 DEF Recorded, R!RNext

(* Both halves of Write record, or are refused, or have nothing to write.  *)
LEMMA WriteRecords ==
    ASSUME IInv, AudioInv, EmitCarry \/ EmitAligned
    PROVE  Recorded
<1>1. /\ pc \in {"emitCarry", "emitAligned"} /\ err = "nil" /\ w # NoSink /\ ~closed
      /\ UNCHANGED <<w, closed, ledger>>
  BY DEF EmitCarry, EmitAligned, IInv, Core, CallInv
<1>2. runningTape' \in {runningTape, NoSink}
  BY <1>1, RunsOn DEF runningTape
<1>3. CASE EmitCarry
  <2>1. PICK e : emit(carry, e)
    BY <1>3 DEF EmitCarry
  <2>2. carry \in Seq(Nat) /\ Counts(carry, written)
    BY <1>1, StreamFacts
  <2> QED  BY <1>1, <1>2, <2>1, <2>2, EmitRecords
<1>4. CASE EmitAligned
  <2> DEFINE whole == Len(pend) - (Len(pend) % cfg.frame)
             out == SubSeq(pend, 1, whole)
  <2>1. PICK e : IF whole > 0 THEN emit(out, e) ELSE UNCHANGED <<written, cont, disk>>
    BY <1>4 DEF EmitAligned
  <2>2. CASE whole > 0
    <3>1. /\ pend \in Seq(Nat) /\ Len(pend) \in Nat /\ cfg.frame \in Nat /\ cfg.frame > 0
          /\ written \in Nat /\ Counts(pend, written)
      <4>1. carry = << >> /\ Len(<< >>) = 0 /\ pc = "emitAligned"
        BY <1>4, EmptySeq DEF EmitAligned, IInv, Core, CallInv
      <4>2. written \in Nat /\ Counts(pend, written + Len(carry))
        BY <1>1, StreamFacts
      <4>3. written + Len(carry) = written
        BY <4>1, <4>2
      <4> QED  BY <1>1, <4>2, <4>3, StreamFacts
    <3>2. whole \in 0 .. Len(pend)
      <4>1. Len(pend) % cfg.frame \in Nat /\ Len(pend) % cfg.frame <= Len(pend)
        BY <3>1, Remainder
      <4> QED  BY <3>1, <4>1
    <3> HIDE DEF whole
    <3>3. out \in Seq(Nat) /\ Counts(out, written)
      BY <3>1, <3>2, CountsSplit
    <3> HIDE DEF out
    <3> QED  BY <1>1, <1>2, <2>1, <2>2, <3>3, EmitRecords
  <2>3. CASE ~(whole > 0)
    <3>1. tapes' = tapes
      BY <1>1, <2>1, <2>3, TapesStay
    <3> QED  BY <1>2, <3>1, Quiet
  <2> QED  BY <2>2, <2>3
<1> QED  BY <1>3, <1>4

-----------------------------------------------------------------------------
(* Close.                                                                  *)

(* What a torn rewrite may leave of the label: the one it had, or, if that *)
(* was unknown, any length up to the true one, or an illegible one.        *)
TornLabel(l) ==
    \/ l = LabelOf(lay.bytes)
    \/ LabelOf(lay.bytes) = sizeUnknown /\ l \in 0..written \cup {sizeUnknown, -2}

(* The labels of the header that was built and of the final one, and what  *)
(* a torn rewrite may leave between them.                                  *)
LEMMA HeadLabels ==
    ASSUME IInv, AudioInv, HeaderInv, w # NoSink, err = "nil", PromiseKept,
           MaxSent <= MaxDataSize
    PROVE  /\ framesKnown(cfg) => LabelOf(lay.bytes) = written
           /\ ~framesKnown(cfg) => LabelOf(lay.bytes) = sizeUnknown
           /\ LabelOf(FinalHeader) = IF written = 0 THEN sizeUnknown ELSE written
           /\ \A n \in 0..RewrittenFields, m \in Places \cup {1} :
                 TornLabel(LabelOf(tornHeader(lay.bytes, FinalHeader, n, m)))
<1>1. /\ lay.bytes \in HeaderType /\ Says(lay.bytes, sizeAtReset(cfg))
      /\ cont \in Containers /\ planned \in Containers /\ written \in Nat
      /\ lay.bytes.magic = planned
      /\ planned = "RIFF" => sizeAtReset(cfg) < MaxUint32
      /\ cont # planned => ~framesKnown(cfg)
      /\ sizeAtReset(cfg) \in Nat
  BY BoundFacts DEF HeaderInv
<1>2. /\ FinalHeader \in HeaderType /\ FinalHeader.magic = cont
      /\ Says(FinalHeader, written)
      /\ cont = "RIFF" => written < MaxUint32
  BY FinalFacts DEF HeaderInv
<1>3. /\ written <= MaxDataSize
  <2>1. Len(disk[w].audio) = written /\ w \in Sinks
    BY StreamFacts
  <2>2. written <= ledger[w].sent /\ ledger[w].sent <= MaxSent /\ ledger[w].sent \in Nat
    BY <2>1, StreamFacts DEF AudioInv, TapeInv
  <2> QED  BY <1>1, <2>2, EncoderAssumption, SizeAssumption
<1>4. \A head \in HeaderType : head.magic = "RF64" => Sized64(head.magic)
  BY DEF Sized64
<1>5. framesKnown(cfg) => sizeAtReset(cfg) = written /\ written > 0
  BY KeptPromise
<1>6. ~framesKnown(cfg) => sizeAtReset(cfg) = 0
  BY DEF sizeAtReset
<1>7. framesKnown(cfg) => LabelOf(lay.bytes) = written
  <2> SUFFICES ASSUME framesKnown(cfg) PROVE LabelOf(lay.bytes) = written
    OBVIOUS
  <2>1. Says(lay.bytes, written) /\ (Sized64(lay.bytes.magic) \/ written < MaxUint32)
    BY <1>1, <1>4, <1>5 DEF Containers
  <2> QED  BY <1>1, <1>3, <1>5, <2>1, LabelOfSays
<1>8. ~framesKnown(cfg) => LabelOf(lay.bytes) = sizeUnknown
  BY <1>1, <1>6, SaysResolves DEF LabelOf
<1>9. LabelOf(FinalHeader) = IF written = 0 THEN sizeUnknown ELSE written
  <2>1. Sized64(FinalHeader.magic) \/ written < MaxUint32
    BY <1>1, <1>2, <1>4 DEF Containers
  <2> QED  BY <1>1, <1>2, <1>3, <2>1, LabelOfSays
<1>10. ASSUME NEW n \in 0..RewrittenFields, NEW m \in Places \cup {1}
       PROVE  TornLabel(LabelOf(tornHeader(lay.bytes, FinalHeader, n, m)))
  <2> DEFINE torn == tornHeader(lay.bytes, FinalHeader, n, m)
  <2>1. /\ torn \in HeaderType
        /\ \/ \E d \in 0..written :
                 /\ Says(torn, d) /\ Readable(torn)
                 /\ torn.magic \in {planned, cont}
                 /\ framesKnown(cfg) => d = written
           \/ ~Readable(torn) /\ cont # planned
    <3>1. PromiseExact /\ BuiltInv
      BY <1>5 DEF PromiseExact, HeaderInv
    <3> QED  BY <3>1, TornFacts
  <2> HIDE DEF torn
  <2>2. CASE framesKnown(cfg)
    <3>1. Says(torn, written) /\ torn.magic \in {planned, cont} /\ written > 0
      BY <1>1, <1>5, <2>1, <2>2
    <3>2. Sized64(torn.magic) \/ written < MaxUint32
      BY <1>1, <1>2, <1>4, <2>2, <3>1 DEF Containers
    <3>3. LabelOf(torn) = written
      BY <1>1, <1>3, <2>1, <3>1, <3>2, LabelOfSays
    <3> QED  BY <1>7, <2>2, <3>3 DEF torn, TornLabel
  <2>3. CASE ~framesKnown(cfg) /\ ~Readable(torn)
    BY <1>8, <2>3 DEF LabelOf, TornLabel, torn
  <2>4. CASE ~framesKnown(cfg) /\ Readable(torn)
    <3>1. PICK d \in 0..written : Says(torn, d)
      BY <2>1, <2>4
    <3>2. LabelOf(torn) \in {sizeUnknown, d}
      BY <1>1, <2>1, <3>1, SaysResolves DEF LabelOf
    <3> QED  BY <1>8, <2>4, <3>1, <3>2 DEF torn, TornLabel
  <2> QED  BY <2>2, <2>3, <2>4
<1> QED  BY <1>7, <1>8, <1>9, <1>10

(* Sealing marks the running tape and nothing else.                        *)
LEMMA Seals ==
    ASSUME IInv, w \in Sinks, runningTape = w, disk' = disk, Seal, runningTape' = NoSink,
           \/ LabelOf(disk[w].head) = Len(disk[w].audio)
           \/ /\ LabelOf(disk[w].head) = sizeUnknown
              /\ w \notin SeekableSinks \/ disk[w].audio = << >>
    PROVE  Recorded
<1>1. /\ ledger \in [Sinks -> EntryType] /\ ledger[w] \in EntryType
      /\ ledger' = [ledger EXCEPT ![w].sealed = TRUE]
  BY DEF IInv, Core, TypeOK, Seal
<1>2. ledger'[w].sealed = TRUE /\ \A s \in Sinks \ {w} : ledger'[s] = ledger[s]
  BY <1>1 DEF EntryType
<1>3. tapes' = [tapes EXCEPT ![w] = [loaded |-> disk[w].stage # "blank",
                                     audio |-> disk[w].audio,
                                     label |-> LabelOf(disk[w].head), sealed |-> TRUE]]
  <2>1. tapes' = [tapes EXCEPT ![w] = [loaded |-> disk'[w].stage # "blank",
                                       audio |-> disk'[w].audio,
                                       label |-> LabelOf(disk'[w].head),
                                       sealed |-> ledger'[w].sealed]]
    BY <1>2, TapeChanges
  <2> QED  BY <1>2, <2>1, Zenon
<1>4. /\ (disk[w].stage # "blank") = tapes[w].loaded /\ disk[w].audio = tapes[w].audio
      /\ LabelOf(disk[w].head) = tapes[w].label
  BY TapesAre
<1>5. tapes' = [tapes EXCEPT ![w] = [loaded |-> tapes[w].loaded, audio |-> tapes[w].audio,
                                     label |-> tapes[w].label, sealed |-> TRUE]]
  BY <1>3, <1>4, Zenon
<1>6. tapes' = [tapes EXCEPT ![w].sealed = TRUE]
  BY <1>5, TapeEdits
<1>7. w # NoSink
  BY EncoderAssumption
<1>8. R!SealTape
  BY <1>4, <1>6, <1>7 DEF R!SealTape, R!Unknown, sizeUnknown
<1> QED  BY <1>8 DEF Recorded, R!RNext

(* What cannot seek is sealed with the header it has: truly labelled if    *)
(* the length was promised, and without a length otherwise.                *)
LEMMA VerifySeals ==
    ASSUME IInv, FinalInv, AudioInv, HeaderInv, Verify, MaxSent <= MaxDataSize
    PROVE  Recorded
<1>1. /\ pc = "verify" /\ w \in Sinks /\ w # NoSink /\ closed /\ err = "nil" /\ w' = w
      /\ disk' = disk
  BY InsideClose DEF Verify
<1>2. runningTape = w
  BY <1>1, RunsOn
<1>3. CASE ledger' = ledger
  BY <1>3, CloseIsQuiet
<1>4. CASE /\ ~(cfg.total > 0 /\ frames # cfg.total) /\ ~seekable
           /\ Return("Close", 0, "nil") /\ Seal /\ UNCHANGED <<err, closed>>
  <2>1. runningTape' = NoSink
    BY <1>1, <1>4 DEF runningTape, Return
  <2>2. PromiseKept /\ w \notin SeekableSinks
    BY <1>4 DEF PromiseKept, seekable
  <2>3. disk[w].head = lay.bytes /\ Len(disk[w].audio) = written
    BY <1>1, Unpatched, StreamFacts
  <2>4. LabelOf(disk[w].head) \in {written, sizeUnknown}
    BY <1>1, <2>2, <2>3, HeadLabels
  <2> QED  BY <1>1, <1>2, <1>4, <2>1, <2>2, <2>3, <2>4, Seals
<1> QED  BY <1>1, <1>3, <1>4 DEF Verify, Fail, Return, Continue

(* The rewritten header labels the tape with its length, or, torn, leaves  *)
(* the label or spoils one that was unknown.                               *)
LEMMA RewriteRelabels ==
    ASSUME IInv, FinalInv, AudioInv, HeaderInv, RewriteHead, MaxSent <= MaxDataSize
    PROVE  Recorded
<1>1. /\ pc = "rewrite" /\ w \in Sinks /\ w # NoSink /\ closed /\ err = "nil"
      /\ UNCHANGED <<w, closed, ledger>>
  BY InsideClose DEF RewriteHead
<1>2. /\ runningTape = w /\ w \in SeekableSinks /\ PromiseKept
  BY <1>1, RunsOn DEF HeaderInv, HeadInv, seekable
<1>3. /\ disk[w].head = lay.bytes /\ Len(disk[w].audio) = written /\ written \in Nat
      /\ disk \in [Sinks -> FileType] /\ disk[w] \in FileType
  BY <1>1, Unpatched, StreamFacts
<1>4. PICK head :
         /\ disk' = [disk EXCEPT ![w].head = head]
         /\ \/ head = FinalHeader /\ Continue("seekEnd") /\ UNCHANGED err
            \/ /\ \E n \in 0..RewrittenFields, m \in Places \cup {1} :
                     head = tornHeader(disk[w].head, FinalHeader, n, m)
               /\ Fail("Close", 0, "sink")
  BY <1>1, <1>3 DEF RewriteHead
<1>5. /\ disk'[w].head = head /\ disk'[w].stage = disk[w].stage
      /\ disk'[w].audio = disk[w].audio
      /\ \A s \in Sinks \ {w} : disk'[s] = disk[s]
  <2>1. disk'[w] = [disk[w] EXCEPT !.head = head]
    BY <1>1, <1>3, <1>4
  <2> QED  BY <1>3, <1>4, <2>1 DEF FileType
<1>6. tapes' = [tapes EXCEPT ![w].label = LabelOf(head)]
  <2>1. tapes' = [tapes EXCEPT ![w] = [loaded |-> disk'[w].stage # "blank",
                                       audio |-> disk'[w].audio,
                                       label |-> LabelOf(disk'[w].head),
                                       sealed |-> ledger'[w].sealed]]
    BY <1>1, <1>5, TapeChanges
  <2>2. /\ (disk'[w].stage # "blank") = tapes[w].loaded
        /\ disk'[w].audio = tapes[w].audio /\ ledger'[w].sealed = tapes[w].sealed
    BY <1>1, <1>5, TapesAre
  <2>3. tapes' = [tapes EXCEPT ![w] = [loaded |-> tapes[w].loaded, audio |-> tapes[w].audio,
                                       label |-> LabelOf(head), sealed |-> tapes[w].sealed]]
    BY <1>5, <2>1, <2>2, Zenon
  <2> QED  BY <1>1, <2>3, TapeEdits
<1>7. runningTape' = IF err' = "nil" THEN w ELSE NoSink
  BY <1>1, <1>4 DEF runningTape, Continue, Fail, Return, Latched
<1>8. LabelOf(head) = LabelOf(lay.bytes) => tapes' = tapes
  <2>1. tapes[w].label = LabelOf(lay.bytes)
    BY <1>1, <1>3, TapesAre
  <2>2. [tapes EXCEPT ![w].label = tapes[w].label] = tapes
    <3>1. [tapes EXCEPT ![w].label = tapes[w].label] = [tapes EXCEPT ![w] = tapes[w]]
      BY <1>1, TapeEdits, Zenon
    <3>2. [tapes EXCEPT ![w] = tapes[w]] = tapes
      BY TapesAre
    <3> QED  BY <3>1, <3>2
  <2> QED  BY <1>6, <2>1, <2>2, Zenon
<1>9. tapes[w].audio = disk[w].audio
  BY <1>1, TapesAre
<1>10. CASE LabelOf(head) = LabelOf(lay.bytes)
  BY <1>2, <1>7, <1>8, <1>10, Quiet
<1>11. CASE LabelOf(head) = written
  <2>1. R!Relabel
    BY <1>2, <1>3, <1>6, <1>7, <1>9, <1>11 DEF R!Relabel, R!MayStop
  <2> QED  BY <2>1 DEF Recorded, R!RNext
<1>12. CASE /\ LabelOf(lay.bytes) = sizeUnknown
            /\ LabelOf(head) \in 0..written \cup {sizeUnknown, -2} /\ err' # "nil"
  <2>1. tapes[w].label = sizeUnknown
    BY <1>1, <1>3, <1>12, TapesAre
  <2>2. R!Mislabel
    BY <1>1, <1>2, <1>3, <1>6, <1>7, <1>9, <1>12, <2>1
       DEF R!Mislabel, R!Unknown, R!Illegible, sizeUnknown
  <2> QED  BY <2>2 DEF Recorded, R!RNext
<1>13. \/ LabelOf(head) \in {LabelOf(lay.bytes), written}
       \/ /\ LabelOf(lay.bytes) = sizeUnknown
          /\ LabelOf(head) \in 0..written \cup {sizeUnknown, -2} /\ err' # "nil"
  <2>1. CASE head = FinalHeader
    <3>1. framesKnown(cfg) => written > 0
      BY <1>1, <1>2, KeptPromise
    <3> QED  BY <1>1, <1>2, <1>3, <2>1, <3>1, HeadLabels
  <2>2. CASE /\ \E n \in 0..RewrittenFields, m \in Places \cup {1} :
                  head = tornHeader(lay.bytes, FinalHeader, n, m)
             /\ Fail("Close", 0, "sink")
    <3>1. err' # "nil"
      BY <1>1, <2>2 DEF Fail, Latched
    <3>2. TornLabel(LabelOf(head))
      BY <1>1, <1>2, <2>2, HeadLabels
    <3> QED  BY <3>1, <3>2 DEF TornLabel
  <2> QED  BY <1>3, <1>4, <2>1, <2>2
<1> QED  BY <1>10, <1>11, <1>12, <1>13

(* Behind a rewritten header the file is sealed, or the tape stops.        *)
LEMMA SeekEndSeals ==
    ASSUME IInv, FinalInv, AudioInv, HeaderInv, SeekEnd, MaxSent <= MaxDataSize
    PROVE  Recorded
<1>1. /\ pc = "seekEnd" /\ w \in Sinks /\ w # NoSink /\ closed /\ err = "nil"
      /\ UNCHANGED <<w, closed, disk>>
  BY InsideClose DEF SeekEnd
<1>2. CASE ledger' = ledger
  BY <1>2, CloseIsQuiet
<1>3. CASE Return("Close", 0, "nil") /\ Seal /\ UNCHANGED err
  <2>1. runningTape = w /\ runningTape' = NoSink
    BY <1>1, <1>3, RunsOn DEF runningTape, Return
  <2>2. disk[w].head = FinalHeader /\ PromiseKept
    BY <1>1 DEF HeaderInv, HeadInv
  <2>3. LabelOf(disk[w].head) = IF written = 0 THEN sizeUnknown ELSE written
    BY <1>1, <2>2, HeadLabels
  <2>4. Len(disk[w].audio) = written /\ disk[w].audio \in Seq(Nat)
    BY <1>1, StreamFacts
  <2>5. written = 0 => disk[w].audio = << >>
    BY <2>4, EmptySeq
  <2> QED  BY <1>1, <1>3, <2>1, <2>3, <2>4, <2>5, Seals
<1> QED  BY <1>2, <1>3 DEF SeekEnd

-----------------------------------------------------------------------------
(* The theorem.                                                            *)

(* Every step of the encoder is a step of the recorder, or none.           *)
LEMMA StepsAreRecorded ==
    ASSUME Invs, [Next]_vars, MaxSent <= MaxDataSize
    PROVE  [R!RNext]_(<<runningTape, tapes>>)
<1>1. IInv /\ FinalInv /\ AudioInv /\ HeaderInv
  BY DEF Invs
<1>2. CASE UNCHANGED vars
  <2>1. UNCHANGED <<w, err, closed, pc, disk, ledger>>
    BY <1>2 DEF vars, encoder, call
  <2>2. tapes' = tapes
    BY <2>1, TapesStay
  <2>3. runningTape' = runningTape
    BY <2>1 DEF runningTape
  <2> QED  BY <2>2, <2>3
<1>3. CASE Running
  <2>1. ASSUME WritePad \/ SeekHead PROVE Recorded
    <3>1. ledger' = ledger
      BY <2>1 DEF WritePad, SeekHead
    <3> QED  BY <1>1, <2>1, <3>1, CloseIsQuiet
  <2>2. Recorded
    BY <1>1, <1>3, <2>1, WriteRecords, VerifySeals, RewriteRelabels, SeekEndSeals DEF Running
  <2> QED  BY <2>2 DEF Recorded
<1>4. ASSUME Next, ~Running
      PROVE  Recorded
  <2>1. ASSUME NEW s \in Sinks, NEW c \in Configs, ResetBinds(s, c)
        PROVE  Recorded
    BY <1>1, <2>1, ResetLoads DEF Recorded, R!RNext
  <2> QED  BY <1>1, <1>4, <2>1, IdleStep, IdleIsQuiet
<1> QED  BY <1>2, <1>3, <1>4 DEF Recorded

(* Encoder implements Recorder, for every set of sinks and Configs, every  *)
(* limit and every way of cutting the audio into Writes, as long as a      *)
(* stream is not longer than a reader believes: audio only ever grows at   *)
(* the end of the running sink, labels are unknown, promised or true (or,  *)
(* when the sink fails inside the rewrite of an unknown one, at whichever  *)
(* byte, illegible or too short, and never sealed), and nothing happens to *)
(* a sink that was closed, failed or abandoned.                            *)
THEOREM EncoderRecords ==
    ASSUME MaxSent <= MaxDataSize
    PROVE  Spec => ImplementsRecorder
<1>1. Init => R!RInit
  <2> SUFFICES ASSUME Init PROVE R!RInit
    OBVIOUS
  <2>1. runningTape = NoSink
    BY DEF Init, runningTape
  <2>2. ASSUME NEW s \in Sinks
        PROVE  TapeOf(s) = [loaded |-> FALSE, audio |-> << >>,
                            label |-> R!Unknown, sealed |-> FALSE]
    <3>1. label(s) = -1
      BY DEF Init, BlankFile, NoHeader, label, Readable, Sized64, resolveDataSize,
             haveDS64, sizeUnknown
    <3>2. /\ (disk[s].stage # "blank") = FALSE /\ disk[s].audio = << >>
          /\ ledger[s].sealed = FALSE
      BY DEF Init, BlankFile, BlankEntry
    <3>3. R!Unknown = -1
      BY DEF R!Unknown
    <3> QED  BY <3>1, <3>2, <3>3, Zenon DEF TapeOf
  <2> QED  BY <2>1, <2>2, TapesAre DEF R!RInit
<1>2. Invs /\ [Next]_vars => [R!RNext]_(<<runningTape, tapes>>)
  BY StepsAreRecorded
<1> QED  BY <1>1, <1>2, AllInvs, PTL DEF Spec, ImplementsRecorder, R!RSpec, R!rvars
=============================================================================
