------------------------------ MODULE Encoder ------------------------------
(***************************************************************************)
(* pcm.Encoder: one encoder, reset over several sinks by its caller.       *)
(*                                                                         *)
(* The variables w .. err are the fields of the Go struct (ws is the fact  *)
(* that w is in SeekableSinks).  A method that touches its sink more than  *)
(* once is split at every sink call: pc, pend and done are where the call  *)
(* is, the caller's bytes it has yet to place and the count it would       *)
(* report; between two steps the medium is as a crash would leave it.      *)
(* Each sink call may fail, having taken any prefix of what it was given.  *)
(*                                                                         *)
(* disk is what the sinks hold.  The caller numbers the bytes of a stream  *)
(* 1, 2, 3 ... in the order it offers them, so the audio on a sink is a    *)
(* sequence of those numbers.  ledger is the observer's record of each     *)
(* sink: the Config it was opened with, the bytes offered to it, and       *)
(* whether Close returned nil.                                             *)
(***************************************************************************)
EXTENDS RiffLayout, Sequences, FiniteSets

CONSTANTS Sinks,          \* the io.Writers a caller may hand over
          SeekableSinks,  \* those that are io.WriteSeekers
          NoSink,         \* the nil writer
          Configs,        \* the Configs the caller uses
          WriteSizes,     \* lengths of the slices passed to Write
          MaxSent,        \* bound: bytes offered to one sink
          MaxInt64,       \* largest byte count
          Places          \* weights of the bytes of a number after its first:
                          \* 256, 256^2, ... 256^7 in the code

ModeType == {"Auto", "Never", "Always"}

ConfigType == [rf64 : ModeType, frame : Nat, total : Nat,
               bext : Nat, ixml : Nat, float : BOOLEAN, extensible : BOOLEAN,
               valid : BOOLEAN, expressible : BOOLEAN]

NoConfig == [rf64 |-> "Auto", frame |-> 0, total |-> 0, bext |-> 0, ixml |-> 0,
             float |-> FALSE, extensible |-> FALSE, valid |-> FALSE,
             expressible |-> FALSE]

ASSUME EncoderAssumption ==
    /\ SeekableSinks \subseteq Sinks
    /\ NoSink \notin Sinks
    /\ Configs \subseteq ConfigType
    /\ \A c \in Configs : c.valid => c.frame > 0
    /\ WriteSizes \subseteq Nat
    /\ MaxSent \in Nat
    /\ MaxInt64 \in Nat
    /\ Places \subseteq Nat \ {0}

VARIABLES w, cfg, cont, lay, written, carry, closed, err,   \* struct Encoder
          pc, pend, done,                                   \* the call in progress
          ret,                                              \* what the last call returned
          disk, ledger

encoder == <<w, cfg, cont, lay, written, carry, closed, err>>
call == <<pc, pend, done>>
vars == <<encoder, call, ret, disk, ledger>>

Errors == {"nil", "encoderClosed", "rejected", "tooLarge", "sink",
           "partialFrame", "frameMismatch", "cannotPatch"}

PCs == {"idle", "emitCarry", "emitAligned", "pad", "verify",
        "seekHead", "rewrite", "seekEnd"}

BlankFile == [stage |-> "blank", head |-> NoHeader, audio |-> << >>, pad |-> 0]
BlankEntry == [cfg |-> NoConfig, sent |-> 0, sealed |-> FALSE]

Init == /\ w = NoSink /\ cfg = NoConfig /\ cont = "RIFF" /\ lay = NoLayout
        /\ written = 0 /\ carry = << >> /\ closed = FALSE /\ err = "nil"
        /\ pc = "idle" /\ pend = << >> /\ done = 0
        /\ ret = [op |-> "none", n |-> 0, err |-> "nil"]
        /\ disk = [s \in Sinks |-> BlankFile]
        /\ ledger = [s \in Sinks |-> BlankEntry]

-----------------------------------------------------------------------------
(* Shared by the methods.                                                  *)

seekable == w \in SeekableSinks

frames == IF cfg.frame > 0 THEN written \div cfg.frame ELSE 0

Return(op, n, e) ==
    /\ ret' = [op |-> op, n |-> n, err |-> e]
    /\ pc' = "idle" /\ pend' = << >> /\ done' = 0

Continue(next) == pc' = next /\ UNCHANGED ret

(* fail latches the first error only.                                      *)
Latched(e) == IF err = "nil" THEN e ELSE err

Fail(op, n, e) == err' = Latched(e) /\ Return(op, n, Latched(e))

-----------------------------------------------------------------------------
(* Reset.                                                                  *)

framesKnown(c) == c.total > 0

Overflows(c) == c.total > MaxInt64 \div c.frame

declaredDataSize(c) == c.total * c.frame

(* Slip: the fit is judged as if a ds64 were reserved.                     *)
plan_countsRoom(c, canSeek) ==
    LET known == framesKnown(c)
        fits == fitsRIFF(HeaderLen(c, TRUE), declaredDataSize(c))
    IN [container |-> IF c.rf64 = "Always" \/ (c.rf64 = "Auto" /\ known /\ ~fits)
                      THEN "RF64" ELSE "RIFF",
        reserve |-> c.rf64 = "Auto" /\ ~known /\ canSeek,
        err |-> IF c.rf64 = "Always" /\ ~known /\ ~canSeek THEN "rejected"
                ELSE IF known /\ Overflows(c) THEN "tooLarge" ELSE "nil"]

(* plan: the container to write, whether to reserve a JUNK chunk, and the  *)
(* error when no correct file can be promised.                             *)
plan(c, canSeek) ==
    CASE c.rf64 = "Always" ->
           [container |-> "RF64", reserve |-> FALSE,
            err |-> IF ~canSeek /\ ~framesKnown(c) THEN "rejected" ELSE "nil"]
      [] c.rf64 = "Never" ->
           [container |-> "RIFF", reserve |-> FALSE, err |-> "nil"]
      [] c.rf64 = "Auto" /\ framesKnown(c) ->
           [container |-> IF FitsPlainRIFF(c, declaredDataSize(c)) THEN "RIFF" ELSE "RF64",
            reserve |-> FALSE,
            err |-> IF Overflows(c) THEN "tooLarge" ELSE "nil"]
      [] OTHER ->
           [container |-> "RIFF", reserve |-> canSeek, err |-> "nil"]

sizeAtReset(c) == IF framesKnown(c) THEN declaredDataSize(c) ELSE 0

(* The first reason reset finds to reject (s, c), or "nil".                *)
Rejection(s, c) ==
    LET p == plan(c, s \in SeekableSinks)
    IN IF s = NoSink \/ ~c.valid THEN "rejected"
       ELSE IF p.err # "nil" THEN p.err
       ELSE IF framesKnown(c) /\ Overflows(c) THEN "tooLarge"
       ELSE IF ~CanBuild(c, p.container, p.reserve, sizeAtReset(c))
       THEN "tooLarge"
       ELSE "nil"

(* invalidate: nothing of the previous stream survives.                    *)
invalidate(e) ==
    /\ w' = NoSink /\ cfg' = NoConfig /\ cont' = "RIFF" /\ lay' = NoLayout
    /\ written' = 0 /\ carry' = << >> /\ closed' = TRUE /\ err' = e

(* Slip: an early return of reset that does not go through invalidate.     *)
ResetRejected_keepsStream(s, c) ==
    /\ pc = "idle"
    /\ Rejection(s, c) # "nil"
    /\ Return("Reset", 0, Rejection(s, c))
    /\ UNCHANGED <<encoder, disk, ledger>>

ResetRejected(s, c) ==
    /\ pc = "idle"
    /\ Rejection(s, c) # "nil"
    /\ invalidate(Rejection(s, c))
    /\ Return("Reset", 0, Rejection(s, c))
    /\ UNCHANGED <<disk, ledger>>

(* The caller hands over a sink nothing was written to yet, positioned at  *)
(* its start: the offsets of a Layout are from the start of the stream.    *)
ResetBinds(s, c) ==
    LET p == plan(c, s \in SeekableSinks)
        built == BuildHeader(c, p.container, p.reserve, sizeAtReset(c), c.total)
    IN /\ pc = "idle"
       /\ Rejection(s, c) = "nil"
       /\ disk[s].stage = "blank"
       /\ w' = s /\ cfg' = c /\ cont' = p.container /\ lay' = built
       /\ written' = 0 /\ carry' = << >> /\ closed' = FALSE
       /\ ledger' = [ledger EXCEPT ![s].cfg = c]
       /\ \/ /\ err' = "nil"
             /\ disk' = [disk EXCEPT ![s].stage = "headed", ![s].head = built.bytes]
          \/ /\ err' = "sink"
             /\ \/ \E stage \in {"blank", "stub"} :
                      disk' = [disk EXCEPT ![s].stage = stage]
                \/ disk' = [disk EXCEPT ![s].stage = "headed", ![s].head = built.bytes]
       /\ Return("Reset", 0, err')

Reset(s, c) == ResetRejected(s, c) \/ ResetBinds(s, c)

-----------------------------------------------------------------------------
(* Write.                                                                  *)

(* checkCapacity.                                                          *)
Rescuable == cfg.rf64 = "Auto" /\ seekable /\ lay.hasDS64

(* Slips: the wrap of the byte count, or the 32-bit limit, is forgotten.   *)
TooLarge_wraps(next) == ~Sized64(cont) /\ ~FitsRIFF(lay, next) /\ ~Rescuable

TooLarge_unlimited(next) == next > MaxInt64

TooLarge(next) ==
    \/ next > MaxInt64
    \/ ~Sized64(cont) /\ ~FitsRIFF(lay, next) /\ ~Rescuable

(* Slip: outgrowing plain RIFF is accepted but not remembered.             *)
ContainerFor_noFlip(next) == cont

ContainerFor(next) ==
    IF ~Sized64(cont) /\ ~FitsRIFF(lay, next) THEN "RF64" ELSE cont

(* Slip: the capacity is checked for the length before this write.         *)
emit_staleCheck(buf, e) ==
    \/ /\ e = "tooLarge" /\ TooLarge(written)
       /\ UNCHANGED <<written, cont, disk>>
    \/ /\ e \in {"nil", "sink"} /\ ~TooLarge(written)
       /\ cont' = ContainerFor(written)
       /\ \E k \in 0..Len(buf) :
             /\ e = "nil" => k = Len(buf)
             /\ written' = written + k
             /\ disk' = [disk EXCEPT ![w].audio = @ \o SubSeq(buf, 1, k)]

(* emit(buf) ends with e: refused before the sink is touched, taken in     *)
(* full, or failed by a sink that took the first k bytes.                  *)
emit(buf, e) ==
    LET next == written + Len(buf)
    IN \/ /\ e = "tooLarge" /\ TooLarge(next)
          /\ UNCHANGED <<written, cont, disk>>
       \/ /\ e \in {"nil", "sink"} /\ ~TooLarge(next)
          /\ cont' = ContainerFor(next)
          /\ \E k \in 0..Len(buf) :
                /\ e = "nil" => k = Len(buf)
                /\ written' = written + k
                /\ disk' = [disk EXCEPT ![w].audio = @ \o SubSeq(buf, 1, k)]

EmitResults == {"nil", "tooLarge", "sink"}

(* The n bytes the caller offers next.                                     *)
Offered(n) == [i \in 1..n |-> ledger[w].sent + i]

WriteRefused(n) ==
    /\ pc = "idle"
    /\ err # "nil" \/ closed \/ w = NoSink
    /\ Return("Write", 0, IF err # "nil" THEN err ELSE "encoderClosed")
    /\ UNCHANGED <<encoder, disk, ledger>>

WriteBegin(n) ==
    LET p == Offered(n)
        need == cfg.frame - Len(carry)
    IN /\ pc = "idle" /\ err = "nil" /\ ~closed /\ w # NoSink
       /\ ledger[w].sent + n <= MaxSent
       /\ ledger' = [ledger EXCEPT ![w].sent = @ + n]
       /\ \/ /\ n = 0
             /\ Return("Write", 0, "nil") /\ UNCHANGED carry
          \/ /\ n > 0 /\ carry = << >>
             /\ pend' = p /\ done' = 0 /\ Continue("emitAligned")
             /\ UNCHANGED carry
          \/ /\ n > 0 /\ carry # << >> /\ n < need
             /\ carry' = carry \o p /\ Return("Write", n, "nil")
          \/ /\ carry # << >> /\ n >= need
             /\ carry' = carry \o SubSeq(p, 1, need)
             /\ pend' = SubSeq(p, need + 1, n) /\ done' = need
             /\ Continue("emitCarry")
       /\ UNCHANGED <<w, cfg, cont, lay, written, closed, err, disk>>

Write(n) == WriteRefused(n) \/ WriteBegin(n)

(* Slip: the carry is not reset after it was written.                      *)
EmitCarry_keepsCarry ==
    /\ pc = "emitCarry"
    /\ \E e \in EmitResults :
          /\ emit(carry, e)
          /\ IF e = "nil" THEN Continue("emitAligned") /\ UNCHANGED <<err, pend, done>>
                          ELSE Fail("Write", 0, e)
    /\ UNCHANGED <<w, cfg, lay, carry, closed, ledger>>

(* The carried frame is complete.  On failure the carry is kept and Write  *)
(* reports 0.                                                              *)
EmitCarry ==
    /\ pc = "emitCarry"
    /\ \E e \in EmitResults :
          /\ emit(carry, e)
          /\ IF e = "nil"
             THEN /\ carry' = << >> /\ Continue("emitAligned")
                  /\ UNCHANGED <<err, pend, done>>
             ELSE Fail("Write", 0, e) /\ UNCHANGED carry
    /\ UNCHANGED <<w, cfg, lay, closed, ledger>>

(* Slip: a slice shorter than a frame is never finished with.              *)
EmitAligned_stuck ==
    LET whole == Len(pend) - (Len(pend) % cfg.frame)
    IN /\ pc = "emitAligned"
       /\ whole > 0
       /\ \E e \in EmitResults :
             /\ emit(SubSeq(pend, 1, whole), e)
             /\ IF e = "nil"
                THEN /\ carry' = carry \o SubSeq(pend, whole + 1, Len(pend))
                     /\ Return("Write", done + Len(pend), "nil")
                     /\ UNCHANGED err
                ELSE Fail("Write", done, e) /\ UNCHANGED carry
       /\ UNCHANGED <<w, cfg, lay, closed, ledger>>

(* writeAligned: the whole frames go out, the rest is carried.             *)
EmitAligned ==
    LET whole == Len(pend) - (Len(pend) % cfg.frame)
        rest == SubSeq(pend, whole + 1, Len(pend))
    IN /\ pc = "emitAligned"
       /\ \E e \in EmitResults :
             /\ IF whole > 0
                THEN emit(SubSeq(pend, 1, whole), e)
                ELSE e = "nil" /\ UNCHANGED <<written, cont, disk>>
             /\ IF e = "nil"
                THEN /\ carry' = carry \o rest
                     /\ Return("Write", done + Len(pend), "nil")
                     /\ UNCHANGED err
                ELSE Fail("Write", done, e) /\ UNCHANGED carry
       /\ UNCHANGED <<w, cfg, lay, closed, ledger>>

-----------------------------------------------------------------------------
(* Close.                                                                  *)

CloseAgain ==
    /\ pc = "idle"
    /\ closed \/ w = NoSink
    /\ Return("Close", 0, IF closed THEN err ELSE "encoderClosed")
    /\ UNCHANGED <<encoder, disk, ledger>>

(* Slip: the closed flag is not consulted.                                 *)
CloseBegin_again ==
    /\ pc = "idle" /\ w # NoSink
    /\ closed' = TRUE
    /\ CASE err # "nil"    -> Return("Close", 0, err) /\ UNCHANGED err
         [] err = "nil" /\ carry # << >> -> Fail("Close", 0, "partialFrame")
         [] OTHER -> /\ Continue(IF written % 2 # 0 THEN "pad" ELSE "verify")
                     /\ UNCHANGED <<err, pend, done>>
    /\ UNCHANGED <<w, cfg, cont, lay, written, carry, disk, ledger>>

CloseBegin ==
    /\ pc = "idle" /\ ~closed /\ w # NoSink
    /\ closed' = TRUE
    /\ CASE err # "nil"    -> Return("Close", 0, err) /\ UNCHANGED err
         [] err = "nil" /\ carry # << >> -> Fail("Close", 0, "partialFrame")
         [] OTHER -> /\ Continue(IF written % 2 # 0 THEN "pad" ELSE "verify")
                     /\ UNCHANGED <<err, pend, done>>
    /\ UNCHANGED <<w, cfg, cont, lay, written, carry, disk, ledger>>

Close == CloseAgain \/ CloseBegin

(* Slip: padded to a multiple of four.                                     *)
WritePad_toFour ==
    /\ pc = "pad"
    /\ disk' = [disk EXCEPT ![w].pad = 4 - (written % 4)]
    /\ Continue("verify")
    /\ UNCHANGED <<err, pend, done, w, cfg, cont, lay, written, carry, closed, ledger>>

WritePad ==
    /\ pc = "pad"
    /\ \/ /\ disk' = [disk EXCEPT ![w].pad = 1]
          /\ Continue("verify") /\ UNCHANGED <<err, pend, done>>
       \/ /\ \E pad \in 0..1 : disk' = [disk EXCEPT ![w].pad = pad]
          /\ Fail("Close", 0, "sink")
    /\ UNCHANGED <<w, cfg, cont, lay, written, carry, closed, ledger>>

Upgrading == Sized64(cont) /\ lay.hasDS64 /\ cfg.rf64 = "Auto"

CanFinalise == IF Upgrading THEN CanUpgrade(lay, cont, written)
                            ELSE CanPatch(lay, cont, written)

FinalHeader == IF Upgrading THEN UpgradeToRF64(lay, cont, written, frames)
                            ELSE PatchSizes(lay, cont, written, frames)

Seal == ledger' = [ledger EXCEPT ![w].sealed = TRUE]

(* Slips: the declared count is not checked; the header is left unpatched. *)
Verify_trusts ==
    /\ pc = "verify"
    /\ IF ~seekable
       THEN Return("Close", 0, "nil") /\ Seal /\ UNCHANGED err
       ELSE Continue("seekHead") /\ UNCHANGED <<err, pend, done, ledger>>
    /\ UNCHANGED <<w, cfg, cont, lay, written, carry, closed, disk>>

Verify_skipsPatch ==
    /\ pc = "verify"
    /\ IF cfg.total > 0 /\ frames # cfg.total
       THEN Fail("Close", 0, "frameMismatch") /\ UNCHANGED ledger
       ELSE Return("Close", 0, "nil") /\ Seal /\ UNCHANGED err
    /\ UNCHANGED <<w, cfg, cont, lay, written, carry, closed, disk>>

(* The declared count is checked; then a sink that cannot seek is done.    *)
Verify ==
    /\ pc = "verify"
    /\ CASE cfg.total > 0 /\ frames # cfg.total ->
              Fail("Close", 0, "frameMismatch") /\ UNCHANGED ledger
         [] ~(cfg.total > 0 /\ frames # cfg.total) /\ ~seekable ->
              Return("Close", 0, "nil") /\ Seal /\ UNCHANGED err
         [] ~(cfg.total > 0 /\ frames # cfg.total) /\ seekable /\ ~CanFinalise ->
              Fail("Close", 0, "cannotPatch") /\ UNCHANGED ledger
         [] OTHER ->
              Continue("seekHead") /\ UNCHANGED <<err, pend, done, ledger>>
    /\ UNCHANGED <<w, cfg, cont, lay, written, carry, closed, disk>>

(* rewriteHead: two seeks, the write and the seek back.  The header is one *)
(* Write, of which a failing sink has taken any prefix.                    *)
SeekHead ==
    /\ pc = "seekHead"
    /\ \/ Continue("rewrite") /\ UNCHANGED <<err, pend, done>>
       \/ Fail("Close", 0, "sink")
    /\ UNCHANGED <<w, cfg, cont, lay, written, carry, closed, disk, ledger>>

RewriteHead ==
    /\ pc = "rewrite"
    /\ \/ /\ disk' = [disk EXCEPT ![w].head = FinalHeader]
          /\ Continue("seekEnd") /\ UNCHANGED <<err, pend, done>>
       \/ /\ \E n \in 0..RewrittenFields, m \in Places \cup {1} :
                disk' = [disk EXCEPT ![w].head = tornHeader(@, FinalHeader, n, m)]
          /\ Fail("Close", 0, "sink")
    /\ UNCHANGED <<w, cfg, cont, lay, written, carry, closed, ledger>>

SeekEnd ==
    /\ pc = "seekEnd"
    /\ \/ Return("Close", 0, "nil") /\ Seal /\ UNCHANGED err
       \/ Fail("Close", 0, "sink") /\ UNCHANGED ledger
    /\ UNCHANGED <<w, cfg, cont, lay, written, carry, closed, disk>>

-----------------------------------------------------------------------------
Running == \/ EmitCarry \/ EmitAligned
           \/ WritePad \/ Verify \/ SeekHead \/ RewriteHead \/ SeekEnd

Next == \/ \E s \in Sinks \cup {NoSink}, c \in Configs : Reset(s, c)
        \/ \E n \in WriteSizes : Write(n)
        \/ Close
        \/ Running

Spec == Init /\ [][Next]_vars

(* A call that has begun runs on: the methods are straight-line code whose *)
(* sink calls return.  Nothing makes the caller call again.                *)
FairSpec == Spec /\ WF_vars(Running)

-----------------------------------------------------------------------------
(* What a reader makes of a sink.                                          *)

padByte == 0

OnMedium(s) == disk[s].audio \o [i \in 1..disk[s].pad |-> padByte]

(* Decoder.Read in pass-through: to the declared length, or to the end.    *)
ReadBack(s) ==
    LET size == resolveDataSize(disk[s].head)
        bytes == OnMedium(s)
    IN IF size = sizeUnknown \/ size > Len(bytes) THEN bytes
       ELSE SubSeq(bytes, 1, size)

Headed == {s \in Sinks : disk[s].stage = "headed"}
Sealed == {s \in Sinks : ledger[s].sealed}
Declared(s) == ledger[s].cfg.total > 0

headerLength(s) == HeaderLen(ledger[s].cfg, disk[s].head.ds64Id # "none")

-----------------------------------------------------------------------------
(* Invariants.                                                             *)

FileType == [stage : {"blank", "stub", "headed"}, head : HeaderType,
             audio : Seq(Nat), pad : 0..1]

EntryType == [cfg : ConfigType, sent : Nat, sealed : BOOLEAN]

(* Every variable holds a value of its kind.                               *)
TypeOK ==
    /\ w \in Sinks \cup {NoSink} /\ cfg \in ConfigType /\ cont \in Containers
    /\ lay \in LayoutType /\ written \in Nat /\ carry \in Seq(Nat)
    /\ closed \in BOOLEAN /\ err \in Errors
    /\ pc \in PCs /\ pend \in Seq(Nat) /\ done \in Nat
    /\ ret \in [op : {"none", "Reset", "Write", "Close"}, n : Nat, err : Errors]
    /\ disk \in [Sinks -> FileType]
    /\ ledger \in [Sinks -> EntryType]

(* The bytes on every sink are a prefix of what was offered to it, in      *)
(* order and without a gap or a repeat, whatever slices the caller cut     *)
(* them into; and until the encoder fails, what is on the sink, what is    *)
(* carried and what the call still holds are together all of it, with only *)
(* whole frames on the sink.                                               *)
AudioInOrder ==
    /\ \A s \in Sinks : /\ Len(disk[s].audio) <= ledger[s].sent
                        /\ \A i \in 1..Len(disk[s].audio) : disk[s].audio[i] = i
    /\ w # NoSink /\ err = "nil" =>
          /\ disk[w].audio \o carry \o pend = [i \in 1..ledger[w].sent |-> i]
          /\ written % cfg.frame = 0

(* Once Close has returned nil, a file whose sink could seek or whose      *)
(* length was declared reads back as exactly the bytes offered, whole      *)
(* frames, with the frame count the reader reports.                        *)
SealedReadsBack ==
    \A s \in Sealed :
       s \in SeekableSinks \/ Declared(s) =>
          /\ Readable(disk[s].head)
          /\ ReadBack(s) = [i \in 1..ledger[s].sent |-> i]
          /\ resolveFrames(disk[s].head) * ledger[s].cfg.frame = ledger[s].sent

(* At every instant, so also where a crash or a failing sink leaves it, a  *)
(* stream of undeclared length that can be read never claims more audio    *)
(* than it holds; and it says that its length is unknown, or exactly how   *)
(* much it holds, unless the sink failed inside Close's rewrite of the     *)
(* header.  A length torn there is half written, and reads as too short a  *)
(* one.                                                                    *)
OnlyATornRewriteUnderstates ==
    \A s \in Headed :
       ~Declared(s) /\ Readable(disk[s].head) =>
          LET size == resolveDataSize(disk[s].head)
          IN /\ size <= Len(disk[s].audio)
             /\ size \notin {sizeUnknown, Len(disk[s].audio)} =>
                   /\ s \in SeekableSinks /\ s \notin Sealed
                   /\ s = w => closed /\ err = "sink"

(* The one way a recording becomes unreadable is a sink that fails inside  *)
(* the header rewrite of a stream that outgrew plain RIFF.                 *)
OnlyATornUpgradeIsUnreadable ==
    \A s \in Headed :
       ~Readable(disk[s].head) =>
          /\ ledger[s].cfg.rf64 = "Auto" /\ s \in SeekableSinks /\ ~Declared(s)
          /\ ~fitsRIFF(headerLength(s), Len(disk[s].audio))
          /\ s \notin Sealed
          /\ s = w => closed /\ err = "sink"

(* A sealed file is RF64 exactly when the policy asks for it or the audio, *)
(* padded and behind its header, is too long for 32-bit sizes.             *)
ContainerMatchesLength ==
    \A s \in Sealed :
       LET head == disk[s].head
       IN CASE ledger[s].cfg.rf64 = "Always" -> head.magic = "RF64"
            [] ledger[s].cfg.rf64 = "Never" -> head.magic = "RIFF"
            [] OTHER -> head.magic = "RF64" <=>
                 IF Declared(s) THEN ~FitsPlainRIFF(ledger[s].cfg, Len(disk[s].audio))
                 ELSE ~fitsRIFF(headerLength(s), Len(disk[s].audio))

(* A plain RIFF file with no room for an upgrade never grows past what its *)
(* 32-bit sizes can say, pad byte included, sealed or not.                 *)
PlainRIFFNeverOutgrown ==
    \A s \in Headed :
       disk[s].head.magic = "RIFF" /\ disk[s].head.ds64Id = "none" =>
          headerLength(s) + Len(disk[s].audio) + disk[s].pad - 8 <= MaxUint32

(* No byte count wraps: neither the audio accepted nor a promised length   *)
(* exceeds a signed 64-bit count, in either container.                     *)
LengthIsRepresentable ==
    \A s \in Sinks : /\ Len(disk[s].audio) <= MaxInt64
                     /\ disk[s].head.ds64DataSize <= MaxInt64

(* The sizes Close stamps always fit the header it chose to stamp: neither *)
(* PatchSizes nor UpgradeToRF64 ever refuses.                              *)
CloseCanStamp == err # "cannotPatch"

-----------------------------------------------------------------------------
(* Action and liveness properties.                                         *)

IsReset == ret'.op = "Reset"

(* After the first failure no sink is touched and the error stays the      *)
(* first one, until a Reset; a Reset that returned an error counts as a    *)
(* failure, whatever stream was bound before it.                           *)
FailureIsFinal ==
    [][err # "nil" \/ (ret.op = "Reset" /\ ret.err # "nil")
         => (disk' = disk /\ err' = err) \/ IsReset]_vars

(* Close is idempotent and a sealed file is finished: no later call on     *)
(* this encoder, bound to it still or to another sink, changes it, and     *)
(* closing it again reports nil again.                                     *)
CloseIsFinal ==
    [][\A s \in Sealed :
          /\ disk'[s] = disk[s]
          /\ s = w' /\ pc' = "idle" /\ ret'.op = "Close" => ret'.err = "nil"]_vars

(* Every call returns.                                                     *)
CallReturns == pc # "idle" ~> pc = "idle"
=============================================================================
