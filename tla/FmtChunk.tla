------------------------------ MODULE FmtChunk ------------------------------
(***************************************************************************)
(* internal/riff/format.go: the fmt chunk as it is written and as it is    *)
(* read.  Pure operators over two records, the format a caller asks for    *)
(* and the chunk on the wire.  Encodings and SubFormat GUIDs are names, a  *)
(* speaker mask is the set of its speakers ({} is the mask 0), and every   *)
(* payload length is the real one.                                         *)
(***************************************************************************)
EXTENDS RiffLayout

CONSTANTS MaxUint16,      \* largest value of a 16-bit field
          MaxSampleRate   \* 2^31-1 in the code

ASSUME FmtAssumption == MaxUint16 \in Nat /\ MaxSampleRate \in Nat

fmtSizePCM == 16
fmtSizeExtensible == 40

Encodings == {"PCM", "Float", "ALaw", "MuLaw"}
Companded(encoding) == encoding \in {"ALaw", "MuLaw"}

(* The depths an encoding comes in.                                        *)
validateDepth(encoding, bits) ==
    \/ encoding = "PCM" /\ bits \in {8, 16, 24, 32}
    \/ encoding = "Float" /\ bits \in {32, 64}
    \/ Companded(encoding) /\ bits = 8

BytesPerSample(bits) == (bits + 7) \div 8

ConventionalChannelMask(channels) ==
    CASE channels = 1 -> {"FC"}
      [] channels = 2 -> {"FL", "FR"}
      [] channels = 3 -> {"FL", "FR", "FC"}
      [] channels = 4 -> {"FL", "FR", "BL", "BR"}
      [] channels = 5 -> {"FL", "FR", "FC", "BL", "BR"}
      [] channels = 6 -> {"FL", "FR", "FC", "LFE", "BL", "BR"}
      [] channels = 7 -> {"FL", "FR", "FC", "LFE", "BC", "SL", "SR"}
      [] channels = 8 -> {"FL", "FR", "FC", "LFE", "BL", "BR", "SL", "SR"}
      [] OTHER -> {}

-----------------------------------------------------------------------------
(* Writing.                                                                *)

needsExtensible(f) ==
    \/ f.extensible
    \/ f.mask # {}
    \/ f.channels > 2
    \/ f.format = "PCM" /\ f.bits > 16

blockAlignOf(f) == BytesPerSample(f.bits) * f.channels

(* What RiffLayout needs to know of a format and its two metadata bodies.  *)
headerConfig(f, bext, ixml) ==
    [extensible |-> needsExtensible(f), float |-> f.format # "PCM",
     bext |-> bext, ixml |-> ixml, frame |-> blockAlignOf(f), expressible |-> TRUE]

CanAppendFmt(f) ==
    /\ blockAlignOf(f) <= MaxUint16
    /\ blockAlignOf(f) * f.rate <= MaxUint32

(* The tests BuildHeader makes of the format before it lays anything out.  *)
CanWriteFmt(f) ==
    /\ validateDepth(f.format, f.bits)
    /\ ~Companded(f.format)
    /\ f.channels > 0
    /\ f.rate > 0
    /\ f.rate <= MaxSampleRate
    /\ CanAppendFmt(f)

(* Slip: a chunk in the extensible form keeps a mask the caller left at 0. *)
appendFmt_maskless(f) ==
    [len |-> fmtPayloadLen(headerConfig(f, 0, 0)), channels |-> f.channels, rate |-> f.rate,
     bits |-> f.bits, tag |-> IF needsExtensible(f) THEN "Extensible" ELSE f.format,
     validBits |-> f.validBits, mask |-> f.mask, guid |-> f.format]

appendFmt(f) ==
    LET extensible == needsExtensible(f)
        valid == f.validBits > 0 /\ f.validBits <= f.bits
    IN [len       |-> fmtPayloadLen(headerConfig(f, 0, 0)),
        tag       |-> IF extensible THEN "Extensible" ELSE f.format,
        channels  |-> f.channels,
        rate      |-> f.rate,
        bits      |-> f.bits,
        validBits |-> IF extensible THEN (IF valid THEN f.validBits ELSE f.bits) ELSE 0,
        mask      |-> IF ~extensible THEN {}
                      ELSE IF f.mask = {} THEN ConventionalChannelMask(f.channels) ELSE f.mask,
        guid      |-> IF extensible THEN f.format ELSE "none"]

-----------------------------------------------------------------------------
(* Reading a payload of which only the first len bytes exist.              *)

encodingOf(b) == IF b.tag = "Extensible" THEN b.guid ELSE b.tag

fmtVerdict(b, len) ==
    IF \/ len < fmtSizePCM
       \/ b.channels = 0
       \/ b.rate = 0
       \/ b.rate > MaxSampleRate
       \/ b.tag = "Extensible" /\ len < fmtSizeExtensible
    THEN "corrupt"
    ELSE IF encodingOf(b) \in Encodings /\ validateDepth(encodingOf(b), b.bits)
    THEN "ok"
    ELSE "unsupported"

(* The declared block align is not consulted; the derived one always wins. *)
parseFmt(b) ==
    LET extensible == b.tag = "Extensible"
    IN [rate       |-> b.rate,
        channels   |-> b.channels,
        bits       |-> b.bits,
        validBits  |-> IF extensible /\ b.validBits <= b.bits THEN b.validBits ELSE 0,
        blockAlign |-> BytesPerSample(b.bits) * b.channels,
        format     |-> encodingOf(b),
        extensible |-> extensible,
        mask       |-> IF extensible THEN b.mask ELSE {}]
=============================================================================
