------------------------------ MODULE MCEncoder ------------------------------
(***************************************************************************)
(* Small instances of Encoder.  MaxUint32 is 109, chosen against the real  *)
(* header lengths so that each Config outgrows plain RIFF after a few      *)
(* bytes: with dataOffset = 112, 4 bytes of audio fit (104 + 4 <= 109) and *)
(* 5 do not, but only because of their pad byte.                           *)
(***************************************************************************)
EXTENDS EncoderRecorder

CONSTANTS s1, s2, p1, p2

PCM(mode, frame, total, bext) ==
    [rf64 |-> mode, frame |-> frame, total |-> total, bext |-> bext, ixml |-> 0,
     float |-> FALSE, extensible |-> FALSE, valid |-> TRUE, expressible |-> TRUE]

(* Undeclared lengths under the default policy: dataOffset is 44 + 36 +    *)
(* metadata with the reserved JUNK of a seekable sink, 44 + metadata       *)
(* without.  The third fits a plain sink and leaves a seekable one no room *)
(* for its JUNK, so that Reset refuses.  The fourth has the three-byte     *)
(* frames of 24-bit mono (an extensible fmt): a frame can be split over    *)
(* three Writes, and 3 bytes of audio fit only without their pad.  The     *)
(* last is single-precision float, with its fact chunk.                    *)
AutoConfigs == {PCM("Auto", 1, 0, 24), PCM("Auto", 2, 0, 24), PCM("Auto", 1, 0, 60),
                [PCM("Auto", 3, 0, 2) EXCEPT !.extensible = TRUE],
                [PCM("Auto", 4, 0, 12) EXCEPT !.float = TRUE]}

(* The other policies, and declared lengths kept, missed and exceeded,     *)
(* above the limit or beyond any byte count, beside an undeclared one that *)
(* is upgraded.  5 bytes are one more than plain RIFF holds behind 60      *)
(* bytes of metadata, or behind 24 and the reserved JUNK.                  *)
ModeConfigs ==
    {PCM("Never", 1, 0, 60), PCM("Never", 1, 5, 60),
     PCM("Always", 2, 0, 0), PCM("Always", 1, 300, 0),
     PCM("Auto", 1, 3, 60), PCM("Auto", 1, 5, 60), PCM("Auto", 1, 0, 24),
     [PCM("Auto", 1, 0, 0) EXCEPT !.valid = FALSE],
     [PCM("Auto", 1, 0, 0) EXCEPT !.expressible = FALSE]}
=============================================================================
