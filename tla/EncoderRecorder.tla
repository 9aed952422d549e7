--------------------------- MODULE EncoderRecorder ---------------------------
(***************************************************************************)
(* Encoder implements Recorder.  A sink is a tape; its label is the length *)
(* the reader resolves from its header; the tape runs from a successful    *)
(* Reset until the first failure or the end of Close.                      *)
(***************************************************************************)
EXTENDS Encoder

runningTape ==
    IF w # NoSink /\ err = "nil" /\ (~closed \/ pc # "idle") THEN w ELSE NoSink

label(s) == IF Readable(disk[s].head) THEN resolveDataSize(disk[s].head) ELSE -2

tapes == [s \in Sinks |-> [loaded |-> disk[s].stage # "blank",
                           audio |-> disk[s].audio,
                           label |-> label(s),
                           sealed |-> ledger[s].sealed]]

R == INSTANCE Recorder WITH Tapes <- Sinks, Relabelled <- SeekableSinks,
                            NoTape <- NoSink, MaxAudio <- MaxInt64,
                            running <- runningTape, tape <- tapes

(* Encoder, with its header, carry, pad byte, container flips and failing  *)
(* sinks, does nothing a Recorder may not do: audio only ever grows at the *)
(* end of the running sink, labels are unknown, promised or true (or, when *)
(* the sink fails while Close sets one, illegible or too short), and       *)
(* nothing happens to a sink that was closed, failed or abandoned.         *)
ImplementsRecorder == R!RSpec
=============================================================================
