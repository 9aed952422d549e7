------------------------------ MODULE Recorder ------------------------------
(***************************************************************************)
(* What an encoder promises, with no header, container, carry or call in   *)
(* sight.  Each tape holds audio and a label: the length a reader of the   *)
(* tape would believe, or Unknown, or Illegible.  At most one tape runs.   *)
(* Audio is only appended, in order, to the running tape.  A label is set  *)
(* when the tape is loaded (Unknown, or the promised length) and may then  *)
(* change only to the true length; a change from Unknown that fails may    *)
(* leave it Illegible, or giving any length not beyond the true one, and   *)
(* the tape is not recorded on or sealed again.  A tape is sealed only     *)
(* with whole, truly labelled audio (a tape that cannot be relabelled      *)
(* keeps an Unknown label); a tape that is no longer running, sealed or    *)
(* not, never changes.                                                     *)
(***************************************************************************)
EXTENDS Integers, Sequences

CONSTANTS Tapes,         \* everything that can be recorded on
          Relabelled,    \* those whose label can be rewritten
          NoTape,
          MaxAudio       \* the longest a tape may be promised or recorded

Unknown == -1
Illegible == -2

Promises == 0..MaxAudio \cup {Unknown}

VARIABLES running,  \* the tape being recorded, or NoTape
          tape      \* [Tapes -> [loaded, audio, label, sealed]]

rvars == <<running, tape>>

RInit == /\ running = NoTape
         /\ tape = [t \in Tapes |-> [loaded |-> FALSE, audio |-> << >>,
                                     label |-> Unknown, sealed |-> FALSE]]

MayStop == running' \in {running, NoTape}

(* A blank tape is loaded, with a promise or without; loading may spoil    *)
(* it, labelled or not.                                                    *)
Load(t) ==
    /\ ~tape[t].loaded
    /\ \/ /\ \E promise \in Promises :
               tape' = [tape EXCEPT ![t].loaded = TRUE, ![t].label = promise]
          /\ running' \in {t, NoTape}
       \/ running' = NoTape /\ tape' = [tape EXCEPT ![t].loaded = TRUE]
       \/ running' = NoTape /\ UNCHANGED tape

Record(n) ==
    /\ running # NoTape
    /\ tape' = [tape EXCEPT ![running].audio =
                   @ \o [i \in 1..n |-> Len(@) + i]]
    /\ MayStop

Relabel ==
    /\ running \in Relabelled
    /\ tape' = [tape EXCEPT ![running].label = Len(tape[running].audio)]
    /\ MayStop

(* A label is set in part only, and the tape stops.                        *)
Mislabel ==
    /\ running \in Relabelled
    /\ tape[running].label = Unknown
    /\ \E label \in 0..Len(tape[running].audio) \cup {Unknown, Illegible} :
          tape' = [tape EXCEPT ![running].label = label]
    /\ running' = NoTape

SealTape ==
    /\ running # NoTape
    /\ \/ tape[running].label = Len(tape[running].audio)
       \/ tape[running].label = Unknown
            /\ (running \notin Relabelled \/ tape[running].audio = << >>)
    /\ tape' = [tape EXCEPT ![running].sealed = TRUE]
    /\ running' = NoTape

Stop == running' = NoTape /\ UNCHANGED tape

RNext == \/ \E t \in Tapes : Load(t)
         \/ \E n \in 0..MaxAudio : Record(n)
         \/ Relabel \/ Mislabel \/ SealTape \/ Stop

RSpec == RInit /\ [][RNext]_rvars
=============================================================================
