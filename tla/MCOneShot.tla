------------------------------ MODULE MCOneShot ------------------------------
(***************************************************************************)
(* Two goroutines, two calls each, every kind of call.                     *)
(***************************************************************************)
EXTENDS OneShot, TLC

Job == [valid |-> TRUE, whole |-> TRUE, empty |-> FALSE, odd |-> FALSE, fits |-> TRUE,
        seeks |-> FALSE]

SomeEncodes == {[Job EXCEPT !.valid = FALSE], [Job EXCEPT !.whole = FALSE],
                [Job EXCEPT !.odd = TRUE], [Job EXCEPT !.odd = TRUE, !.seeks = TRUE],
                [Job EXCEPT !.empty = TRUE],
                [Job EXCEPT !.fits = FALSE]}
SomeDecodes == [sound : BOOLEAN, converts : BOOLEAN]

Interchangeable == Permutations(Callers) \cup Permutations(Encoders) \cup Permutations(Decoders)
=============================================================================
