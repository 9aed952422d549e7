---------------------------- MODULE EncoderClaims ----------------------------
(***************************************************************************)
(* What the repository's comments say of the encoder and the code does not *)
(* keep.                                                                   *)
(***************************************************************************)
EXTENDS MCEncoder

(* "An encoder is writing the data chunk whose size it states, so the      *)
(* boundary always exists" (Config.streamInfo) and, on a sink that cannot  *)
(* seek, "the header written up front is already final" (Close): a file    *)
(* whose Close returned nil reads back as what was written.  It does not   *)
(* for an odd undeclared length on a sink that cannot seek: the header     *)
(* states no size, so the reader takes the pad byte Close appended for a   *)
(* last byte of audio.                                                     *)
EveryCleanCloseReadsBack ==
    \A s \in Sealed : ReadBack(s) = [i \in 1..ledger[s].sent |-> i]
=============================================================================
