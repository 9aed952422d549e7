------------------------------ MODULE StreamInfo ------------------------------
(***************************************************************************)
(* wav.StreamInfo and the functions of package wav that need no decoder:   *)
(* how long a stream lasts, and whether some bytes begin one.              *)
(***************************************************************************)
EXTENDS Integers

CONSTANTS MaxInt64,      \* largest 64-bit count, and so largest time.Duration
          nsPerSecond    \* 10^9 in the code

ASSUME DurationAssumption ==
    MaxInt64 \in Nat /\ nsPerSecond \in Nat \ {0} /\ nsPerSecond <= MaxInt64

(* Slip: the sum of the two terms is not checked, and wraps.               *)
Duration_wraps(frames, rate) ==
    LET sum == (frames \div rate) * nsPerSecond + ((frames % rate) * nsPerSecond) \div rate
    IN IF frames = 0 \/ frames > MaxInt64 \/ rate <= 0 \/ rate > MaxInt64 \div nsPerSecond
          \/ frames \div rate > MaxInt64 \div nsPerSecond
       THEN 0 ELSE IF sum > MaxInt64 THEN sum - 2 * (MaxInt64 + 1) ELSE sum

(* Whole seconds first, then what is left; 0 for what cannot be stated.    *)
Duration(frames, rate) ==
    LET whole == frames \div rate
        ns == whole * nsPerSecond
        remNs == ((frames % rate) * nsPerSecond) \div rate
    IN IF frames = 0 \/ frames > MaxInt64 \/ rate <= 0 \/ rate > MaxInt64 \div nsPerSecond
          \/ whole > MaxInt64 \div nsPerSecond \/ ns > MaxInt64 - remNs
       THEN 0 ELSE ns + remNs

(* SniffContainer of the first len bytes of a file with this magic; "none" *)
(* for a false ok.                                                         *)
SniffContainer(magic, len) ==
    IF len < 12 \/ magic \notin {"RIFF", "RF64", "BW64"} THEN "none" ELSE magic
=============================================================================
