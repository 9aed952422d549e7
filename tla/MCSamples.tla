------------------------------ MODULE MCSamples ------------------------------
(***************************************************************************)
(* Calls of Convert.  Blocks hold two samples and a length is at most 31:  *)
(* three samples fill a block and begin another, and eight of one byte do  *)
(* not fit when they are widened to four.  Integer samples are built from  *)
(* the bytes at which carries, signs and roundings turn; the companded     *)
(* codes are all there are; the floats are all with nine bits of           *)
(* significand up to past full scale in steps of 2^-10 of an 8-bit step.   *)
(***************************************************************************)
EXTENDS Samples

Depths == {8, 16, 24, 32}
Bytes == {0, 1, 127, 128, 255}
Integers(bits) == [1 .. BytesPerSample(bits) -> IF bits = 8 THEN 0 .. 255 ELSE Bytes]
Marker(bits) == [i \in 1 .. BytesPerSample(bits) |-> 16 * i + 3]

Call(format, from, to, src, rest, room) ==
    [format |-> format, from |-> from, to |-> to, src |-> src, rest |-> rest, room |-> room]

Complement(s) == [i \in DOMAIN s |-> 255 - s[i]]

(* A sample in a full block, and its complement alone in the next.         *)
IntegerJobs ==
    UNION {{Call("PCM", from, to, <<s, Marker(from), Complement(s)>>, rest, 3 * BytesPerSample(to)) :
              s \in Integers(from), rest \in {0, BytesPerSample(from) - 1}} :
           from, to \in Depths}

LawJobs ==
    {Call(law, 8, to, <<<<c>>, <<(c + 77) % 256>>, <<c>>>>, 0, 3 * BytesPerSample(to)) :
        law \in {"ALaw", "MuLaw"}, to \in Depths, c \in 0 .. 255}

Finite(m) == [kind |-> "finite", m |-> m]
Magnitudes == {significand * 2 ^ e : significand \in 0 .. 511, e \in 0 .. 8}
Extremes == {[kind |-> k, m |-> 0] : k \in {"NaN", "+Inf", "-Inf"}}

FloatJobs ==
    {Call("Float", from, 8, <<Finite(m), Finite(-m), f>>, 3, 3) :
        from \in {32, 64}, m \in Magnitudes, f \in {Finite(half)}}
    \cup {Call("Float", 64, 8, <<f, Finite(half), f>>, 0, 3) :
        f \in Extremes \cup {Finite(m) : m \in {-1, 0, 1, 511 * 256, 131072}}}

(* Destinations that are short, exact or long, products past MaxInt, and   *)
(* formats nobody stores.                                                  *)
LengthJobs ==
    {Call(format, from, to, [i \in 1 .. n |-> IF format = "Float" THEN Finite(i * one)
                                              ELSE Marker(from)], rest, room) :
        format \in {"PCM", "ALaw", "Float", "ADPCM"}, from \in {8, 12, 24, 64},
        to \in {8, 12, 16, 32, 64}, n \in 0 .. 9, rest \in {0}, room \in {0, 1, 7, 8, 16, 31}}

AllJobs == IntegerJobs \cup LawJobs \cup FloatJobs
              \cup {j \in LengthJobs : /\ srcLen(j) <= MaxInt
                                       /\ j.format = "Float" => j.to \in {8, 12, 64}}
=============================================================================
