------------------------------- MODULE Samples -------------------------------
(***************************************************************************)
(* internal/sample: Convert, which rewrites a buffer of integer, float or  *)
(* companded samples as little-endian integers of another width: signed    *)
(* ones, but for a width of 8 bits, which is stored offset by 128 on both  *)
(* sides.                                                                  *)
(*                                                                         *)
(* A stored integer or companded sample is the tuple of its bytes, lowest  *)
(* first.  A float sample is [kind, m], and when finite is m units of      *)
(* 2^-(FloatUnit + 7), with at most FloatPrecision significant bits in m,  *)
(* so that scaled to 8 bits it is m units of 2^-FloatUnit.                 *)
(*                                                                         *)
(* A job is one call: [format, from, to, src, rest, room], where src holds *)
(* the whole samples of the source, rest counts the bytes of a partial one *)
(* after them and room is the length of the destination.                   *)
(***************************************************************************)
EXTENDS Integers, Sequences

CONSTANTS Jobs,
          blockSamples,    \* samples staged at a time, 1024 in the code
          MaxInt,          \* largest length of a slice
          FloatPrecision,  \* bits of a float significand, 53 in the code
          FloatUnit        \* binary places of a sample scaled to 8 bits

pow2[n \in Nat] == IF n = 0 THEN 1 ELSE 2 * pow2[n - 1]

-----------------------------------------------------------------------------
(* Widths and lengths.                                                     *)

BytesPerSample(bits) ==
    CASE bits = 8 -> 1 [] bits = 16 -> 2 [] bits = 24 -> 3 [] bits = 32 -> 4
      [] bits = 64 -> 8 [] OTHER -> 0

Validate(format, bits) ==
    CASE format = "PCM" -> bits \in {8, 16, 24, 32}
      [] format = "Float" -> bits \in {32, 64}
      [] format \in {"ALaw", "MuLaw"} -> bits = 8
      [] OTHER -> FALSE

(* Slip: the product is formed, and wraps, before it is compared.          *)
convertedLen_wraps(len, from, to) ==
    LET need == (len \div BytesPerSample(from)) * BytesPerSample(to)
    IN [n |-> need % (MaxInt + 1), ok |-> TRUE]

(* ok is false only when the product would not be representable.           *)
convertedLen(len, from, to) ==
    LET samples == len \div BytesPerSample(from)
    IN IF BytesPerSample(from) = 0 \/ BytesPerSample(to) = 0 THEN [n |-> 0, ok |-> TRUE]
       ELSE IF samples > MaxInt \div BytesPerSample(to) THEN [n |-> 0, ok |-> FALSE]
       ELSE [n |-> samples * BytesPerSample(to), ok |-> TRUE]

srcLen(j) == Len(j.src) * BytesPerSample(j.from) + j.rest

convertPlan(j) ==
    LET need == convertedLen(srcLen(j), j.from, j.to)
    IN IF ~Validate(j.format, j.from) \/ ~Validate("PCM", j.to)
       THEN [n |-> 0, err |-> "unsupported"]
       ELSE IF ~need.ok \/ j.room < need.n THEN [n |-> 0, err |-> "shortBuffer"]
       ELSE [n |-> need.n, err |-> "nil"]

(* DecodeInterleavedBytes asks this first, before it allocates.            *)
convertedBytesFit(samples, width, limit) ==
    samples <= 0 \/ width <= 0 \/ samples <= limit \div width

-----------------------------------------------------------------------------
(* Integers.                                                               *)

signed(u, bits) == IF u >= 2 ^ (bits - 1) THEN u - 2 ^ bits ELSE u

decodeSample(b, bits) ==
    CASE bits = 8 -> b[1] - 128
      [] bits = 16 -> signed(b[1] + b[2] * 2 ^ 8, 16)
      [] bits = 24 -> signed(b[3] * 2 ^ 16 + b[1] + b[2] * 2 ^ 8, 24)
      [] bits = 32 -> b[1] + b[2] * 2 ^ 8 + b[3] * 2 ^ 16 + signed(b[4], 8) * 2 ^ 24

byteOf(v, i) == (v \div (256 ^ (i - 1))) % 256

encodeSample(v, bits) ==
    IF bits = 8 THEN <<(v + 128) % 256>>
    ELSE [i \in 1 .. BytesPerSample(bits) |-> byteOf(v, i)]

(* An arithmetic shift: exact when widening, down when narrowing.          *)
requantised(v, shift) == IF shift >= 0 THEN v * 2 ^ shift ELSE v \div 2 ^ (-shift)

(* One bit of a byte, given by its value, turned over.                     *)
toggled(b, bit) == IF (b \div bit) % 2 = 0 THEN b + bit ELSE b - bit

(* The four single-pass kernels, as the moves of bytes they are.           *)
Kernels == {<<8, 16>>, <<16, 32>>, <<24, 32>>, <<24, 16>>}

(* Slip: the low bytes of the sample are kept.                             *)
kernel_lowBytes(b, from, to) ==
    CASE from = 8 /\ to = 16 -> <<0, toggled(b[1], 128)>>
      [] from = 16 /\ to = 32 -> <<0, 0, b[1], b[2]>>
      [] from = 24 /\ to = 32 -> <<0, b[1], b[2], b[3]>>
      [] from = 24 /\ to = 16 -> <<b[1], b[2]>>

kernel(b, from, to) ==
    CASE from = 8 /\ to = 16 -> <<0, toggled(b[1], 128)>>
      [] from = 16 /\ to = 32 -> <<0, 0, b[1], b[2]>>
      [] from = 24 /\ to = 32 -> <<0, b[1], b[2], b[3]>>
      [] from = 24 /\ to = 16 -> <<b[2], b[3]>>

-----------------------------------------------------------------------------
(* G.711: a sign, a three-bit segment and a four-bit mantissa.             *)

negated(c) == c \div 128 # 0
segment(c) == (c \div 16) % 8
mantissa(c) == c % 16
evenBitsInverted(c) == toggled(toggled(toggled(toggled(c, 1), 4), 16), 64)
muLawBias == 132

decodeALaw(code) ==
    LET c == evenBitsInverted(code)
        seg == segment(c)
        mag == CASE seg = 0 -> 16 * mantissa(c) + 8
                 [] seg = 1 -> 16 * mantissa(c) + 264
                 [] OTHER -> (16 * mantissa(c) + 264) * 2 ^ (seg - 1)
    IN IF negated(c) THEN mag ELSE -mag

decodeMuLaw(code) ==
    LET c == 255 - code
        mag == (8 * mantissa(c) + muLawBias) * 2 ^ segment(c)
    IN IF negated(c) THEN muLawBias - mag ELSE mag - muLawBias

(* The tables, computed once.                                              *)
alawTable == [code \in 0 .. 255 |-> decodeALaw(code)]
muLawTable == [code \in 0 .. 255 |-> decodeMuLaw(code)]

-----------------------------------------------------------------------------
(* Floats.  Magnitudes are natural numbers of units; one is 2^FloatUnit.   *)

one == pow2[FloatUnit]
half == one \div 2

(* The float nearest to m units, the even one of two equally near.         *)
rounded(m) ==
    LET excess == CHOOSE e \in 0 .. FloatUnit + 32 :
                     /\ m \div pow2[e] < pow2[FloatPrecision]
                     /\ e > 0 => m \div pow2[e - 1] >= pow2[FloatPrecision]
        ulp == pow2[excess]
        low == m \div ulp
        above == 2 * (m % ulp)
    IN IF above > ulp \/ (above = ulp /\ low % 2 = 1) THEN (low + 1) * ulp ELSE low * ulp

(* Slip: values inside half a step are rounded like the others.            *)
quantize_nosubhalf(f, bits) ==
    LET full == 2 ^ (bits - 1)
        v == f.m * 2 ^ (bits - 8)
    IN IF f.kind = "+Inf" \/ (f.kind = "finite" /\ v >= (full - 1) * one) THEN full - 1
       ELSE IF f.kind = "-Inf" \/ (f.kind = "finite" /\ v <= -full * one) THEN -full
       ELSE IF f.kind = "NaN" THEN 0
       ELSE IF v >= 0 THEN rounded(v + half) \div one ELSE -(rounded(half - v) \div one)

(* The first case that holds.  Scaling by a power of two is exact; adding  *)
(* the half is not always.                                                 *)
quantize(f, bits) ==
    LET full == 2 ^ (bits - 1)
        v == f.m * 2 ^ (bits - 8)
    IN IF f.kind = "+Inf" \/ (f.kind = "finite" /\ v >= (full - 1) * one) THEN full - 1
       ELSE IF f.kind = "-Inf" \/ (f.kind = "finite" /\ v <= -full * one) THEN -full
       ELSE IF f.kind = "NaN" \/ (v > -half /\ v < half) THEN 0
       ELSE IF v >= 0 THEN rounded(v + half) \div one ELSE -(rounded(half - v) \div one)

-----------------------------------------------------------------------------
(* The calls.                                                              *)

(* A float is a whole number of units of its own exponent, of as many bits *)
(* as a significand has.                                                   *)
Representable(m) ==
    LET a == IF m < 0 THEN -m ELSE m
    IN \E e \in 0 .. a : a % pow2[e] = 0 /\ a \div pow2[e] < pow2[FloatPrecision]

Floats == {f \in [kind : {"finite", "NaN", "+Inf", "-Inf"}, m : Int] : Representable(f.m)}

Stored(format, bits) ==
    IF format = "Float" THEN Floats ELSE [1 .. BytesPerSample(bits) -> 0 .. 255]

(* A significand holds every integer of the widths floats are converted to.*)
IsJob(j) ==
    /\ {j.from, j.to, j.rest, j.room} \subseteq Nat
    /\ j.src \in Seq(Stored(j.format, j.from))
    /\ BytesPerSample(j.from) > 0 => j.rest < BytesPerSample(j.from)
    /\ srcLen(j) <= MaxInt /\ j.room <= MaxInt
    /\ j.format = "Float" /\ Validate("PCM", j.to) => j.to <= FloatPrecision

ASSUME SamplesAssumption ==
    /\ blockSamples \in Nat \ {0} /\ MaxInt \in Nat
    /\ FloatPrecision \in Nat /\ FloatUnit \in Nat \ {0}
    /\ \A j \in Jobs : IsJob(j)

VARIABLES job,   \* the call; never changes
          pc,    \* what Convert does next
          dst,   \* the samples written so far
          ret    \* [n, err], what it returned

vars == <<job, pc, dst, ret>>

-----------------------------------------------------------------------------
Init ==
    /\ job \in Jobs
    /\ pc = "plan"
    /\ dst = <<>>
    /\ ret = [n |-> 0, err |-> "none"]

total == convertPlan(job).n \div BytesPerSample(job.to)

Return(n, err) == pc' = "done" /\ ret' = [n |-> n, err |-> err]

(* What Convert checks before it touches a byte, then which way it goes.   *)
Plan ==
    LET plan == convertPlan(job)
    IN /\ pc = "plan"
       /\ IF plan.err # "nil" \/ plan.n = 0
          THEN Return(plan.n, plan.err) /\ UNCHANGED dst
          ELSE IF job.format = "PCM" /\ job.from = job.to
          THEN dst' = SubSeq(job.src, 1, total) /\ Return(plan.n, "nil")
          ELSE /\ pc' = IF job.format = "PCM" /\ <<job.from, job.to>> \in Kernels
                        THEN "kernel" ELSE "blocks"
               /\ UNCHANGED <<dst, ret>>
       /\ UNCHANGED job

Kernel ==
    /\ pc = "kernel"
    /\ dst' = [i \in 1 .. total |-> kernel(job.src[i], job.from, job.to)]
    /\ Return(convertPlan(job).n, "nil")
    /\ UNCHANGED job

(* One sample on its way through the staging buffer of a block.            *)
Staged(s) ==
    CASE job.format = "PCM" -> requantised(decodeSample(s, job.from), job.to - job.from)
      [] job.format = "ALaw" -> requantised(alawTable[s[1]], job.to - 16)
      [] job.format = "MuLaw" -> requantised(muLawTable[s[1]], job.to - 16)
      [] OTHER -> quantize(s, job.to)

Block ==
    LET done == Len(dst)
        n == IF total - done < blockSamples THEN total - done ELSE blockSamples
    IN /\ pc = "blocks"
       /\ dst' = dst \o [i \in 1 .. n |-> encodeSample(Staged(job.src[done + i]), job.to)]
       /\ IF Len(dst') = total THEN Return(convertPlan(job).n, "nil") ELSE UNCHANGED <<pc, ret>>
       /\ UNCHANGED job

Next == Plan \/ Kernel \/ Block

Spec == Init /\ [][Next]_vars

-----------------------------------------------------------------------------
(* What a sample is worth, said without the code's cases.                  *)

(* The value of the bytes as a two's complement number, or of a byte that  *)
(* holds it offset by 128: so encodeBlock writes one (sample.go:434) and   *)
(* so the tests read it ("s16 to u8", decoder_test.go:167), although the   *)
(* comments promise a signed byte (ConvertedIsSigned below).               *)
worth(b, bits) ==
    LET n == Len(b)
        place(i) == IF i < n THEN b[i] * 256 ^ (i - 1) ELSE 0
    IN IF bits = 8 THEN b[n] - 128
       ELSE place(1) + place(2) + place(3)
            + (IF b[n] >= 128 THEN b[n] - 256 ELSE b[n]) * 256 ^ (n - 1)

(* The laws as tilings: code j of a law covers an interval that begins     *)
(* where that of j - 1 ends, as long as the step of its segment, and       *)
(* stands for its middle.                                                  *)
step(law, j) ==
    LET seg == j \div 16
    IN IF law = "ALaw" THEN 16 * 2 ^ (IF seg = 0 THEN 0 ELSE seg - 1) ELSE 8 * 2 ^ seg

alawEdges[j \in 0 .. 127] == IF j = 0 THEN 0 ELSE alawEdges[j - 1] + step("ALaw", j - 1)
muLawEdges[j \in 0 .. 127] == IF j = 0 THEN -4 ELSE muLawEdges[j - 1] + step("MuLaw", j - 1)

(* Bit 7 of a stored code is set when the sample is not negative.          *)
lawful(law, code) ==
    LET j == IF law = "ALaw" THEN evenBitsInverted(code % 128) ELSE 127 - (code % 128)
        edge == IF law = "ALaw" THEN alawEdges ELSE muLawEdges
        middle == edge[j] + step(law, j) \div 2
    IN IF code >= 128 THEN middle ELSE -middle

(* The integer nearest to v units, halves away from zero.                  *)
nearest(v) ==
    IF v >= 0 THEN (2 * v + one) \div (2 * one) ELSE -((one - 2 * v) \div (2 * one))

clamped(v, bits) ==
    LET full == 2 ^ (bits - 1)
    IN IF v >= full THEN full - 1 ELSE IF v < -full THEN -full ELSE v

intendedFloat(f, bits) ==
    LET full == 2 ^ (bits - 1)
    IN IF f.kind = "finite" THEN clamped(nearest(f.m * 2 ^ (bits - 8)), bits)
       ELSE IF f.kind = "NaN" THEN 0
       ELSE clamped(IF f.kind = "+Inf" THEN full ELSE -full - 1, bits)

Intended(s) ==
    LET scaled(v, from) ==
            IF job.to >= from THEN v * 2 ^ (job.to - from) ELSE v \div 2 ^ (from - job.to)
    IN CASE job.format = "PCM" -> scaled(worth(s, job.from), job.from)
         [] job.format \in {"ALaw", "MuLaw"} -> scaled(lawful(job.format, s[1]), 16)
         [] OTHER -> intendedFloat(s, job.to)

-----------------------------------------------------------------------------
(* Properties.                                                             *)

(* Whichever path a pair of widths takes, a kernel, the blocked loop or    *)
(* the copy, and whichever block a sample falls in, every whole sample of  *)
(* an integer source comes out at its place and with its value shifted to  *)
(* the new width, the low bits dropped towards minus infinity; one of 8    *)
(* bits comes out offset, as it is stored, not signed (convertIntToInt and *)
(* its kernels, sample.go:181-347).                                        *)
IntegersAreShifted ==
    job.format = "PCM" /\ ret.err = "nil" =>
        /\ Len(dst) = Len(job.src)
        /\ \A i \in 1 .. Len(dst) : worth(dst[i], job.to) = Intended(job.src[i])

(* Floats are rounded to the nearest integer, halves away from zero, and   *)
(* clamped, although the sum in quantize is itself rounded; companded      *)
(* codes stand for the middle of their interval of the law; either way a   *)
(* byte comes out offset, not signed (quantize, sample.go:521-557;         *)
(* decodeALaw and decodeMuLaw, companded.go:63-111).                       *)
OthersAreNearest ==
    job.format # "PCM" /\ ret.err = "nil" =>
        /\ Len(dst) = Len(job.src)
        /\ \A i \in 1 .. Len(dst) : worth(dst[i], job.to) = Intended(job.src[i])

(* A conversion is refused exactly when the pair of formats is none or the *)
(* bytes do not fit, in the destination or in any; the check of the        *)
(* one-shot decoder, made before it allocates, agrees, so that it is never *)
(* overtaken by the refusal inside (decode_oneshot.go:346-360).            *)
RefusedExactlyWhenTooLong ==
    LET samples == Len(job.src)
        width == BytesPerSample(job.to)
        supported == Validate(job.format, job.from) /\ Validate("PCM", job.to)
    IN pc = "done" =>
        /\ ret.err = "unsupported" <=> ~supported
        /\ supported => (ret.err = "shortBuffer" <=> samples * width > job.room)
        /\ supported => (convertedBytesFit(samples, width, MaxInt) <=> samples * width <= MaxInt)
        /\ ret.err = "nil" => ret.n = samples * width

(* "Under WithConvertTo the bytes are signed little-endian integers of the *)
(* requested width" (decoder.go:428-429), 8 bits among them: a byte that   *)
(* was converted to, read as a signed one, is what the sample was worth.   *)
ConvertedIsSigned ==
    job.to = 8 /\ ret.err = "nil" =>
        \A i \in 1 .. Len(dst) :
            Intended(job.src[i]) = IF dst[i][1] >= 128 THEN dst[i][1] - 256 ELSE dst[i][1]
=============================================================================
