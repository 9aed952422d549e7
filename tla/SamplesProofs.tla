---------------------------- MODULE SamplesProofs ----------------------------
(***************************************************************************)
(* Convert keeps what its samples are worth: for every call, every size of *)
(* a block, every limit on a length and every precision of a float.        *)
(***************************************************************************)
EXTENDS Samples, TLAPS, SequenceTheorems, WellFoundedInduction

-----------------------------------------------------------------------------
(* Widths and lengths.                                                     *)

Depths == {8, 16, 24, 32}

LEMMA ByteCount ==
    /\ BytesPerSample(8) = 1 /\ BytesPerSample(16) = 2 /\ BytesPerSample(24) = 3
    /\ BytesPerSample(32) = 4 /\ BytesPerSample(64) = 8
BY DEF BytesPerSample

LEMMA Widths ==
    /\ \A format, bits : Validate(format, bits) => BytesPerSample(bits) \in {1, 2, 3, 4, 8}
    /\ \A bits : Validate("PCM", bits) <=> bits \in Depths
    /\ \A bits \in Depths : BytesPerSample(bits) \in {1, 2, 3, 4}
<1>1. \A format, bits : Validate(format, bits) => bits \in {8, 16, 24, 32, 64}
  BY DEF Validate
<1>2. \A bits : Validate("PCM", bits) <=> bits \in Depths
  BY DEF Validate, Depths
<1> QED  BY <1>1, <1>2, ByteCount DEF Depths

(* A partial sample behind the whole ones is not counted.                  *)
LEMMA WholeSamples ==
    ASSUME NEW n \in Nat, NEW w \in {1, 2, 3, 4, 8}, NEW r \in Nat, r < w
    PROVE  (n * w + r) \div w = n
<1>1. CASE w = 1
  BY <1>1
<1>2. CASE w = 2
  BY <1>2
<1>3. CASE w = 3
  BY <1>3
<1>4. CASE w = 4
  BY <1>4
<1>5. CASE w = 8
  BY <1>5
<1> QED  BY <1>1, <1>2, <1>3, <1>4, <1>5

(* Dividing the limit says of a product what forming it would.             *)
LEMMA DividedLimit ==
    ASSUME NEW n \in Nat, NEW w \in {1, 2, 3, 4}, NEW limit \in Nat
    PROVE  (n > limit \div w <=> n * w > limit) /\ (n * w) \div w = n /\ n * w \in Nat
<1>1. CASE w = 1
  BY <1>1
<1>2. CASE w = 2
  BY <1>2
<1>3. CASE w = 3
  BY <1>3
<1>4. CASE w = 4
  BY <1>4
<1> QED  BY <1>1, <1>2, <1>3, <1>4

supported(j) == Validate(j.format, j.from) /\ Validate("PCM", j.to)
whole(j) == Len(j.src) * BytesPerSample(j.to)

LEMMA JobIs ==
    ASSUME NEW j \in Jobs
    PROVE  /\ j.from \in Nat /\ j.to \in Nat /\ j.rest \in Nat /\ j.room \in Nat
           /\ j.src \in Seq(Stored(j.format, j.from)) /\ Len(j.src) \in Nat
           /\ MaxInt \in Nat /\ srcLen(j) <= MaxInt /\ j.room <= MaxInt
           /\ BytesPerSample(j.from) > 0 => j.rest < BytesPerSample(j.from)
BY SamplesAssumption DEF IsJob

(* The plan refuses what it must and promises one sample for each.         *)
LEMMA PlanSays ==
    ASSUME NEW j \in Jobs
    PROVE  LET plan == convertPlan(j)
           IN /\ plan = [n |-> plan.n, err |-> plan.err]
              /\ plan.err \in {"unsupported", "shortBuffer", "nil"}
              /\ plan.err = "unsupported" <=> ~supported(j)
              /\ supported(j) => (plan.err = "shortBuffer" <=> whole(j) > j.room)
              /\ plan.err = "nil" => plan.n = whole(j)
<1> DEFINE plan == convertPlan(j)
           need == convertedLen(srcLen(j), j.from, j.to)
           w == BytesPerSample(j.to)
<1>1. CASE ~supported(j)
  BY <1>1 DEF convertPlan, supported
<1>2. CASE supported(j)
  <2>1. w \in {1, 2, 3, 4} /\ BytesPerSample(j.from) \in {1, 2, 3, 4, 8}
    BY <1>2, Widths DEF supported
  <2>2. srcLen(j) \div BytesPerSample(j.from) = Len(j.src)
    <3>1. /\ Len(j.src) \in Nat /\ j.rest \in Nat /\ j.rest < BytesPerSample(j.from)
          /\ BytesPerSample(j.from) \in {1, 2, 3, 4, 8}
      BY <2>1, JobIs
    <3>2. (Len(j.src) * BytesPerSample(j.from) + j.rest) \div BytesPerSample(j.from) = Len(j.src)
      BY <3>1, WholeSamples
    <3> QED  BY <3>2 DEF srcLen
  <2>3. (Len(j.src) > MaxInt \div w <=> Len(j.src) * w > MaxInt) /\ Len(j.src) * w \in Nat
    BY <2>1, JobIs, DividedLimit
  <2>4. /\ need.ok <=> ~(whole(j) > MaxInt)
        /\ need.ok => need.n = whole(j)
    BY <2>1, <2>2, <2>3 DEF convertedLen, whole
  <2> HIDE DEF need
  <2>5. plan = IF ~need.ok \/ j.room < need.n THEN [n |-> 0, err |-> "shortBuffer"]
               ELSE [n |-> need.n, err |-> "nil"]
    BY <1>2 DEF convertPlan, supported, need
  <2>6. whole(j) \in Nat /\ j.room \in Nat /\ j.room <= MaxInt /\ MaxInt \in Nat
    BY <2>3, JobIs DEF whole
  <2>7. CASE ~need.ok \/ j.room < need.n
    <3>1. plan = [n |-> 0, err |-> "shortBuffer"]
      BY <2>5, <2>7
    <3>2. whole(j) > j.room
      BY <2>4, <2>6, <2>7
    <3> QED  BY <1>2, <3>1, <3>2
  <2>8. CASE need.ok /\ ~(j.room < need.n)
    <3>1. plan = [n |-> need.n, err |-> "nil"]
      BY <2>5, <2>8
    <3>2. ~(whole(j) > j.room) /\ need.n = whole(j)
      BY <2>4, <2>6, <2>8
    <3> QED  BY <1>2, <3>1, <3>2
  <2> QED  BY <2>7, <2>8
<1> QED  BY <1>1, <1>2

-----------------------------------------------------------------------------
(* Integers.                                                               *)

Fits(v, bits) == v \in Int /\ 0 - 2 ^ (bits - 1) <= v /\ v < 2 ^ (bits - 1)

Bytes(bits) == [1 .. BytesPerSample(bits) -> 0 .. 255]

LEMMA Tuples ==
    ASSUME NEW n \in Nat, NEW S, NEW b, b \in [1 .. n -> S]
    PROVE  b \in Seq(S) /\ Len(b) = n /\ \A i \in 1 .. n : b[i] \in S
<1>1. b \in Seq(S)
  BY SeqDef
<1>2. DOMAIN b = 1 .. n /\ DOMAIN b = 1 .. Len(b) /\ Len(b) \in Nat
  BY <1>1, LenProperties
<1> QED  BY <1>1, <1>2

(* Bytes above the lowest, by one division or by several.                  *)
LEMMA Shifts ==
    ASSUME NEW v \in Int
    PROVE  /\ v = 256 * (v \div 256) + (v % 256)
           /\ v \div 65536 = (v \div 256) \div 256
           /\ v \div 16777216 = (v \div 65536) \div 256
           /\ v \div 256 \in Int /\ v \div 65536 \in Int /\ v \div 16777216 \in Int
<1> DEFINE p == v \div 256
           q == p \div 256
           r == q \div 256
<1>1. p \in Int /\ v % 256 \in 0 .. 255 /\ v = 256 * p + (v % 256)
  OBVIOUS
<1>2. q \in Int /\ p % 256 \in 0 .. 255 /\ p = 256 * q + (p % 256)
  BY <1>1
<1>3. r \in Int /\ q % 256 \in 0 .. 255 /\ q = 256 * r + (q % 256)
  BY <1>2
<1> HIDE DEF p, q, r
<1>4. v \div 65536 = q
  BY <1>1, <1>2, SMT
<1>5. v \div 16777216 = r
  BY <1>1, <1>2, <1>3, SMT
<1> QED  BY <1>1, <1>2, <1>3, <1>4, <1>5, SMT DEF p, q, r

(* A value of its width survives being stored.                             *)
LEMMA StoredIsWorth ==
    ASSUME NEW bits \in Depths, NEW v, Fits(v, bits)
    PROVE  worth(encodeSample(v, bits), bits) = v /\ encodeSample(v, bits) \in Seq(Int)
<1> DEFINE e == encodeSample(v, bits)
<1>1. CASE bits = 8
  <2>1. v \in Int /\ 0 - 128 <= v /\ v < 128
    BY <1>1 DEF Fits
  <2>2. e = <<(v + 128) % 256>> /\ (v + 128) % 256 = v + 128
    BY <1>1, <2>1 DEF encodeSample
  <2>3. Len(e) = 1 /\ e[1] = v + 128 /\ e \in Seq(Int)
    BY <2>1, <2>2
  <2> HIDE DEF e
  <2>4. worth(e, bits) = v
    BY <1>1, <2>1, <2>3 DEF worth
  <2> QED  BY <2>3, <2>4 DEF e
<1>2. CASE bits = 16
  <2>1. v \in Int /\ 0 - 32768 <= v /\ v < 32768
    BY <1>2, SMT DEF Fits
  <2>2. e = [i \in 1 .. 2 |-> byteOf(v, i)]
    BY <1>2, ByteCount DEF encodeSample
  <2>3. byteOf(v, 1) = v % 256 /\ byteOf(v, 2) = (v \div 256) % 256
    BY <2>1, SMT DEF byteOf
  <2>4. Len(e) = 2 /\ e[1] = v % 256 /\ e[2] = (v \div 256) % 256 /\ e \in Seq(Int)
    BY <2>1, <2>2, <2>3, SMT
  <2> HIDE DEF e
  <2>5. worth(e, bits) = e[1] + (IF e[2] >= 128 THEN e[2] - 256 ELSE e[2]) * 256
    BY <1>2, <2>1, <2>4, SMT DEF worth
  <2>6. worth(e, bits) = v
    BY <2>1, <2>4, <2>5, SMT
  <2> QED  BY <2>4, <2>6 DEF e
<1>3. CASE bits = 24
  <2>1. v \in Int /\ 0 - 8388608 <= v /\ v < 8388608
    BY <1>3, SMT DEF Fits
  <2>2. e = [i \in 1 .. 3 |-> byteOf(v, i)]
    BY <1>3, ByteCount DEF encodeSample
  <2>3. /\ byteOf(v, 1) = v % 256 /\ byteOf(v, 2) = (v \div 256) % 256
        /\ byteOf(v, 3) = (v \div 65536) % 256
    BY <2>1, SMT DEF byteOf
  <2>4. /\ Len(e) = 3 /\ e[1] = v % 256 /\ e[2] = (v \div 256) % 256
        /\ e[3] = (v \div 65536) % 256 /\ e \in Seq(Int)
    BY <2>1, <2>2, <2>3, SMT
  <2> HIDE DEF e
  <2>5. worth(e, bits) = e[1] + e[2] * 256
                            + (IF e[3] >= 128 THEN e[3] - 256 ELSE e[3]) * 65536
    BY <1>3, <2>1, <2>4, SMT DEF worth
  <2>6. worth(e, bits) = v
    <3> DEFINE p == v \div 256
               q == v \div 65536
    <3>1. /\ p \in Int /\ v = 256 * p + (v % 256) /\ v % 256 \in 0 .. 255
          /\ q \in Int /\ q = p \div 256
      BY <2>1, Shifts, SMT
    <3> HIDE DEF p, q
    <3>2. p = 256 * q + (p % 256) /\ p % 256 \in 0 .. 255
      BY <3>1, SMT
    <3>3. 0 - 128 <= q /\ q < 128
      BY <2>1, <3>1, <3>2, SMT
    <3>4. q % 256 = IF q >= 0 THEN q ELSE q + 256
      BY <3>1, <3>3
    <3>5. (IF e[3] >= 128 THEN e[3] - 256 ELSE e[3]) = q
      BY <2>4, <3>1, <3>3, <3>4, SMT DEF p, q
    <3>6. e[1] = v % 256 /\ e[2] = p % 256
      BY <2>4, SMT DEF p
    <3> QED  BY <2>1, <2>5, <3>1, <3>2, <3>5, <3>6, SMT
  <2> QED  BY <2>4, <2>6 DEF e
<1>4. CASE bits = 32
  <2>1. v \in Int /\ 0 - 2147483648 <= v /\ v < 2147483648
    BY <1>4, SMT DEF Fits
  <2>2. e = [i \in 1 .. 4 |-> byteOf(v, i)]
    BY <1>4, ByteCount DEF encodeSample
  <2>3. /\ byteOf(v, 1) = v % 256 /\ byteOf(v, 2) = (v \div 256) % 256
        /\ byteOf(v, 3) = (v \div 65536) % 256 /\ byteOf(v, 4) = (v \div 16777216) % 256
    BY <2>1, SMT DEF byteOf
  <2>4. /\ Len(e) = 4 /\ e[1] = v % 256 /\ e[2] = (v \div 256) % 256
        /\ e[3] = (v \div 65536) % 256 /\ e[4] = (v \div 16777216) % 256 /\ e \in Seq(Int)
    BY <2>1, <2>2, <2>3, SMT
  <2> HIDE DEF e
  <2>5. worth(e, bits) = e[1] + e[2] * 256 + e[3] * 65536
                            + (IF e[4] >= 128 THEN e[4] - 256 ELSE e[4]) * 16777216
    BY <1>4, <2>1, <2>4, SMT DEF worth
  <2>6. worth(e, bits) = v
    <3> DEFINE p == v \div 256
               q == v \div 65536
               r == v \div 16777216
    <3>1. /\ p \in Int /\ v = 256 * p + (v % 256) /\ v % 256 \in 0 .. 255
          /\ q \in Int /\ q = p \div 256 /\ r \in Int /\ r = q \div 256
      BY <2>1, Shifts, SMT
    <3> HIDE DEF p, q, r
    <3>2. /\ p = 256 * q + (p % 256) /\ p % 256 \in 0 .. 255
          /\ q = 256 * r + (q % 256) /\ q % 256 \in 0 .. 255
      BY <3>1, SMT
    <3>3. 0 - 128 <= r /\ r < 128
      BY <2>1, <3>1, <3>2, SMT
    <3>4. r % 256 = IF r >= 0 THEN r ELSE r + 256
      BY <3>1, <3>3
    <3>5. (IF e[4] >= 128 THEN e[4] - 256 ELSE e[4]) = r
      BY <2>4, <3>1, <3>3, <3>4, SMT DEF r
    <3>6. e[1] = v % 256 /\ e[2] = p % 256 /\ e[3] = q % 256
      BY <2>4, SMT DEF p, q
    <3> QED  BY <2>1, <2>5, <3>1, <3>2, <3>5, <3>6, SMT
  <2> QED  BY <2>4, <2>6 DEF e
<1> QED  BY <1>1, <1>2, <1>3, <1>4 DEF Depths

LEMMA Reads ==
    ASSUME NEW b
    PROVE  /\ decodeSample(b, 8) = b[1] - 128
           /\ decodeSample(b, 16) = signed(b[1] + b[2] * 2 ^ 8, 16)
           /\ decodeSample(b, 24) = signed(b[3] * 2 ^ 16 + b[1] + b[2] * 2 ^ 8, 24)
           /\ decodeSample(b, 32) = b[1] + b[2] * 2 ^ 8 + b[3] * 2 ^ 16
                                      + signed(b[4], 8) * 2 ^ 24
<1>1. decodeSample(b, 8) = b[1] - 128
  BY DEF decodeSample
<1>2. decodeSample(b, 16) = signed(b[1] + b[2] * 2 ^ 8, 16)
  BY DEF decodeSample
<1>3. decodeSample(b, 24) = signed(b[3] * 2 ^ 16 + b[1] + b[2] * 2 ^ 8, 24)
  BY DEF decodeSample
<1>4. decodeSample(b, 32) = b[1] + b[2] * 2 ^ 8 + b[3] * 2 ^ 16 + signed(b[4], 8) * 2 ^ 24
  BY DEF decodeSample
<1> QED  BY <1>1, <1>2, <1>3, <1>4

(* A top byte read as a signed one, or the whole number taken back.        *)
top(t) == IF t >= 128 THEN t - 256 ELSE t

LEMMA Top ==
    ASSUME NEW t \in 0 .. 255
    PROVE  top(t) \in Int /\ 0 - 128 <= top(t) /\ top(t) < 128 /\ signed(t, 8) = top(t)
BY SMT DEF top, signed

LEMMA Fits8 ==
    ASSUME NEW x \in 0 .. 255
    PROVE  Fits(x - 128, 8)
BY SMT DEF Fits

LEMMA Fits16 ==
    ASSUME NEW x \in 0 .. 255, NEW t \in 0 .. 255
    PROVE  signed(x + t * 2 ^ 8, 16) = x + top(t) * 2 ^ 8 /\ Fits(x + top(t) * 2 ^ 8, 16)
<1>1. signed(x + t * 2 ^ 8, 16) = x + top(t) * 2 ^ 8
  BY SMT DEF signed, top
<1>2. Fits(x + top(t) * 2 ^ 8, 16)
  BY Top, SMT DEF Fits
<1> QED  BY <1>1, <1>2

LEMMA Fits24 ==
    ASSUME NEW x \in 0 .. 255, NEW y \in 0 .. 255, NEW t \in 0 .. 255
    PROVE  /\ signed(t * 2 ^ 16 + x + y * 2 ^ 8, 24) = x + y * 2 ^ 8 + top(t) * 2 ^ 16
           /\ Fits(x + y * 2 ^ 8 + top(t) * 2 ^ 16, 24)
<1>1. signed(t * 2 ^ 16 + x + y * 2 ^ 8, 24) = x + y * 2 ^ 8 + top(t) * 2 ^ 16
  BY SMT DEF signed, top
<1>2. Fits(x + y * 2 ^ 8 + top(t) * 2 ^ 16, 24)
  BY Top, SMT DEF Fits
<1> QED  BY <1>1, <1>2, SMT

LEMMA Fits32 ==
    ASSUME NEW x \in 0 .. 255, NEW y \in 0 .. 255, NEW z \in 0 .. 255, NEW t \in 0 .. 255
    PROVE  /\ x + y * 2 ^ 8 + z * 2 ^ 16 + signed(t, 8) * 2 ^ 24
                = x + y * 2 ^ 8 + z * 2 ^ 16 + top(t) * 2 ^ 24
           /\ Fits(x + y * 2 ^ 8 + z * 2 ^ 16 + top(t) * 2 ^ 24, 32)
<1>1. top(t) \in Int /\ 0 - 128 <= top(t) /\ top(t) < 128 /\ signed(t, 8) = top(t)
  BY Top
<1>2. Fits(x + y * 2 ^ 8 + z * 2 ^ 16 + top(t) * 2 ^ 24, 32)
  BY <1>1, SMT DEF Fits
<1> QED  BY <1>1, <1>2, SMT

(* The bytes of a stored sample, and what they are worth together.         *)
LEMMA Places ==
    ASSUME NEW bits \in Depths, NEW b \in Bytes(bits)
    PROVE  /\ Len(b) = BytesPerSample(bits) /\ b[1] \in 0 .. 255
           /\ bits = 8 => worth(b, bits) = b[1] - 128
           /\ bits = 16 => /\ b[2] \in 0 .. 255
                           /\ worth(b, bits) =
                                b[1] + top(b[2]) * 2 ^ 8
           /\ bits = 24 => /\ b[2] \in 0 .. 255 /\ b[3] \in 0 .. 255
                           /\ worth(b, bits) =
                                b[1] + b[2] * 2 ^ 8
                                  + top(b[3]) * 2 ^ 16
           /\ bits = 32 => /\ b[2] \in 0 .. 255 /\ b[3] \in 0 .. 255 /\ b[4] \in 0 .. 255
                           /\ worth(b, bits) =
                                b[1] + b[2] * 2 ^ 8 + b[3] * 2 ^ 16
                                  + top(b[4]) * 2 ^ 24
<1>1. CASE bits = 8
  <2>1. Len(b) = 1 /\ b[1] \in 0 .. 255
    <3>1. b \in [1 .. 1 -> 0 .. 255]
      BY <1>1, ByteCount DEF Bytes
    <3> QED  BY <3>1, Tuples
  <2> QED  BY <1>1, <2>1, ByteCount DEF worth
<1>2. CASE bits = 16
  <2>1. Len(b) = 2 /\ b[1] \in 0 .. 255 /\ b[2] \in 0 .. 255
    <3>1. b \in [1 .. 2 -> 0 .. 255]
      BY <1>2, ByteCount DEF Bytes
    <3> QED  BY <3>1, Tuples
  <2>2. worth(b, bits) = b[1] + top(b[2]) * 2 ^ 8
    BY <1>2, <2>1, SMT DEF worth, top
  <2> QED  BY <1>2, <2>1, <2>2, ByteCount, SMT
<1>3. CASE bits = 24
  <2>1. Len(b) = 3 /\ b[1] \in 0 .. 255 /\ b[2] \in 0 .. 255 /\ b[3] \in 0 .. 255
    <3>1. b \in [1 .. 3 -> 0 .. 255]
      BY <1>3, ByteCount DEF Bytes
    <3> QED  BY <3>1, Tuples
  <2>2. worth(b, bits) = b[1] + b[2] * 2 ^ 8
                            + top(b[3]) * 2 ^ 16
    <3>1. b[1] \in Int /\ b[2] \in Int /\ b[3] \in Int
      BY <2>1
    <3> QED  BY <1>3, <2>1, <3>1, SMT DEF worth, top
  <2> QED  BY <1>3, <2>1, <2>2, ByteCount, SMT
<1>4. CASE bits = 32
  <2>1. /\ Len(b) = 4 /\ b[1] \in 0 .. 255 /\ b[2] \in 0 .. 255
        /\ b[3] \in 0 .. 255 /\ b[4] \in 0 .. 255
    <3>1. b \in [1 .. 4 -> 0 .. 255]
      BY <1>4, ByteCount DEF Bytes
    <3> QED  BY <3>1, Tuples
  <2>2. worth(b, bits) = b[1] + b[2] * 2 ^ 8 + b[3] * 2 ^ 16
                            + top(b[4]) * 2 ^ 24
    BY <1>4, <2>1, SMT DEF worth, top
  <2> QED  BY <1>4, <2>1, <2>2, ByteCount, SMT
<1> QED  BY <1>1, <1>2, <1>3, <1>4 DEF Depths

(* What is read of stored bytes is what they are worth.                    *)
LEMMA ReadIsWorth ==
    ASSUME NEW bits \in Depths, NEW b \in Bytes(bits)
    PROVE  decodeSample(b, bits) = worth(b, bits) /\ Fits(worth(b, bits), bits)
<1>1. CASE bits = 8
  <2>1. b[1] \in 0 .. 255 /\ worth(b, bits) = b[1] - 128
    BY <1>1, Places
  <2>2. decodeSample(b, bits) = b[1] - 128
    BY <1>1, Reads
  <2>3. Fits(b[1] - 128, 8)
    BY <2>1, Fits8
  <2> QED  BY <1>1, <2>1, <2>2, <2>3
<1>2. CASE bits = 16
  <2>1. b[1] \in 0 .. 255 /\ b[2] \in 0 .. 255 /\ worth(b, bits) = b[1] + top(b[2]) * 2 ^ 8
    BY <1>2, Places
  <2>2. decodeSample(b, bits) = signed(b[1] + b[2] * 2 ^ 8, 16)
    BY <1>2, Reads
  <2>3. signed(b[1] + b[2] * 2 ^ 8, 16) = b[1] + top(b[2]) * 2 ^ 8 /\ Fits(b[1] + top(b[2]) * 2 ^ 8, 16)
    BY <2>1, Fits16, Zenon
  <2> QED  BY <1>2, <2>1, <2>2, <2>3
<1>3. CASE bits = 24
  <2> DEFINE whole24 == b[1] + b[2] * 2 ^ 8 + top(b[3]) * 2 ^ 16
  <2>1. /\ b[1] \in 0 .. 255 /\ b[2] \in 0 .. 255 /\ b[3] \in 0 .. 255
        /\ worth(b, bits) = whole24
    BY <1>3, Places
  <2>2. decodeSample(b, bits) = signed(b[3] * 2 ^ 16 + b[1] + b[2] * 2 ^ 8, 24)
    BY <1>3, Reads
  <2>3. signed(b[3] * 2 ^ 16 + b[1] + b[2] * 2 ^ 8, 24) = whole24 /\ Fits(whole24, 24)
    BY <2>1, Fits24, Zenon
  <2> HIDE DEF whole24
  <2> QED  BY <1>3, <2>1, <2>2, <2>3
<1>4. CASE bits = 32
  <2> DEFINE whole32 == b[1] + b[2] * 2 ^ 8 + b[3] * 2 ^ 16 + top(b[4]) * 2 ^ 24
  <2>1. /\ b[1] \in 0 .. 255 /\ b[2] \in 0 .. 255 /\ b[3] \in 0 .. 255 /\ b[4] \in 0 .. 255
        /\ worth(b, bits) = whole32
    BY <1>4, Places
  <2>2. decodeSample(b, bits) = b[1] + b[2] * 2 ^ 8 + b[3] * 2 ^ 16
                                  + signed(b[4], 8) * 2 ^ 24
    BY <1>4, Reads
  <2>3. decodeSample(b, bits) = whole32 /\ Fits(whole32, 32)
    BY <2>1, <2>2, Fits32, Zenon
  <2> HIDE DEF whole32
  <2> QED  BY <1>4, <2>1, <2>3
<1> QED  BY <1>1, <1>2, <1>3, <1>4 DEF Depths

(* A sample of one width in another: times a power of two, or divided.     *)
shifted(v, from, to) == IF to >= from THEN v * 2 ^ (to - from) ELSE v \div 2 ^ (from - to)

LEMMA ShiftedFits ==
    ASSUME NEW from \in Depths, NEW to \in Depths, NEW v, Fits(v, from)
    PROVE  requantised(v, to - from) = shifted(v, from, to) /\ Fits(shifted(v, from, to), to)
<1>0. requantised(v, to - from) = shifted(v, from, to)
  <2>1. from \in Int /\ to \in Int /\ -(to - from) = from - to /\ (to - from >= 0 <=> to >= from)
    BY DEF Depths
  <2> QED  BY <2>1 DEF requantised, shifted
<1>1. CASE from = 8
  <2>1. CASE to = 8
    BY <1>0, <1>1, <2>1, SMT DEF Fits, shifted
  <2>2. CASE to = 16
    BY <1>0, <1>1, <2>2, SMT DEF Fits, shifted
  <2>3. CASE to = 24
    BY <1>0, <1>1, <2>3, SMT DEF Fits, shifted
  <2>4. CASE to = 32
    BY <1>0, <1>1, <2>4, SMT DEF Fits, shifted
  <2> QED  BY <2>1, <2>2, <2>3, <2>4 DEF Depths
<1>2. CASE from = 16
  <2>1. CASE to = 8
    BY <1>0, <1>2, <2>1, SMT DEF Fits, shifted
  <2>2. CASE to = 16
    BY <1>0, <1>2, <2>2, SMT DEF Fits, shifted
  <2>3. CASE to = 24
    BY <1>0, <1>2, <2>3, SMT DEF Fits, shifted
  <2>4. CASE to = 32
    BY <1>0, <1>2, <2>4, SMT DEF Fits, shifted
  <2> QED  BY <2>1, <2>2, <2>3, <2>4 DEF Depths
<1>3. CASE from = 24
  <2>1. CASE to = 8
    BY <1>0, <1>3, <2>1, SMT DEF Fits, shifted
  <2>2. CASE to = 16
    BY <1>0, <1>3, <2>2, SMT DEF Fits, shifted
  <2>3. CASE to = 24
    BY <1>0, <1>3, <2>3, SMT DEF Fits, shifted
  <2>4. CASE to = 32
    BY <1>0, <1>3, <2>4, SMT DEF Fits, shifted
  <2> QED  BY <2>1, <2>2, <2>3, <2>4 DEF Depths
<1>4. CASE from = 32
  <2>1. CASE to = 8
    BY <1>0, <1>4, <2>1, SMT DEF Fits, shifted
  <2>2. CASE to = 16
    BY <1>0, <1>4, <2>2, SMT DEF Fits, shifted
  <2>3. CASE to = 24
    BY <1>0, <1>4, <2>3, SMT DEF Fits, shifted
  <2>4. CASE to = 32
    BY <1>0, <1>4, <2>4, SMT DEF Fits, shifted
  <2> QED  BY <2>1, <2>2, <2>3, <2>4 DEF Depths
<1> QED  BY <1>1, <1>2, <1>3, <1>4 DEF Depths

LEMMA Kernelled ==
    ASSUME NEW b
    PROVE  /\ kernel(b, 8, 16) = <<0, toggled(b[1], 128)>>
           /\ kernel(b, 16, 32) = <<0, 0, b[1], b[2]>>
           /\ kernel(b, 24, 32) = <<0, b[1], b[2], b[3]>>
           /\ kernel(b, 24, 16) = <<b[2], b[3]>>
<1>1. kernel(b, 8, 16) = <<0, toggled(b[1], 128)>>
  BY DEF kernel
<1>2. kernel(b, 16, 32) = <<0, 0, b[1], b[2]>>
  BY DEF kernel
<1>3. kernel(b, 24, 32) = <<0, b[1], b[2], b[3]>>
  BY DEF kernel
<1>4. kernel(b, 24, 16) = <<b[2], b[3]>>
  BY DEF kernel
<1> QED  BY <1>1, <1>2, <1>3, <1>4

LEMMA Two ==
    ASSUME NEW x \in 0 .. 255, NEW y \in 0 .. 255
    PROVE  worth(<<x, y>>, 16) = x + top(y) * 2 ^ 8 /\ <<x, y>> \in Seq(Int)
BY SMT DEF worth, top

LEMMA Four ==
    ASSUME NEW x \in 0 .. 255, NEW y \in 0 .. 255, NEW z \in 0 .. 255, NEW t \in 0 .. 255
    PROVE  /\ worth(<<x, y, z, t>>, 32) = x + y * 2 ^ 8 + z * 2 ^ 16 + top(t) * 2 ^ 24
           /\ <<x, y, z, t>> \in Seq(Int)
BY SMT DEF worth, top

(* The bytes moved up or down, or turned from offset to two's complement.  *)
LEMMA Offset8 ==
    ASSUME NEW x \in 0 .. 255
    PROVE  /\ toggled(x, 128) \in 0 .. 255
           /\ 0 + top(toggled(x, 128)) * 2 ^ 8 = shifted(x - 128, 8, 16)
<1>1. toggled(x, 128) \in 0 .. 255 /\ top(toggled(x, 128)) = x - 128
  BY SMT DEF toggled, top
<1>2. 0 + top(toggled(x, 128)) * 2 ^ 8 = shifted(x - 128, 8, 16)
  BY <1>1, SMT DEF shifted
<1> QED  BY <1>1, <1>2, Zenon

LEMMA Up16 ==
    ASSUME NEW x \in 0 .. 255, NEW y \in 0 .. 255
    PROVE  0 + 0 * 2 ^ 8 + x * 2 ^ 16 + top(y) * 2 ^ 24 = shifted(x + top(y) * 2 ^ 8, 16, 32)
<1>1. top(y) \in Int
  BY Top
<1> QED  BY <1>1, SMT DEF shifted

LEMMA Up24 ==
    ASSUME NEW x \in 0 .. 255, NEW y \in 0 .. 255, NEW z \in 0 .. 255
    PROVE  0 + x * 2 ^ 8 + y * 2 ^ 16 + top(z) * 2 ^ 24
             = shifted(x + y * 2 ^ 8 + top(z) * 2 ^ 16, 24, 32)
<1>1. top(z) \in Int
  BY Top
<1> QED  BY <1>1, SMT DEF shifted

LEMMA Down24 ==
    ASSUME NEW x \in 0 .. 255, NEW y \in 0 .. 255, NEW z \in 0 .. 255
    PROVE  y + top(z) * 2 ^ 8 = shifted(x + y * 2 ^ 8 + top(z) * 2 ^ 16, 24, 16)
<1>1. top(z) \in Int
  BY Top
<1> QED  BY <1>1, SMT DEF shifted

(* Moving bytes is multiplying by a power of two, or dividing.             *)
LEMMA KernelShifts ==
    ASSUME NEW from \in Depths, NEW to \in Depths, <<from, to>> \in Kernels,
           NEW b \in Bytes(from)
    PROVE  /\ worth(kernel(b, from, to), to) = shifted(worth(b, from), from, to)
           /\ kernel(b, from, to) \in Seq(Int)
<1>0. 0 \in 0 .. 255
  OBVIOUS
<1>1. CASE from = 8 /\ to = 16
  <2>1. b[1] \in 0 .. 255 /\ worth(b, from) = b[1] - 128
    BY <1>1, Places
  <2>2. kernel(b, from, to) = <<0, toggled(b[1], 128)>>
    BY <1>1, Kernelled
  <2>3. /\ toggled(b[1], 128) \in 0 .. 255
        /\ 0 + top(toggled(b[1], 128)) * 2 ^ 8 = shifted(b[1] - 128, 8, 16)
    BY <2>1, Offset8, Zenon
  <2>4. /\ worth(<<0, toggled(b[1], 128)>>, 16) = 0 + top(toggled(b[1], 128)) * 2 ^ 8
        /\ <<0, toggled(b[1], 128)>> \in Seq(Int)
    BY <1>0, <2>3, Two, Zenon
  <2> QED  BY <1>1, <2>1, <2>2, <2>3, <2>4, Zenon
<1>2. CASE from = 16 /\ to = 32
  <2>1. /\ b[1] \in 0 .. 255 /\ b[2] \in 0 .. 255
        /\ worth(b, from) = b[1] + top(b[2]) * 2 ^ 8
    BY <1>2, Places
  <2>2. kernel(b, from, to) = <<0, 0, b[1], b[2]>>
    BY <1>2, Kernelled
  <2>3. 0 + 0 * 2 ^ 8 + b[1] * 2 ^ 16 + top(b[2]) * 2 ^ 24
          = shifted(b[1] + top(b[2]) * 2 ^ 8, 16, 32)
    BY <2>1, Up16, Zenon
  <2>4. /\ worth(<<0, 0, b[1], b[2]>>, 32) = 0 + 0 * 2 ^ 8 + b[1] * 2 ^ 16 + top(b[2]) * 2 ^ 24
        /\ <<0, 0, b[1], b[2]>> \in Seq(Int)
    BY <1>0, <2>1, Four, Zenon
  <2> QED  BY <1>2, <2>1, <2>2, <2>3, <2>4, Zenon
<1>3. CASE from = 24 /\ to = 32
  <2>1. /\ b[1] \in 0 .. 255 /\ b[2] \in 0 .. 255 /\ b[3] \in 0 .. 255
        /\ worth(b, from) = b[1] + b[2] * 2 ^ 8 + top(b[3]) * 2 ^ 16
    BY <1>3, Places
  <2>2. kernel(b, from, to) = <<0, b[1], b[2], b[3]>>
    BY <1>3, Kernelled
  <2>3. 0 + b[1] * 2 ^ 8 + b[2] * 2 ^ 16 + top(b[3]) * 2 ^ 24
          = shifted(b[1] + b[2] * 2 ^ 8 + top(b[3]) * 2 ^ 16, 24, 32)
    BY <2>1, Up24, Zenon
  <2>4. /\ worth(<<0, b[1], b[2], b[3]>>, 32)
             = 0 + b[1] * 2 ^ 8 + b[2] * 2 ^ 16 + top(b[3]) * 2 ^ 24
        /\ <<0, b[1], b[2], b[3]>> \in Seq(Int)
    BY <1>0, <2>1, Four, Zenon
  <2> QED  BY <1>3, <2>1, <2>2, <2>3, <2>4, Zenon
<1>4. CASE from = 24 /\ to = 16
  <2>1. /\ b[1] \in 0 .. 255 /\ b[2] \in 0 .. 255 /\ b[3] \in 0 .. 255
        /\ worth(b, from) = b[1] + b[2] * 2 ^ 8 + top(b[3]) * 2 ^ 16
    BY <1>4, Places
  <2>2. kernel(b, from, to) = <<b[2], b[3]>>
    BY <1>4, Kernelled
  <2>3. b[2] + top(b[3]) * 2 ^ 8 = shifted(b[1] + b[2] * 2 ^ 8 + top(b[3]) * 2 ^ 16, 24, 16)
    BY <2>1, Down24, Zenon
  <2>4. worth(<<b[2], b[3]>>, 16) = b[2] + top(b[3]) * 2 ^ 8 /\ <<b[2], b[3]>> \in Seq(Int)
    BY <2>1, Two, Zenon
  <2> QED  BY <1>4, <2>1, <2>2, <2>3, <2>4, Zenon
<1>5. \/ from = 8 /\ to = 16
      \/ from = 16 /\ to = 32
      \/ from = 24 /\ to = 32
      \/ from = 24 /\ to = 16
  BY DEF Kernels
<1> QED  BY <1>1, <1>2, <1>3, <1>4, <1>5, Zenon

(* The blocked loop does the same through a value, to every pair.          *)
LEMMA BlockShifts ==
    ASSUME NEW from \in Depths, NEW to \in Depths, NEW b \in Bytes(from)
    PROVE  LET e == encodeSample(requantised(decodeSample(b, from), to - from), to)
           IN worth(e, to) = shifted(worth(b, from), from, to) /\ e \in Seq(Int)
<1>1. decodeSample(b, from) = worth(b, from) /\ Fits(worth(b, from), from)
  BY ReadIsWorth
<1>2. /\ requantised(worth(b, from), to - from) = shifted(worth(b, from), from, to)
      /\ Fits(shifted(worth(b, from), from, to), to)
  BY <1>1, ShiftedFits
<1> QED  BY <1>1, <1>2, StoredIsWorth

(* A copy has nothing to shift.                                            *)
LEMMA CopyShifts ==
    ASSUME NEW bits \in Depths, NEW b \in Bytes(bits)
    PROVE  worth(b, bits) = shifted(worth(b, bits), bits, bits) /\ b \in Seq(Int)
<1>1. worth(b, bits) \in Int
  BY ReadIsWorth DEF Fits
<1>2. shifted(worth(b, bits), bits, bits) = worth(b, bits) * 2 ^ 0
  <2>1. bits \in Int
    BY DEF Depths
  <2>2. bits >= bits /\ bits - bits = 0
    BY <2>1
  <2> QED  BY <2>2, Zenon DEF shifted
<1>3. worth(b, bits) * 2 ^ 0 = worth(b, bits)
  BY <1>1, SMT
<1>4. b \in Seq(Int)
  <2>1. b \in [1 .. BytesPerSample(bits) -> Int]
    <3>1. \A i \in 0 .. 255 : i \in Int
      OBVIOUS
    <3>2. b \in [1 .. BytesPerSample(bits) -> 0 .. 255]
      BY DEF Bytes
    <3> HIDE DEF Bytes
    <3> QED  BY <3>1, <3>2, Zenon
  <2>2. BytesPerSample(bits) \in Nat
    BY Widths
  <2> QED  BY <2>1, <2>2, Tuples, Zenon
<1> QED  BY <1>2, <1>3, <1>4

-----------------------------------------------------------------------------
(* G.711.                                                                  *)

(* A set of numbers that is not empty has a least element.                 *)
LEMMA Least ==
    ASSUME NEW S, S \subseteq Nat, S # {}
    PROVE  \E x \in S : \A y \in S : x <= y
<1>1. PICK x \in S : \A y \in S : ~(<<y, x>> \in OpToRel(<, Nat))
  BY NatLessThanWellFounded, WFMin
<1>2. ASSUME NEW y \in S PROVE x <= y
  <2>1. x \in Nat /\ y \in Nat
    OBVIOUS
  <2>2. ~(y < x)
    BY <1>1, <2>1 DEF OpToRel
  <2> QED  BY <2>1, <2>2
<1> QED  BY <1>2

(* Where an edge lies, said without the edges before it.                   *)
Tiling(law, c, e) == e = [j \in 0 .. 127 |-> IF j = 0 THEN c ELSE e[j - 1] + step(law, j - 1)]

(* There is one tiling from a given edge.                                  *)
LEMMA TilingIsOne ==
    ASSUME NEW law, NEW c, NEW e, NEW g, Tiling(law, c, e), Tiling(law, c, g)
    PROVE  e = g
<1> DEFINE bad == {j \in 0 .. 127 : e[j] # g[j]}
<1>1. \A j \in 0 .. 127 : e[j] = IF j = 0 THEN c ELSE e[j - 1] + step(law, j - 1)
  BY Zenon DEF Tiling
<1>2. \A j \in 0 .. 127 : g[j] = IF j = 0 THEN c ELSE g[j - 1] + step(law, j - 1)
  BY Zenon DEF Tiling
<1>3. CASE bad # {}
  <2>0. bad \subseteq Nat
    OBVIOUS
  <2>1. PICK j \in bad : \A y \in bad : j <= y
    <3> HIDE DEF bad
    <3> QED  BY <1>3, <2>0, Least, Zenon
  <2>2. j \in 0 .. 127 /\ e[j] # g[j]
    OBVIOUS
  <2>3. j # 0
    BY <1>1, <1>2, <2>2
  <2>4. j - 1 \in 0 .. 127 /\ ~(j <= j - 1)
    BY <2>2, <2>3
  <2>5. e[j - 1] = g[j - 1]
    BY <2>1, <2>4
  <2> QED  BY <1>1, <1>2, <2>2, <2>3, <2>5, Zenon
<1>4. CASE bad = {}
  <2>1. \A j \in 0 .. 127 : e[j] = g[j]
    BY <1>4
  <2>2. e = [j \in 0 .. 127 |-> e[j]] /\ g = [j \in 0 .. 127 |-> g[j]]
    BY DEF Tiling
  <2> QED  BY <2>1, <2>2
<1> QED  BY <1>3, <1>4

(* A code and the one before it are in one segment or in neighbours.       *)
LEMMA Neighbours ==
    ASSUME NEW j \in 1 .. 127
    PROVE  /\ j \in 0 .. 127 /\ j - 1 \in 0 .. 127
           /\ (j - 1) \div 16 \in {0, 1, 2, 3, 4, 5, 6, 7} /\ (j - 1) % 16 \in 0 .. 15
           /\ \/ j \div 16 = (j - 1) \div 16 /\ j % 16 = ((j - 1) % 16) + 1
              \/ j \div 16 = ((j - 1) \div 16) + 1 /\ j % 16 = 0 /\ (j - 1) % 16 = 15
           /\ j < 16 <=> j \div 16 = 0
           /\ j - 1 < 16 <=> (j - 1) \div 16 = 0
           /\ j = 16 * (j \div 16) + (j % 16)
BY SMT

aEdge(s, k) == IF s = 0 THEN 16 * k ELSE (256 + 16 * k) * 2 ^ (s - 1)
muEdge(s, k) == (128 + 8 * k) * 2 ^ s - 132
aStep(s) == 16 * 2 ^ (IF s = 0 THEN 0 ELSE s - 1)
muStep(s) == 8 * 2 ^ s

LEMMA SegmentsMeet ==
    ASSUME NEW s \in {0, 1, 2, 3, 4, 5, 6, 7}, NEW k \in 0 .. 15
    PROVE  /\ aEdge(s, k + 1) = aEdge(s, k) + aStep(s)
           /\ muEdge(s, k + 1) = muEdge(s, k) + muStep(s)
           /\ k = 15 => /\ aEdge(s + 1, 0) = aEdge(s, k) + aStep(s)
                        /\ muEdge(s + 1, 0) = muEdge(s, k) + muStep(s)
<1>0. CASE s = 0
  BY <1>0, SMT DEF aEdge, muEdge, aStep, muStep
<1>1. CASE s = 1
  BY <1>1, SMT DEF aEdge, muEdge, aStep, muStep
<1>2. CASE s = 2
  BY <1>2, SMT DEF aEdge, muEdge, aStep, muStep
<1>3. CASE s = 3
  BY <1>3, SMT DEF aEdge, muEdge, aStep, muStep
<1>4. CASE s = 4
  BY <1>4, SMT DEF aEdge, muEdge, aStep, muStep
<1>5. CASE s = 5
  BY <1>5, SMT DEF aEdge, muEdge, aStep, muStep
<1>6. CASE s = 6
  BY <1>6, SMT DEF aEdge, muEdge, aStep, muStep
<1>7. CASE s = 7
  BY <1>7, SMT DEF aEdge, muEdge, aStep, muStep
<1> QED  BY <1>0, <1>1, <1>2, <1>3, <1>4, <1>5, <1>6, <1>7

LEMMA ALawTiles == \A j \in 0 .. 127 : alawEdges[j] = aEdge(j \div 16, j % 16)
<1> DEFINE edge == [j \in 0 .. 127 |-> aEdge(j \div 16, j % 16)]
<1>1. Tiling("ALaw", 0, edge)
  <2>1. edge[0] = 0
    BY SMT DEF aEdge
  <2>2. ASSUME NEW j \in 1 .. 127
        PROVE  edge[j] = edge[j - 1] + step("ALaw", j - 1)
    <3>1. edge[j] = aEdge(j \div 16, j % 16) /\ edge[j - 1] = aEdge((j - 1) \div 16, (j - 1) % 16)
      BY Neighbours
    <3>2. step("ALaw", j - 1) = aStep((j - 1) \div 16)
      BY DEF step, aStep
    <3> QED  BY <3>1, <3>2, Neighbours, SegmentsMeet
  <2> QED  BY <2>1, <2>2, SMT DEF Tiling
<1>2. Tiling("ALaw", 0, alawEdges)
  BY <1>1, Zenon DEF Tiling, alawEdges
<1>3. alawEdges = edge
  BY <1>1, <1>2, TilingIsOne
<1> QED  BY <1>3

LEMMA MuLawTiles == \A j \in 0 .. 127 : muLawEdges[j] = muEdge(j \div 16, j % 16)
<1> DEFINE edge == [j \in 0 .. 127 |-> muEdge(j \div 16, j % 16)]
<1>1. Tiling("MuLaw", -4, edge)
  <2>1. edge[0] = -4
    BY SMT DEF muEdge
  <2>2. ASSUME NEW j \in 1 .. 127
        PROVE  edge[j] = edge[j - 1] + step("MuLaw", j - 1)
    <3>1. edge[j] = muEdge(j \div 16, j % 16) /\ edge[j - 1] = muEdge((j - 1) \div 16, (j - 1) % 16)
      BY Neighbours
    <3>2. step("MuLaw", j - 1) = muStep((j - 1) \div 16)
      BY DEF step, muStep
    <3> QED  BY <3>1, <3>2, Neighbours, SegmentsMeet
  <2> QED  BY <2>1, <2>2, SMT DEF Tiling
<1>2. Tiling("MuLaw", -4, muLawEdges)
  BY <1>1, Zenon DEF Tiling, muLawEdges
<1>3. muLawEdges = edge
  BY <1>1, <1>2, TilingIsOne
<1> QED  BY <1>3

(* The magnitudes the decoders compute are the middles of the intervals.   *)
aMag(s, k) == IF s = 0 THEN 16 * k + 8 ELSE (16 * k + 264) * 2 ^ (s - 1)
muMag(s, k) == (8 * k + 132) * 2 ^ s - 132

LEMMA AMiddles ==
    ASSUME NEW s \in {0, 1, 2, 3, 4, 5, 6, 7}, NEW k \in 0 .. 15
    PROVE  aEdge(s, k) + (aStep(s) \div 2) = aMag(s, k)
<1>0. CASE s = 0
  <2>1. aStep(s) = 16
    BY <1>0, SMT DEF aStep
  <2> QED  BY <1>0, <2>1, SMT DEF aEdge, aMag
<1>1. CASE s = 1
  <2>1. aStep(s) = 16
    BY <1>1, SMT DEF aStep
  <2> QED  BY <1>1, <2>1, SMT DEF aEdge, aMag
<1>2. CASE s = 2
  <2>1. aStep(s) = 32
    BY <1>2, SMT DEF aStep
  <2> QED  BY <1>2, <2>1, SMT DEF aEdge, aMag
<1>3. CASE s = 3
  <2>1. aStep(s) = 64
    BY <1>3, SMT DEF aStep
  <2> QED  BY <1>3, <2>1, SMT DEF aEdge, aMag
<1>4. CASE s = 4
  <2>1. aStep(s) = 128
    BY <1>4, SMT DEF aStep
  <2> QED  BY <1>4, <2>1, SMT DEF aEdge, aMag
<1>5. CASE s = 5
  <2>1. aStep(s) = 256
    BY <1>5, SMT DEF aStep
  <2> QED  BY <1>5, <2>1, SMT DEF aEdge, aMag
<1>6. CASE s = 6
  <2>1. aStep(s) = 512
    BY <1>6, SMT DEF aStep
  <2> QED  BY <1>6, <2>1, SMT DEF aEdge, aMag
<1>7. CASE s = 7
  <2>1. aStep(s) = 1024
    BY <1>7, SMT DEF aStep
  <2> QED  BY <1>7, <2>1, SMT DEF aEdge, aMag
<1> QED  BY <1>0, <1>1, <1>2, <1>3, <1>4, <1>5, <1>6, <1>7, Zenon

LEMMA MuMiddles ==
    ASSUME NEW s \in {0, 1, 2, 3, 4, 5, 6, 7}, NEW k \in 0 .. 15
    PROVE  muEdge(s, k) + (muStep(s) \div 2) = muMag(s, k)
<1>0. CASE s = 0
  <2>1. muStep(s) = 8
    BY <1>0, SMT DEF muStep
  <2> QED  BY <1>0, <2>1, SMT DEF muEdge, muMag
<1>1. CASE s = 1
  <2>1. muStep(s) = 16
    BY <1>1, SMT DEF muStep
  <2> QED  BY <1>1, <2>1, SMT DEF muEdge, muMag
<1>2. CASE s = 2
  <2>1. muStep(s) = 32
    BY <1>2, SMT DEF muStep
  <2> QED  BY <1>2, <2>1, SMT DEF muEdge, muMag
<1>3. CASE s = 3
  <2>1. muStep(s) = 64
    BY <1>3, SMT DEF muStep
  <2> QED  BY <1>3, <2>1, SMT DEF muEdge, muMag
<1>4. CASE s = 4
  <2>1. muStep(s) = 128
    BY <1>4, SMT DEF muStep
  <2> QED  BY <1>4, <2>1, SMT DEF muEdge, muMag
<1>5. CASE s = 5
  <2>1. muStep(s) = 256
    BY <1>5, SMT DEF muStep
  <2> QED  BY <1>5, <2>1, SMT DEF muEdge, muMag
<1>6. CASE s = 6
  <2>1. muStep(s) = 512
    BY <1>6, SMT DEF muStep
  <2> QED  BY <1>6, <2>1, SMT DEF muEdge, muMag
<1>7. CASE s = 7
  <2>1. muStep(s) = 1024
    BY <1>7, SMT DEF muStep
  <2> QED  BY <1>7, <2>1, SMT DEF muEdge, muMag
<1> QED  BY <1>0, <1>1, <1>2, <1>3, <1>4, <1>5, <1>6, <1>7, Zenon

LEMMA MagnitudesFit ==
    ASSUME NEW s \in {0, 1, 2, 3, 4, 5, 6, 7}, NEW k \in 0 .. 15
    PROVE  /\ Fits(aMag(s, k), 16) /\ Fits(-aMag(s, k), 16)
           /\ Fits(muMag(s, k), 16) /\ Fits(-muMag(s, k), 16)
<1>0. CASE s = 0
  <2>1. Fits(aMag(s, k), 16) /\ Fits(-aMag(s, k), 16)
    BY <1>0, SMT DEF Fits, aMag
  <2>2. Fits(muMag(s, k), 16) /\ Fits(-muMag(s, k), 16)
    BY <1>0, SMT DEF Fits, muMag
  <2> QED  BY <2>1, <2>2, Zenon
<1>1. CASE s = 1
  <2>1. Fits(aMag(s, k), 16) /\ Fits(-aMag(s, k), 16)
    BY <1>1, SMT DEF Fits, aMag
  <2>2. Fits(muMag(s, k), 16) /\ Fits(-muMag(s, k), 16)
    BY <1>1, SMT DEF Fits, muMag
  <2> QED  BY <2>1, <2>2, Zenon
<1>2. CASE s = 2
  <2>1. Fits(aMag(s, k), 16) /\ Fits(-aMag(s, k), 16)
    BY <1>2, SMT DEF Fits, aMag
  <2>2. Fits(muMag(s, k), 16) /\ Fits(-muMag(s, k), 16)
    BY <1>2, SMT DEF Fits, muMag
  <2> QED  BY <2>1, <2>2, Zenon
<1>3. CASE s = 3
  <2>1. Fits(aMag(s, k), 16) /\ Fits(-aMag(s, k), 16)
    BY <1>3, SMT DEF Fits, aMag
  <2>2. Fits(muMag(s, k), 16) /\ Fits(-muMag(s, k), 16)
    BY <1>3, SMT DEF Fits, muMag
  <2> QED  BY <2>1, <2>2, Zenon
<1>4. CASE s = 4
  <2>1. Fits(aMag(s, k), 16) /\ Fits(-aMag(s, k), 16)
    BY <1>4, SMT DEF Fits, aMag
  <2>2. Fits(muMag(s, k), 16) /\ Fits(-muMag(s, k), 16)
    BY <1>4, SMT DEF Fits, muMag
  <2> QED  BY <2>1, <2>2, Zenon
<1>5. CASE s = 5
  <2>1. Fits(aMag(s, k), 16) /\ Fits(-aMag(s, k), 16)
    BY <1>5, SMT DEF Fits, aMag
  <2>2. Fits(muMag(s, k), 16) /\ Fits(-muMag(s, k), 16)
    BY <1>5, SMT DEF Fits, muMag
  <2> QED  BY <2>1, <2>2, Zenon
<1>6. CASE s = 6
  <2>1. Fits(aMag(s, k), 16) /\ Fits(-aMag(s, k), 16)
    BY <1>6, SMT DEF Fits, aMag
  <2>2. Fits(muMag(s, k), 16) /\ Fits(-muMag(s, k), 16)
    BY <1>6, SMT DEF Fits, muMag
  <2> QED  BY <2>1, <2>2, Zenon
<1>7. CASE s = 7
  <2>1. Fits(aMag(s, k), 16) /\ Fits(-aMag(s, k), 16)
    BY <1>7, SMT DEF Fits, aMag
  <2>2. Fits(muMag(s, k), 16) /\ Fits(-muMag(s, k), 16)
    BY <1>7, SMT DEF Fits, muMag
  <2> QED  BY <2>1, <2>2, Zenon
<1> QED  BY <1>0, <1>1, <1>2, <1>3, <1>4, <1>5, <1>6, <1>7, Zenon

(* Turning a low bit over leaves the sign bit alone and looks at nothing   *)
(* above it.                                                               *)
LEMMA LowBits ==
    ASSUME NEW b \in 0 .. 127, NEW bit \in {1, 4, 16, 64}
    PROVE  toggled(b, bit) \in 0 .. 127 /\ toggled(b + 128, bit) = toggled(b, bit) + 128
<1>1. CASE bit = 1
  BY <1>1, SMT DEF toggled
<1>2. CASE bit = 4
  BY <1>2, SMT DEF toggled
<1>3. CASE bit = 16
  BY <1>3, SMT DEF toggled
<1>4. CASE bit = 64
  BY <1>4, SMT DEF toggled
<1> QED  BY <1>1, <1>2, <1>3, <1>4

LEMMA EvenBits ==
    ASSUME NEW b \in 0 .. 127
    PROVE  evenBitsInverted(b) \in 0 .. 127 /\ evenBitsInverted(b + 128) = evenBitsInverted(b) + 128
<1> DEFINE b1 == toggled(b, 1)
           b2 == toggled(b1, 4)
           b3 == toggled(b2, 16)
           b4 == toggled(b3, 64)
<1>1. b1 \in 0 .. 127 /\ toggled(b + 128, 1) = b1 + 128
  BY LowBits
<1>2. b2 \in 0 .. 127 /\ toggled(b1 + 128, 4) = b2 + 128
  <2> HIDE DEF b1
  <2> QED  BY <1>1, LowBits
<1>3. b3 \in 0 .. 127 /\ toggled(b2 + 128, 16) = b3 + 128
  <2> HIDE DEF b2
  <2> QED  BY <1>2, LowBits
<1>4. b4 \in 0 .. 127 /\ toggled(b3 + 128, 64) = b4 + 128
  <2> HIDE DEF b3
  <2> QED  BY <1>3, LowBits
<1> QED  BY <1>1, <1>2, <1>3, <1>4, Zenon DEF evenBitsInverted

(* The fields of a code.                                                   *)
LEMMA Fields ==
    ASSUME NEW j \in 0 .. 127
    PROVE  /\ j \div 16 \in {0, 1, 2, 3, 4, 5, 6, 7} /\ j % 16 \in 0 .. 15
           /\ ~negated(j) /\ segment(j) = j \div 16 /\ mantissa(j) = j % 16
           /\ negated(j + 128) /\ segment(j + 128) = j \div 16 /\ mantissa(j + 128) = j % 16
BY SMT DEF negated, segment, mantissa

LEMMA ThreeCases ==
    ASSUME NEW s, NEW a, NEW b, NEW c
    PROVE  (CASE s = 0 -> a [] s = 1 -> b [] OTHER -> c) = IF s = 0 THEN a ELSE IF s = 1 THEN b ELSE c
<1>1. CASE s = 0
  <2>1. s # 1
    BY <1>1
  <2>2. (CASE s = 0 -> a [] s = 1 -> b [] OTHER -> c) = a
    BY <1>1, <2>1, Zenon
  <2> QED  BY <1>1, <2>2, Zenon
<1>2. CASE s # 0 /\ s = 1
  BY <1>2, Zenon
<1>3. CASE s # 0 /\ s # 1
  <2>1. s # 0 /\ s # 1
    BY <1>3
  <2>2. (CASE s = 0 -> a [] s = 1 -> b [] OTHER -> c) = c
    BY <2>1, Zenon
  <2>3. (IF s = 0 THEN a ELSE IF s = 1 THEN b ELSE c) = c
    BY <2>1, Zenon
  <2> QED  BY <2>2, <2>3
<1> QED  BY <1>1, <1>2, <1>3, Zenon

LEMMA ALawSays ==
    ASSUME NEW code, segment(evenBitsInverted(code)) \in {0, 1, 2, 3, 4, 5, 6, 7},
           mantissa(evenBitsInverted(code)) \in 0 .. 15
    PROVE  LET c == evenBitsInverted(code)
               mag == aMag(segment(c), mantissa(c))
           IN decodeALaw(code) = IF negated(c) THEN mag ELSE -mag
<1> DEFINE c == evenBitsInverted(code)
           s == segment(c)
           k == mantissa(c)
           branch == IF s = 0 THEN 16 * k + 8
                     ELSE IF s = 1 THEN 16 * k + 264 ELSE (16 * k + 264) * 2 ^ (s - 1)
<1>1. decodeALaw(code) = IF negated(c) THEN branch ELSE -branch
  <2> DEFINE cases == CASE s = 0 -> 16 * k + 8 [] s = 1 -> 16 * k + 264
                        [] OTHER -> (16 * k + 264) * 2 ^ (s - 1)
  <2>1. decodeALaw(code) = IF negated(c) THEN cases ELSE -cases
    BY Zenon DEF decodeALaw
  <2>2. cases = branch
    <3> DEFINE first == 16 * k + 8
               second == 16 * k + 264
               others == (16 * k + 264) * 2 ^ (s - 1)
    <3>1. /\ cases = CASE s = 0 -> first [] s = 1 -> second [] OTHER -> others
          /\ branch = IF s = 0 THEN first ELSE IF s = 1 THEN second ELSE others
      OBVIOUS
    <3> HIDE DEF first, second, others, s, cases, branch
    <3> QED  BY <3>1, ThreeCases, Zenon
  <2> HIDE DEF cases, branch
  <2> QED  BY <2>1, <2>2, Zenon
<1>2. branch = aMag(s, k)
  <2> HIDE DEF s, k
  <2>1. CASE s = 1
    <3>1. k \in 0 .. 15
      BY DEF k
    <3> QED  BY <2>1, <3>1, SMT DEF aMag
  <2>2. CASE s # 1
    BY <2>2, Zenon DEF aMag
  <2> QED  BY <2>1, <2>2
<1> QED  BY <1>1, <1>2, Zenon

(* The decoders and the laws agree on every code.                          *)
LEMMA ALawIsLawful ==
    ASSUME NEW code \in 0 .. 255
    PROVE  decodeALaw(code) = lawful("ALaw", code) /\ Fits(lawful("ALaw", code), 16)
<1> DEFINE low == code % 128
           j == evenBitsInverted(low)
           s == j \div 16
           k == j % 16
           mag == aMag(s, k)
<1>1. low \in 0 .. 127 /\ (code >= 128 => code = low + 128) /\ (~(code >= 128) => code = low)
  BY SMT
<1>2. j \in 0 .. 127 /\ evenBitsInverted(low + 128) = j + 128
  <2> HIDE DEF low
  <2> QED  BY <1>1, EvenBits
<1>3. s \in {0, 1, 2, 3, 4, 5, 6, 7} /\ k \in 0 .. 15
  <2> HIDE DEF j
  <2> QED  BY <1>2, Fields
<1>4. decodeALaw(code) = IF code >= 128 THEN mag ELSE -mag
  <2>1. CASE code >= 128
    <3>1. evenBitsInverted(code) = j + 128
      BY <1>1, <1>2, <2>1, Zenon
    <3>2. negated(j + 128) /\ segment(j + 128) = s /\ mantissa(j + 128) = k
      <4> HIDE DEF j
      <4> QED  BY <1>2, Fields
    <3>3. decodeALaw(code) = IF negated(j + 128) THEN aMag(s, k) ELSE -aMag(s, k)
      <4> DEFINE c == evenBitsInverted(code)
      <4>1. segment(c) = s /\ mantissa(c) = k /\ c = j + 128
        BY <3>1, <3>2, Zenon
      <4> HIDE DEF s, k, j
      <4>2. decodeALaw(code) = IF negated(c) THEN aMag(segment(c), mantissa(c))
                               ELSE -aMag(segment(c), mantissa(c))
        BY <1>3, <4>1, ALawSays
      <4> QED  BY <4>1, <4>2, Zenon
    <3> QED  BY <2>1, <3>2, <3>3, Zenon
  <2>2. CASE ~(code >= 128)
    <3>1. evenBitsInverted(code) = j
      BY <1>1, <2>2, Zenon
    <3>2. ~negated(j) /\ segment(j) = s /\ mantissa(j) = k
      <4> HIDE DEF j
      <4> QED  BY <1>2, Fields
    <3>3. decodeALaw(code) = IF negated(j) THEN aMag(s, k) ELSE -aMag(s, k)
      <4> DEFINE c == evenBitsInverted(code)
      <4>1. segment(c) = s /\ mantissa(c) = k /\ c = j
        BY <3>1, <3>2, Zenon
      <4> HIDE DEF s, k, j
      <4>2. decodeALaw(code) = IF negated(c) THEN aMag(segment(c), mantissa(c))
                               ELSE -aMag(segment(c), mantissa(c))
        BY <1>3, <4>1, ALawSays
      <4> QED  BY <4>1, <4>2, Zenon
    <3> QED  BY <2>2, <3>2, <3>3, Zenon
  <2> QED  BY <2>1, <2>2, Zenon
<1>5. lawful("ALaw", code) = IF code >= 128 THEN mag ELSE -mag
  <2>1. alawEdges[j] = aEdge(s, k) /\ step("ALaw", j) = aStep(s)
    <3>1. step("ALaw", j) = aStep(s)
      BY DEF step, aStep
    <3> HIDE DEF j
    <3> QED  BY <1>2, <3>1, ALawTiles
  <2>2. aEdge(s, k) + (aStep(s) \div 2) = mag
    <3> HIDE DEF s, k
    <3> QED  BY <1>3, AMiddles, Zenon
  <2>3. lawful("ALaw", code) = IF code >= 128 THEN alawEdges[j] + (step("ALaw", j) \div 2)
                               ELSE -(alawEdges[j] + (step("ALaw", j) \div 2))
    BY Zenon DEF lawful
  <2> QED  BY <2>1, <2>2, <2>3, Zenon
<1>6. Fits(mag, 16) /\ Fits(-mag, 16)
  <2> HIDE DEF s, k
  <2> QED  BY <1>3, MagnitudesFit, Zenon
<1> HIDE DEF mag
<1> QED  BY <1>4, <1>5, <1>6

LEMMA MuLawIsLawful ==
    ASSUME NEW code \in 0 .. 255
    PROVE  decodeMuLaw(code) = lawful("MuLaw", code) /\ Fits(lawful("MuLaw", code), 16)
<1> DEFINE low == code % 128
           j == 127 - low
           s == j \div 16
           k == j % 16
           mag == muMag(s, k)
<1>1. /\ j \in 0 .. 127
      /\ code >= 128 => 255 - code = j
      /\ ~(code >= 128) => 255 - code = j + 128
  BY SMT
<1>2. s \in {0, 1, 2, 3, 4, 5, 6, 7} /\ k \in 0 .. 15
  <2> HIDE DEF j
  <2> QED  BY <1>1, Fields
<1>3. decodeMuLaw(code) = IF code >= 128 THEN mag ELSE -mag
  <2> DEFINE raw == (8 * k + 132) * 2 ^ s
  <2>1. raw \in Int /\ muMag(s, k) = raw - 132 /\ 132 - raw = -(raw - 132)
    <3>1. raw \in Int
      <4>1. 8 * k + 132 \in Int
        BY <1>2
      <4>2. 2 ^ s \in Int
        <5> HIDE DEF s
        <5>0. CASE s = 0
          BY <5>0, SMT
        <5>1. CASE s = 1
          BY <5>1, SMT
        <5>2. CASE s = 2
          BY <5>2, SMT
        <5>3. CASE s = 3
          BY <5>3, SMT
        <5>4. CASE s = 4
          BY <5>4, SMT
        <5>5. CASE s = 5
          BY <5>5, SMT
        <5>6. CASE s = 6
          BY <5>6, SMT
        <5>7. CASE s = 7
          BY <5>7, SMT
        <5> QED  BY <1>2, <5>0, <5>1, <5>2, <5>3, <5>4, <5>5, <5>6, <5>7, Zenon
      <4> HIDE DEF s, k
      <4> QED  BY <4>1, <4>2, SMT
    <3>2. muMag(s, k) = raw - 132
      BY DEF muMag
    <3> HIDE DEF raw
    <3> QED  BY <3>1, <3>2
  <2>2. CASE code >= 128
    <3>1. ~negated(j) /\ segment(j) = s /\ mantissa(j) = k
      <4> HIDE DEF j
      <4> QED  BY <1>1, Fields
    <3>2. decodeMuLaw(code) = raw - 132
      <4> DEFINE c == 255 - code
      <4>1. c = j
        BY <1>1, <2>2
      <4>2. decodeMuLaw(code) = IF negated(c) THEN 132 - (8 * mantissa(c) + 132) * 2 ^ segment(c)
                                ELSE (8 * mantissa(c) + 132) * 2 ^ segment(c) - 132
        BY Zenon DEF decodeMuLaw, muLawBias
      <4> HIDE DEF c, j, s, k
      <4> QED  BY <3>1, <4>1, <4>2, Zenon DEF raw
    <3> QED  BY <2>1, <2>2, <3>2, Zenon
  <2>3. CASE ~(code >= 128)
    <3>1. negated(j + 128) /\ segment(j + 128) = s /\ mantissa(j + 128) = k
      <4> HIDE DEF j
      <4> QED  BY <1>1, Fields
    <3>2. decodeMuLaw(code) = 132 - raw
      <4> DEFINE c == 255 - code
      <4>1. c = j + 128
        BY <1>1, <2>3
      <4>2. decodeMuLaw(code) = IF negated(c) THEN 132 - (8 * mantissa(c) + 132) * 2 ^ segment(c)
                                ELSE (8 * mantissa(c) + 132) * 2 ^ segment(c) - 132
        BY Zenon DEF decodeMuLaw, muLawBias
      <4> HIDE DEF c, j, s, k
      <4> QED  BY <3>1, <4>1, <4>2, Zenon DEF raw
    <3> QED  BY <2>1, <2>3, <3>2, Zenon
  <2> QED  BY <2>2, <2>3, Zenon
<1>4. lawful("MuLaw", code) = IF code >= 128 THEN mag ELSE -mag
  <2>1. muLawEdges[j] = muEdge(s, k) /\ step("MuLaw", j) = muStep(s)
    <3>1. step("MuLaw", j) = muStep(s)
      BY DEF step, muStep
    <3> HIDE DEF j
    <3> QED  BY <1>1, <3>1, MuLawTiles
  <2>2. muEdge(s, k) + (muStep(s) \div 2) = mag
    <3> HIDE DEF s, k
    <3> QED  BY <1>2, MuMiddles, Zenon
  <2>3. lawful("MuLaw", code) = IF code >= 128 THEN muLawEdges[j] + (step("MuLaw", j) \div 2)
                                ELSE -(muLawEdges[j] + (step("MuLaw", j) \div 2))
    BY Zenon DEF lawful
  <2> QED  BY <2>1, <2>2, <2>3, Zenon
<1>5. Fits(mag, 16) /\ Fits(-mag, 16)
  <2> HIDE DEF s, k
  <2> QED  BY <1>2, MagnitudesFit, Zenon
<1> HIDE DEF mag
<1> QED  BY <1>3, <1>4, <1>5

-----------------------------------------------------------------------------
(* Powers of two.                                                          *)

(* The powers up to the n-th, as any function that doubles.                *)
Doubles(f, S) == f = [i \in S |-> IF i = 0 THEN 1 ELSE 2 * f[i - 1]]

LEMMA FirstPowers == \A n \in Nat : \E f : Doubles(f, 0 .. n)
<1> DEFINE bad == {n \in Nat : ~\E f : Doubles(f, 0 .. n)}
<1>1. ASSUME bad # {} PROVE FALSE
  <2>0. bad \subseteq Nat
    OBVIOUS
  <2>1. PICK n \in bad : \A y \in bad : n <= y
    <3> HIDE DEF bad
    <3> QED  BY <1>1, <2>0, Least, Zenon
  <2>2. n \in Nat /\ ~\E f : Doubles(f, 0 .. n)
    OBVIOUS
  <2>3. n # 0
    <3>1. Doubles([i \in 0 .. 0 |-> 1], 0 .. 0)
      BY DEF Doubles
    <3> QED  BY <2>2, <3>1
  <2>4. n - 1 \in Nat /\ ~(n <= n - 1)
    BY <2>2, <2>3
  <2>5. PICK f : Doubles(f, 0 .. (n - 1))
    BY <2>1, <2>4
  <2> DEFINE g == [i \in 0 .. n |-> IF i = 0 THEN 1 ELSE 2 * f[i - 1]]
  <2>6. \A i \in 0 .. (n - 1) : f[i] = IF i = 0 THEN 1 ELSE 2 * f[i - 1]
    BY <2>5, Zenon DEF Doubles
  <2>7. ASSUME NEW i \in 0 .. n, i # 0 PROVE g[i - 1] = f[i - 1]
    <3>1. i - 1 \in 0 .. n /\ i - 1 \in 0 .. (n - 1)
      BY <2>2, <2>7
    <3> QED  BY <2>6, <3>1
  <2>8. Doubles(g, 0 .. n)
    <3>1. g = [i \in 0 .. n |-> IF i = 0 THEN 1 ELSE 2 * g[i - 1]]
      BY <2>7
    <3> QED  BY <3>1, Zenon DEF Doubles
  <2> QED  BY <2>2, <2>8, Zenon
<1> QED  BY <1>1

LEMMA PowersAgree ==
    ASSUME NEW m \in Nat, NEW n \in Nat, NEW f, NEW g,
           Doubles(f, 0 .. m), Doubles(g, 0 .. n)
    PROVE  \A i \in Nat : i <= m /\ i <= n => f[i] = g[i]
<1> DEFINE bad == {i \in Nat : i <= m /\ i <= n /\ f[i] # g[i]}
<1>0. /\ \A i \in 0 .. m : f[i] = IF i = 0 THEN 1 ELSE 2 * f[i - 1]
      /\ \A i \in 0 .. n : g[i] = IF i = 0 THEN 1 ELSE 2 * g[i - 1]
  BY Zenon DEF Doubles
<1>1. ASSUME bad # {} PROVE FALSE
  <2>0. bad \subseteq Nat
    OBVIOUS
  <2>1. PICK i \in bad : \A y \in bad : i <= y
    <3> HIDE DEF bad
    <3> QED  BY <1>1, <2>0, Least, Zenon
  <2>2. i \in 0 .. m /\ i \in 0 .. n /\ f[i] # g[i] /\ i \in Nat /\ i <= m /\ i <= n
    OBVIOUS
  <2>3. i # 0
    BY <1>0, <2>2
  <2>4. i - 1 \in Nat /\ i - 1 <= m /\ i - 1 <= n /\ ~(i <= i - 1)
    BY <2>2, <2>3
  <2>5. f[i - 1] = g[i - 1]
    BY <2>1, <2>4
  <2> QED  BY <1>0, <2>2, <2>3, <2>5, Zenon
<1> QED  BY <1>1

LEMMA Pow2Doubles == pow2[0] = 1 /\ \A n \in Nat : n # 0 => pow2[n] = 2 * pow2[n - 1]
<1> DEFINE upTo(n) == CHOOSE f : Doubles(f, 0 .. n)
           power == [n \in Nat |-> upTo(n)[n]]
<1>1. \A n \in Nat : Doubles(upTo(n), 0 .. n)
  BY FirstPowers, Zenon
<1>2. upTo(0)[0] = 1
  <2>1. Doubles(upTo(0), 0 .. 0)
    BY <1>1
  <2> HIDE DEF upTo
  <2> QED  BY <2>1 DEF Doubles
<1>3. ASSUME NEW n \in Nat, n # 0 PROVE upTo(n)[n] = 2 * upTo(n - 1)[n - 1]
  <2>1. n - 1 \in Nat /\ n - 1 <= n /\ n - 1 <= n - 1 /\ n \in 0 .. n
    BY <1>3
  <2>2. Doubles(upTo(n), 0 .. n) /\ Doubles(upTo(n - 1), 0 .. (n - 1))
    BY <1>1, <2>1
  <2> HIDE DEF upTo
  <2>3. upTo(n)[n - 1] = upTo(n - 1)[n - 1]
    BY <2>1, <2>2, PowersAgree
  <2>4. upTo(n)[n] = 2 * upTo(n)[n - 1]
    <3>1. \A i \in 0 .. n : upTo(n)[i] = IF i = 0 THEN 1 ELSE 2 * upTo(n)[i - 1]
      BY <2>2, Zenon DEF Doubles
    <3> QED  BY <1>3, <2>1, <3>1, Zenon
  <2> QED  BY <2>3, <2>4
<1>4. Doubles(power, Nat)
  <2> HIDE DEF upTo
  <2>1. power[0] = 1
    BY <1>2
  <2>2. ASSUME NEW n \in Nat, n # 0 PROVE power[n] = 2 * power[n - 1]
    BY <1>3, <2>2
  <2>3. power = [i \in Nat |-> IF i = 0 THEN 1 ELSE 2 * power[i - 1]]
    BY <2>1, <2>2
  <2> QED  BY <2>3, Zenon DEF Doubles
<1>5. Doubles(pow2, Nat)
  BY <1>4, Zenon DEF Doubles, pow2
<1>6. \A n \in Nat : pow2[n] = IF n = 0 THEN 1 ELSE 2 * pow2[n - 1]
  BY <1>5, Zenon DEF Doubles
<1> QED  BY <1>6

LEMMA Pow2Positive == \A n \in Nat : pow2[n] \in Nat /\ pow2[n] > 0
<1> DEFINE bad == {n \in Nat : ~(pow2[n] \in Nat /\ pow2[n] > 0)}
<1>1. ASSUME bad # {} PROVE FALSE
  <2>0. bad \subseteq Nat
    OBVIOUS
  <2>1. PICK n \in bad : \A y \in bad : n <= y
    <3> HIDE DEF bad
    <3> QED  BY <1>1, <2>0, Least, Zenon
  <2>2. n \in Nat /\ ~(pow2[n] \in Nat /\ pow2[n] > 0)
    OBVIOUS
  <2>3. n # 0
    BY <2>2, Pow2Doubles
  <2>4. n - 1 \in Nat /\ ~(n <= n - 1)
    BY <2>2, <2>3
  <2>5. pow2[n - 1] \in Nat /\ pow2[n - 1] > 0
    BY <2>1, <2>4
  <2>6. pow2[n] = 2 * pow2[n - 1]
    BY <2>2, <2>3, Pow2Doubles
  <2> QED  BY <2>2, <2>5, <2>6
<1> QED  BY <1>1

LEMMA Pow2Sum == \A m, n \in Nat : pow2[m + n] = pow2[m] * pow2[n]
<1> SUFFICES ASSUME NEW m \in Nat PROVE \A n \in Nat : pow2[m + n] = pow2[m] * pow2[n]
  OBVIOUS
<1> DEFINE bad == {n \in Nat : pow2[m + n] # pow2[m] * pow2[n]}
<1>1. ASSUME bad # {} PROVE FALSE
  <2>0. bad \subseteq Nat
    OBVIOUS
  <2>1. PICK n \in bad : \A y \in bad : n <= y
    <3> HIDE DEF bad
    <3> QED  BY <1>1, <2>0, Least, Zenon
  <2>2. n \in Nat /\ pow2[m + n] # pow2[m] * pow2[n]
    OBVIOUS
  <2>3. n # 0
    BY <2>2, Pow2Doubles, Pow2Positive
  <2>4. n - 1 \in Nat /\ ~(n <= n - 1) /\ m + n \in Nat /\ m + n # 0 /\ (m + n) - 1 = m + (n - 1)
    BY <2>2, <2>3
  <2>5. pow2[m + (n - 1)] = pow2[m] * pow2[n - 1]
    BY <2>1, <2>4
  <2>6. pow2[n] = 2 * pow2[n - 1] /\ pow2[m + n] = 2 * pow2[m + (n - 1)]
    BY <2>2, <2>3, <2>4, Pow2Doubles
  <2>7. pow2[m] \in Nat /\ pow2[n - 1] \in Nat
    BY <2>4, Pow2Positive
  <2> QED  BY <2>2, <2>5, <2>6, <2>7
<1> QED  BY <1>1

(* Products of what is at least zero.                                      *)
LEMMA ProductNat ==
    ASSUME NEW a \in Nat, NEW b \in Nat
    PROVE  a * b \in Nat
OBVIOUS

LEMMA ProductMono ==
    ASSUME NEW a \in Nat, NEW b \in Int, NEW c \in Int, b <= c
    PROVE  a * b <= a * c
<1>1. c - b \in Nat
  OBVIOUS
<1>2. a * (c - b) \in Nat
  BY <1>1, ProductNat
<1>3. a * (c - b) = a * c - a * b
  OBVIOUS
<1> QED  BY <1>2, <1>3

LEMMA Pow2Order ==
    ASSUME NEW m \in Nat, NEW n \in Nat, m <= n
    PROVE  pow2[n] = pow2[m] * pow2[n - m] /\ pow2[m] <= pow2[n]
<1>1. n - m \in Nat /\ m + (n - m) = n
  OBVIOUS
<1>2. pow2[n] = pow2[m] * pow2[n - m]
  BY <1>1, Pow2Sum
<1>3. pow2[m] \in Nat /\ pow2[n - m] \in Nat /\ 1 <= pow2[n - m]
  BY <1>1, Pow2Positive
<1>4. pow2[m] * 1 <= pow2[m] * pow2[n - m]
  BY <1>3, ProductMono
<1> QED  BY <1>2, <1>3, <1>4

(* A quotient is where its multiple of the divisor lies.                   *)
LEMMA Quotient ==
    ASSUME NEW a \in Int, NEW b \in Nat, b > 0
    PROVE  /\ a \div b \in Int /\ a % b \in Int /\ 0 <= a % b /\ a % b < b
           /\ a = b * (a \div b) + (a % b)
OBVIOUS

LEMMA QuotientIs ==
    ASSUME NEW a \in Int, NEW b \in Nat, b > 0, NEW q \in Int, b * q <= a, a < b * q + b
    PROVE  a \div b = q
<1> DEFINE p == a \div b
<1>1. p \in Int /\ b * p <= a /\ a < b * p + b
  BY Quotient
<1> HIDE DEF p
<1>2. ~(p >= q + 1)
  <2>1. ASSUME q + 1 <= p PROVE FALSE
    <3>1. b * (q + 1) <= b * p
      BY <1>1, <2>1, ProductMono
    <3>2. b * (q + 1) = b * q + b
      OBVIOUS
    <3> QED  BY <1>1, <3>1, <3>2
  <2> QED  BY <1>1, <2>1
<1>3. ~(q >= p + 1)
  <2>1. ASSUME p + 1 <= q PROVE FALSE
    <3>1. b * (p + 1) <= b * q
      BY <1>1, <2>1, ProductMono
    <3>2. b * (p + 1) = b * p + b
      BY <1>1
    <3>3. b * p \in Int /\ b * q \in Int
      BY <1>1
    <3> QED  BY <1>1, <3>1, <3>2, <3>3
  <2> QED  BY <1>1, <2>1
<1>4. p = q
  BY <1>1, <1>2, <1>3
<1> QED  BY <1>4 DEF p

(* Comparing a quotient is comparing with a product.                       *)
LEMMA QuotientBelow ==
    ASSUME NEW a \in Int, NEW b \in Nat, b > 0, NEW n \in Int
    PROVE  a \div b < n <=> a < b * n
<1> DEFINE p == a \div b
<1>1. p \in Int /\ b * p <= a /\ a < b * p + b /\ b * p \in Int /\ b * n \in Int
  BY Quotient
<1> HIDE DEF p
<1>2. ASSUME p + 1 <= n PROVE a < b * n
  <2>1. b * (p + 1) <= b * n /\ b * (p + 1) = b * p + b
    BY <1>1, <1>2, ProductMono
  <2> QED  BY <1>1, <2>1
<1>3. ASSUME n <= p PROVE b * n <= a
  <2>1. b * n <= b * p
    BY <1>1, <1>3, ProductMono
  <2> QED  BY <1>1, <2>1
<1>4. p < n <=> a < b * n
  BY <1>1, <1>2, <1>3
<1> QED  BY <1>4 DEF p

(* Widths of samples as powers.                                            *)
LEMMA Pow2Widths ==
    /\ pow2[8] = 2 ^ 8 /\ pow2[16] = 2 ^ 16 /\ pow2[24] = 2 ^ 24
    /\ pow2[7] = 2 ^ 7 /\ pow2[15] = 2 ^ 15 /\ pow2[23] = 2 ^ 23 /\ pow2[31] = 2 ^ 31
<1> DEFINE sum(k, m, n) == k = m + n => pow2[k] = pow2[m] * pow2[n]
<1>0. \A k, m, n \in Nat : sum(k, m, n)
  BY Pow2Sum
<1>1. pow2[1] = 2
  <2>1. 1 \in Nat /\ 1 # 0 /\ 1 - 1 = 0
    OBVIOUS
  <2>2. pow2[1] = 2 * pow2[1 - 1]
    BY <2>1, Pow2Doubles
  <2> QED  BY <2>1, <2>2, Pow2Doubles
<1>2. sum(2, 1, 1) /\ sum(4, 2, 2) /\ sum(8, 4, 4) /\ sum(3, 2, 1) /\ sum(7, 4, 3)
  <2> HIDE DEF sum
  <2> QED  BY <1>0
<1>3. sum(16, 8, 8) /\ sum(15, 8, 7) /\ sum(24, 16, 8) /\ sum(23, 16, 7) /\ sum(31, 24, 7)
  <2> HIDE DEF sum
  <2> QED  BY <1>0
<1>4. pow2[2] = 4 /\ pow2[3] = 8 /\ pow2[4] = 16 /\ pow2[7] = 128 /\ pow2[8] = 256
  BY <1>1, <1>2
<1>5. pow2[16] = 2 ^ 16 /\ pow2[15] = 2 ^ 15
  BY <1>3, <1>4, SMT
<1>6. pow2[24] = 2 ^ 24 /\ pow2[23] = 2 ^ 23 /\ pow2[31] = 2 ^ 31
  BY <1>3, <1>4, <1>5, SMT
<1> QED  BY <1>4, <1>5, <1>6, SMT

-----------------------------------------------------------------------------
(* Floats.                                                                 *)

LEMMA OneIsTwoHalves ==
    /\ FloatUnit \in Nat /\ FloatUnit - 1 \in Nat /\ FloatPrecision \in Nat
    /\ one = pow2[FloatUnit] /\ half = pow2[FloatUnit - 1] /\ one = 2 * half
    /\ one \in Nat /\ half \in Nat /\ half > 0
<1>1. FloatUnit \in Nat /\ FloatUnit # 0 /\ FloatUnit - 1 \in Nat /\ FloatPrecision \in Nat
  BY SamplesAssumption
<1>2. pow2[FloatUnit] = 2 * pow2[FloatUnit - 1]
  BY <1>1, Pow2Doubles
<1>3. pow2[FloatUnit - 1] \in Nat /\ pow2[FloatUnit - 1] > 0
  BY <1>1, Pow2Positive
<1> QED  BY <1>1, <1>2, <1>3 DEF one, half

(* The exponent of the last place of a number of more bits than a          *)
(* significand has.                                                        *)
excessOf(m) == CHOOSE e \in 0 .. FloatUnit + 32 :
                  /\ m \div pow2[e] < pow2[FloatPrecision]
                  /\ e > 0 => m \div pow2[e - 1] >= pow2[FloatPrecision]

LEMMA BitsBelow ==
    ASSUME NEW x \in Nat, NEW e \in Nat
    PROVE  x \div pow2[e] < pow2[FloatPrecision] <=> x < pow2[FloatPrecision + e]
<1>1. pow2[e] \in Nat /\ pow2[e] > 0 /\ pow2[FloatPrecision] \in Int
  BY OneIsTwoHalves, Pow2Positive
<1>2. pow2[FloatPrecision + e] = pow2[e] * pow2[FloatPrecision]
  BY <1>1, OneIsTwoHalves, Pow2Sum
<1> QED  BY <1>1, <1>2, QuotientBelow

LEMMA Excess ==
    ASSUME NEW x \in Nat, x < pow2[FloatPrecision + FloatUnit]
    PROVE  /\ excessOf(x) \in 0 .. FloatUnit
           /\ x < pow2[FloatPrecision + excessOf(x)]
           /\ excessOf(x) > 0 => pow2[FloatPrecision + (excessOf(x) - 1)] <= x
<1> DEFINE P == FloatPrecision
           W == FloatUnit
           e == excessOf(x)
           enough == {n \in Nat : x < pow2[P + n]}
           right(n) == /\ x \div pow2[n] < pow2[P]
                       /\ n > 0 => x \div pow2[n - 1] >= pow2[P]
<1>0. P \in Nat /\ W \in Nat
  BY OneIsTwoHalves
<1>1. ASSUME NEW n \in Nat
      PROVE  right(n) <=> x < pow2[P + n] /\ (n > 0 => pow2[P + (n - 1)] <= x)
  <2>1. x \div pow2[n] < pow2[P] <=> x < pow2[P + n]
    BY BitsBelow
  <2>2. ASSUME n > 0 PROVE x \div pow2[n - 1] >= pow2[P] <=> pow2[P + (n - 1)] <= x
    <3>1. n - 1 \in Nat
      BY <2>2
    <3>2. x \div pow2[n - 1] < pow2[P] <=> x < pow2[P + (n - 1)]
      BY <3>1, BitsBelow
    <3>3. /\ pow2[P + (n - 1)] \in Int /\ pow2[P] \in Int /\ pow2[n - 1] \in Nat
          /\ pow2[n - 1] > 0
      BY <1>0, <3>1, Pow2Positive
    <3>4. x \div pow2[n - 1] \in Int
      BY <3>3, Quotient
    <3> QED  BY <3>2, <3>3, <3>4
  <2> QED  BY <2>1, <2>2
<1>2. \E n \in 0 .. (W + 32) : right(n)
  <2>1. W \in enough /\ enough \subseteq Nat
    BY <1>0
  <2>2. PICK n \in enough : \A y \in enough : n <= y
    <3> HIDE DEF enough
    <3> QED  BY <2>1, Least
  <2>3. n \in Nat /\ x < pow2[P + n] /\ n <= W
    BY <2>1, <2>2
  <2>4. ASSUME n > 0 PROVE pow2[P + (n - 1)] <= x
    <3>1. n - 1 \in Nat /\ ~(n <= n - 1)
      BY <2>3, <2>4
    <3>2. n - 1 \notin enough
      BY <2>2, <3>1
    <3>3. pow2[P + (n - 1)] \in Nat
      BY <1>0, <3>1, Pow2Positive
    <3> QED  BY <3>1, <3>2, <3>3
  <2>5. right(n)
    <3> HIDE DEF right, P, W
    <3> QED  BY <1>1, <2>3, <2>4
  <2>6. n \in 0 .. (W + 32)
    BY <1>0, <2>3
  <2> QED  BY <2>5, <2>6
<1>3. e \in 0 .. (W + 32) /\ right(e)
  <2>1. e = CHOOSE n \in 0 .. (W + 32) : right(n)
    BY Zenon DEF excessOf
  <2> HIDE DEF right, e
  <2> QED  BY <1>2, <2>1, Zenon
<1>4. e \in Nat
  BY <1>0, <1>3
<1>5. x < pow2[P + e] /\ (e > 0 => pow2[P + (e - 1)] <= x)
  <2> HIDE DEF right, e, P, W
  <2> QED  BY <1>1, <1>3, <1>4
<1>6. e <= W
  <2>1. ASSUME ~(e <= W) PROVE FALSE
    <3>1. e > 0 /\ P + W \in Nat /\ P + (e - 1) \in Nat /\ P + W <= P + (e - 1)
      BY <1>0, <1>4, <2>1
    <3>2. pow2[P + W] <= pow2[P + (e - 1)] /\ pow2[P + W] \in Nat /\ pow2[P + (e - 1)] \in Nat
      BY <3>1, Pow2Order, Pow2Positive
    <3> QED  BY <1>5, <3>1, <3>2
  <2> QED  BY <2>1
<1> QED  BY <1>0, <1>4, <1>5, <1>6

(* Rounding goes to a multiple of the last place: the one below, or the    *)
(* one above when that is not farther.                                     *)
LEMMA RoundedIs ==
    ASSUME NEW x \in Nat, excessOf(x) \in Nat
    PROVE  LET ulp == pow2[excessOf(x)]
               low == x \div ulp
           IN \/ rounded(x) = ulp * low
              \/ rounded(x) = ulp * low + ulp /\ 2 * (x % ulp) >= ulp
<1> DEFINE ulp == pow2[excessOf(x)]
           low == x \div ulp
           above == 2 * (x % ulp)
<1>1. rounded(x) = IF above > ulp \/ (above = ulp /\ low % 2 = 1) THEN (low + 1) * ulp ELSE low * ulp
  BY Zenon DEF rounded, excessOf
<1>2. ulp \in Nat /\ ulp > 0
  BY Pow2Positive
<1> HIDE DEF ulp
<1>3. low \in Int /\ x % ulp \in Int
  BY <1>2, Quotient
<1>4. above \in Int
  BY <1>3
<1> HIDE DEF low, above
<1>5. (low + 1) * ulp = ulp * low + ulp /\ low * ulp = ulp * low
  BY <1>2, <1>3
<1>6. rounded(x) = ulp * low \/ (rounded(x) = ulp * low + ulp /\ above >= ulp)
  BY <1>1, <1>2, <1>4, <1>5
<1> QED  BY <1>6 DEF ulp, low, above

(* A float at or past the start of a binade is a whole number of the units *)
(* in which floats of that binade are told apart.                          *)
LEMMA Granular ==
    ASSUME NEW q \in Nat, NEW k \in Nat, NEW P \in Nat, NEW e \in Nat, e > 0,
           q < pow2[P], pow2[P + (e - 1)] <= q * pow2[k]
    PROVE  \E a \in Nat : q * pow2[k] = pow2[e] * a
<1>1. CASE k >= e
  <2>1. pow2[k] = pow2[e] * pow2[k - e]
    BY <1>1, Pow2Order
  <2>2. k - e \in Nat
    BY <1>1
  <2>3. pow2[k - e] \in Nat /\ pow2[e] \in Nat
    BY <2>2, Pow2Positive
  <2>4. q * pow2[k - e] \in Nat
    BY <2>3, ProductNat
  <2>5. q * pow2[k] = pow2[e] * (q * pow2[k - e])
    BY <2>1, <2>3
  <2> QED  BY <2>4, <2>5
<1>2. CASE k < e
  <2>1. e - 1 \in Nat /\ k <= e - 1
    BY <1>2
  <2>2. pow2[k] <= pow2[e - 1] /\ pow2[k] \in Nat /\ pow2[e - 1] \in Nat /\ pow2[e - 1] > 0
        /\ pow2[P] \in Nat
    BY <2>1, Pow2Order, Pow2Positive
  <2>3. pow2[P + (e - 1)] = pow2[P] * pow2[e - 1]
    BY <2>1, Pow2Sum
  <2>4. q * pow2[k] <= q * pow2[e - 1]
    BY <2>2, ProductMono
  <2>5. pow2[e - 1] * (q + 1) <= pow2[e - 1] * pow2[P]
    BY <2>2, ProductMono
  <2>6. pow2[e - 1] * (q + 1) = q * pow2[e - 1] + pow2[e - 1]
    <3>1. \A a, b \in Nat : a * (b + 1) = b * a + a
      OBVIOUS
    <3> QED  BY <2>2, <3>1
  <2>7. q * pow2[k] \in Nat /\ q * pow2[e - 1] \in Nat
    BY <2>2, ProductNat
  <2>8. pow2[e - 1] * pow2[P] = pow2[P] * pow2[e - 1] /\ pow2[P] * pow2[e - 1] \in Nat
    BY <2>2, ProductNat
  <2> QED  BY <2>2, <2>3, <2>4, <2>5, <2>6, <2>7, <2>8
<1> QED  BY <1>1, <1>2

(* The rounded sum never reaches an integer that the exact sum is below:   *)
(* only a sum that has left the binade of its float is rounded at all.     *)
LEMMA SumKeepsFloor ==
    ASSUME NEW u \in Nat, NEW t \in Nat, t + 1 <= FloatPrecision,
           half <= u, u < pow2[t] * one,
           NEW q \in Nat, NEW k \in Nat, q < pow2[FloatPrecision], u = q * pow2[k]
    PROVE  rounded(u + half) \div one = (u + half) \div one
<1> DEFINE P == FloatPrecision
           W == FloatUnit
           x == u + half
           e == excessOf(x)
           ulp == pow2[e]
           low == x \div ulp
           r == x % ulp
           floor == x \div one
           R == rounded(x)
<1>1. /\ W \in Nat /\ W - 1 \in Nat /\ P \in Nat /\ one = 2 * half
      /\ one \in Nat /\ half \in Nat /\ half > 0 /\ one > 0 /\ x \in Nat
      /\ one = pow2[W] /\ half = pow2[W - 1]
  BY OneIsTwoHalves
<1>2. x < pow2[P + W]
  <2>1. pow2[t] \in Nat /\ pow2[t] > 0 /\ pow2[t + 1] = 2 * pow2[t] /\ t + 1 \in Nat
    BY Pow2Positive, Pow2Doubles
  <2>2. one * 1 <= one * pow2[t] /\ one * pow2[t] = pow2[t] * one /\ pow2[t] * one \in Nat
    BY <1>1, <2>1, ProductMono
  <2>3. x < 2 * (pow2[t] * one)
    BY <1>1, <2>2
  <2>4. pow2[(t + 1) + W] = pow2[t + 1] * one
    <3>1. pow2[(t + 1) + W] = pow2[t + 1] * pow2[W]
      <4> HIDE DEF W
      <4> QED  BY <1>1, <2>1, Pow2Sum
    <3> HIDE DEF W
    <3> QED  BY <1>1, <3>1
  <2>5. pow2[t + 1] * one = 2 * (pow2[t] * one)
    BY <1>1, <2>1
  <2>6. pow2[(t + 1) + W] <= pow2[P + W]
    <3>1. (t + 1) + W \in Nat /\ P + W \in Nat /\ (t + 1) + W <= P + W
      BY <1>1
    <3> QED  BY <3>1, Pow2Order
  <2>7. pow2[P + W] \in Nat /\ pow2[(t + 1) + W] \in Nat
    BY <1>1, Pow2Positive
  <2> QED  BY <1>1, <2>2, <2>3, <2>4, <2>5, <2>6, <2>7
<1>3. /\ e \in Nat /\ e <= W /\ x < pow2[P + e]
      /\ e > 0 => pow2[P + (e - 1)] <= x
  <2> HIDE DEF x
  <2> QED  BY <1>1, <1>2, Excess
<1>4. /\ ulp \in Nat /\ ulp > 0 /\ low \in Int /\ r \in Int /\ 0 <= r /\ r < ulp
      /\ x = ulp * low + r /\ ulp * low \in Int
  <2>1. ulp \in Nat /\ ulp > 0
    BY <1>3, Pow2Positive
  <2> HIDE DEF ulp, x
  <2> QED  BY <1>1, <2>1, Quotient
<1>5. R = ulp * low \/ (R = ulp * low + ulp /\ 2 * r >= ulp)
  <2> HIDE DEF x
  <2> QED  BY <1>1, <1>3, RoundedIs
<1>6. /\ floor \in Int /\ one * floor \in Int /\ one * floor <= x /\ x < one * floor + one
  <2> DEFINE rest == x % one
  <2>1. /\ floor \in Int /\ rest \in Int /\ 0 <= rest /\ rest < one
        /\ x = one * floor + rest
    <3>1. x \in Int /\ one \in Nat /\ one > 0
      BY <1>1
    <3> HIDE DEF x
    <3> QED  BY <3>1, Quotient, Zenon
  <2> HIDE DEF x, floor, rest
  <2>2. one * floor \in Int
    BY <1>1, <2>1
  <2> QED  BY <1>1, <2>1, <2>2
<1>7. PICK c \in Nat : one = ulp * c
  <2>1. pow2[W] = pow2[e] * pow2[W - e] /\ W - e \in Nat
    <3> HIDE DEF e, W
    <3> QED  BY <1>1, <1>3, Pow2Order
  <2>2. pow2[W - e] \in Nat
    BY <2>1, Pow2Positive
  <2> QED  BY <1>1, <2>1, <2>2
<1>8. one * floor = ulp * (c * floor) /\ one * floor + one = ulp * (c * floor + c)
      /\ c * floor \in Int
  <2> HIDE DEF ulp, floor, e, x
  <2> QED  BY <1>4, <1>6, <1>7
<1> HIDE DEF P, W, e, ulp, low, r, floor, R
<1>9. CASE R = ulp * low
  <2>1. one * floor <= R
    <3>1. CASE low + 1 <= c * floor
      <4>1. ulp * (low + 1) <= ulp * (c * floor)
        BY <1>4, <1>8, <3>1, ProductMono
      <4>2. ulp * (low + 1) = ulp * low + ulp
        BY <1>4
      <4> QED  BY <1>4, <1>6, <1>8, <4>1, <4>2
    <3>2. CASE c * floor <= low
      <4>1. ulp * (c * floor) <= ulp * low
        BY <1>4, <1>8, <3>2, ProductMono
      <4> QED  BY <1>8, <1>9, <4>1
    <3> QED  BY <1>4, <1>8, <3>1, <3>2
  <2>2. R \in Int /\ R < one * floor + one
    BY <1>1, <1>4, <1>6, <1>9
  <2>3. R \div one = floor
    BY <1>1, <1>6, <2>1, <2>2, QuotientIs
  <2> QED  BY <2>3 DEF R, floor
<1>10. CASE R = ulp * low + ulp /\ 2 * r >= ulp
  <2>1. R \in Int /\ one * floor <= R
    BY <1>1, <1>4, <1>6, <1>10
  <2>2. e > 0
    <3>1. CASE e = 0
      <4>1. ulp = 1
        BY <3>1, Pow2Doubles DEF ulp
      <4> QED  BY <1>4, <1>10, <4>1
    <3> QED  BY <1>3, <3>1
  <2>3. R <= one * floor + one
    <3>1. CASE c * floor + c <= low
      <4>1. ulp * (c * floor + c) <= ulp * low
        BY <1>4, <1>8, <3>1, ProductMono
      <4> QED  BY <1>1, <1>4, <1>6, <1>8, <4>1
    <3>2. CASE low + 1 <= c * floor + c
      <4>1. ulp * (low + 1) <= ulp * (c * floor + c)
        BY <1>4, <1>8, <3>2, ProductMono
      <4>2. ulp * (low + 1) = ulp * low + ulp
        BY <1>4
      <4> QED  BY <1>8, <1>10, <4>1, <4>2
    <3> QED  BY <1>4, <1>8, <3>1, <3>2
  <2>4. ASSUME R = one * floor + one PROVE FALSE
    <3> DEFINE B == pow2[P + (e - 1)]
    <3>1. B <= x /\ B \in Nat
      BY <1>1, <1>3, <2>2, Pow2Positive
    <3>2. CASE e = W
      <4>1. ulp = one
        BY <1>1, <3>2 DEF ulp
      <4>2. pow2[t] * one <= x
        <5>1. t + W \in Nat /\ P + (e - 1) \in Nat /\ t + W <= P + (e - 1)
          BY <1>1, <3>2 DEF P
        <5>2. pow2[t + W] <= B
          BY <5>1, Pow2Order
        <5>3. pow2[t + W] = pow2[t] * one
          <6>1. pow2[t + W] = pow2[t] * pow2[W]
            BY <1>1, Pow2Sum
          <6> HIDE DEF W
          <6> QED  BY <1>1, <6>1
        <5>4. pow2[t + W] \in Nat
          BY <5>1, Pow2Positive
        <5> QED  BY <1>1, <3>1, <5>2, <5>3, <5>4
      <4>3. pow2[t] \in Nat /\ one * pow2[t] = pow2[t] * one /\ one * pow2[t] \in Nat
        <5>1. pow2[t] \in Nat
          BY Pow2Positive
        <5> QED  BY <1>1, <5>1
      <4>4. x < one * pow2[t] + half
        BY <1>1, <4>3
      <4>5. x \div one = pow2[t]
        <5>1. /\ x \in Int /\ pow2[t] \in Int
              /\ one * pow2[t] <= x /\ x < one * pow2[t] + one
          BY <1>1, <4>2, <4>3, <4>4
        <5> HIDE DEF x
        <5> QED  BY <1>1, <5>1, QuotientIs, Zenon
      <4>6. low = pow2[t]
        BY <4>1, <4>5 DEF low
      <4>7. r = x - one * pow2[t]
        BY <1>4, <4>1, <4>3, <4>6
      <4> QED  BY <1>1, <1>4, <1>10, <4>1, <4>3, <4>4, <4>7
    <3>3. CASE e <= W - 1
      <4>1. PICK h \in Nat : half = ulp * h
        <5>1. pow2[W - 1] = pow2[e] * pow2[(W - 1) - e] /\ (W - 1) - e \in Nat
          BY <1>1, <1>3, <3>3, Pow2Order
        <5>2. pow2[(W - 1) - e] \in Nat
          BY <5>1, Pow2Positive
        <5> QED  BY <1>1, <5>1, <5>2 DEF ulp
      <4>2. ulp <= half
        <5>1. h # 0
          BY <1>1, <1>4, <4>1
        <5>2. ulp * 1 <= ulp * h
          BY <1>4, <5>1, ProductMono
        <5> QED  BY <1>4, <4>1, <5>2
      <4>3. CASE B <= u
        <5>1. PICK a \in Nat : u = ulp * a
          <6>1. e \in Nat /\ e > 0 /\ P \in Nat /\ q < pow2[P] /\ pow2[P + (e - 1)] <= q * pow2[k]
            BY <1>1, <1>3, <2>2, <4>3 DEF P
          <6> HIDE DEF B
          <6>2. \E a \in Nat : q * pow2[k] = pow2[e] * a
            BY <6>1, Granular
          <6> QED  BY <6>2 DEF ulp
        <5>2. x = ulp * (a + h)
          BY <1>1, <1>4, <4>1, <5>1
        <5>3. x \div ulp = a + h
          <6> HIDE DEF x
          <6>1. ulp * (a + h) \in Int
            BY <1>4
          <6> QED  BY <1>1, <1>4, <5>2, <6>1, QuotientIs
        <5>4. low = a + h
          BY <5>3 DEF low
        <5> QED  BY <1>4, <1>10, <5>2, <5>4
      <4>4. CASE u < B
        <5>1. CASE P + (e - 1) <= W - 1
          <6>1. P + (e - 1) \in Nat
            BY <1>1, <1>3, <2>2
          <6>2. B <= half
            BY <1>1, <5>1, <6>1, Pow2Order
          <6> QED  BY <1>1, <3>1, <4>4, <6>2
        <5>2. CASE W <= P + (e - 1)
          <6>1. P + (e - 1) \in Nat
            BY <1>1, <1>3, <2>2
          <6>2. B = one * pow2[(P + (e - 1)) - W] /\ (P + (e - 1)) - W \in Nat
            <7>1. (P + (e - 1)) - W \in Nat
              BY <1>1, <5>2, <6>1
            <7>2. pow2[P + (e - 1)] = pow2[W] * pow2[(P + (e - 1)) - W]
              BY <1>1, <5>2, <6>1, Pow2Order, Zenon
            <7> QED  BY <1>1, <7>1, <7>2, Zenon
          <6> DEFINE b == pow2[(P + (e - 1)) - W]
          <6>3. b \in Nat /\ B = one * b
            BY <6>2, Pow2Positive
          <6> HIDE DEF b, B, x
          <6>4. b <= floor
            <7>1. ASSUME floor + 1 <= b PROVE FALSE
              <8>1. one * (floor + 1) <= one * b
                BY <1>1, <1>6, <6>3, <7>1, ProductMono
              <8>2. one * (floor + 1) = one * floor + one
                <9>1. \A a \in Nat, n \in Int : a * (n + 1) = a * n + a
                  OBVIOUS
                <9> QED  BY <1>1, <1>6, <9>1
              <8> QED  BY <1>1, <1>6, <3>1, <6>3, <8>1, <8>2
            <7> QED  BY <1>6, <6>3, <7>1
          <6>5. B <= one * floor
            BY <1>1, <1>6, <6>3, <6>4, ProductMono
          <6>6. x < one * floor + half
            BY <1>1, <1>6, <3>1, <4>4, <6>5 DEF x
          <6>7. x = (one * floor + one) - (ulp - r)
            BY <1>1, <1>4, <1>6, <1>10, <2>4
          <6> QED  BY <1>1, <1>4, <1>6, <1>10, <4>2, <6>6, <6>7
        <5> QED  BY <1>1, <1>3, <5>1, <5>2
      <4> QED  BY <1>1, <3>1, <4>3, <4>4
    <3> QED  BY <1>1, <1>3, <3>2, <3>3
  <2>5. R < one * floor + one
    <3>1. R # one * floor + one
      BY <2>4
    <3> QED  BY <1>1, <1>6, <2>1, <2>3, <3>1
  <2>6. R \div one = floor
    BY <1>1, <1>6, <2>1, <2>5, QuotientIs
  <2> QED  BY <2>6 DEF R, floor
<1> QED  BY <1>5, <1>9, <1>10

LEMMA Scales ==
    ASSUME NEW bits \in Depths
    PROVE  /\ bits - 8 \in Nat /\ bits - 1 \in Nat /\ (bits - 1) + 1 = bits
           /\ 2 ^ (bits - 8) = pow2[bits - 8] /\ 2 ^ (bits - 1) = pow2[bits - 1]
           /\ pow2[bits - 1] \in Nat /\ pow2[bits - 1] > 0
           /\ pow2[bits - 8] \in Nat
<1>1. bits - 8 \in Nat /\ bits - 1 \in Nat /\ (bits - 1) + 1 = bits
  BY DEF Depths
<1>2. pow2[0] = 1 /\ pow2[0] = 2 ^ 0
  BY Pow2Doubles, SMT
<1>3. CASE bits = 8
  <2>1. bits - 8 = 0 /\ bits - 1 = 7
    BY <1>3
  <2> QED  BY <1>1, <1>2, <2>1, Pow2Widths, Pow2Positive, Zenon
<1>4. CASE bits = 16
  <2>1. bits - 8 = 8 /\ bits - 1 = 15
    BY <1>4
  <2> QED  BY <1>1, <2>1, Pow2Widths, Pow2Positive, Zenon
<1>5. CASE bits = 24
  <2>1. bits - 8 = 16 /\ bits - 1 = 23
    BY <1>5
  <2> QED  BY <1>1, <2>1, Pow2Widths, Pow2Positive, Zenon
<1>6. CASE bits = 32
  <2>1. bits - 8 = 24 /\ bits - 1 = 31
    BY <1>6
  <2> QED  BY <1>1, <2>1, Pow2Widths, Pow2Positive, Zenon
<1> QED  BY <1>3, <1>4, <1>5, <1>6 DEF Depths

magnitude(v) == IF v < 0 THEN -v ELSE v

(* Scaling moves the exponent and keeps the significand.                   *)
LEMMA ScaledFloat ==
    ASSUME NEW m \in Int, Representable(m), NEW s \in Nat
    PROVE  \E q, k \in Nat : q < pow2[FloatPrecision] /\ magnitude(m * pow2[s]) = q * pow2[k]
<1> DEFINE a == magnitude(m)
<1>1. a \in Nat
  BY DEF magnitude
<1>2. PICK e \in 0 .. a : a % pow2[e] = 0 /\ a \div pow2[e] < pow2[FloatPrecision]
  BY Zenon DEF Representable, magnitude
<1> HIDE DEF a
<1>3. e \in Nat /\ pow2[e] \in Nat /\ pow2[e] > 0 /\ pow2[s] \in Nat /\ pow2[s] > 0
  BY <1>1, <1>2, Pow2Positive
<1> DEFINE q == a \div pow2[e]
<1>4. q \in Int /\ a = pow2[e] * q
  BY <1>1, <1>2, <1>3, Quotient
<1> HIDE DEF q
<1>5. q \in Nat
  <2>1. ASSUME q <= 0 - 1 PROVE FALSE
    <3>1. pow2[e] * q <= pow2[e] * (0 - 1)
      BY <1>3, <1>4, <2>1, ProductMono
    <3>2. pow2[e] * (0 - 1) = 0 - pow2[e]
      BY <1>3
    <3> QED  BY <1>1, <1>3, <1>4, <3>1, <3>2
  <2> QED  BY <1>4, <2>1
<1>6. pow2[e + s] = pow2[e] * pow2[s] /\ e + s \in Nat
  BY <1>3, Pow2Sum
<1>7. magnitude(m * pow2[s]) = a * pow2[s]
  <2> DEFINE p == pow2[s]
  <2>1. p \in Nat /\ p > 0
    BY <1>3
  <2> SUFFICES magnitude(m * p) = a * p
    OBVIOUS
  <2> HIDE DEF p
  <2>2. CASE m < 0
    <3>1. -m \in Nat /\ 1 <= -m
      BY <2>2
    <3>2. p * 1 <= p * (-m)
      BY <2>1, <3>1, ProductMono
    <3>3. m * p = -(p * (-m)) /\ (-m) * p = p * (-m) /\ p * (-m) \in Int /\ p * 1 = p
      BY <2>1
    <3> DEFINE n == m * p
    <3>4. n \in Int /\ n < 0 /\ -n = (-m) * p
      BY <2>1, <3>2, <3>3
    <3> HIDE DEF n
    <3>5. magnitude(n) = -n
      BY <3>4 DEF magnitude
    <3>6. a = -m
      BY <2>2 DEF magnitude, a
    <3> QED  BY <3>4, <3>5, <3>6, Zenon DEF n
  <2>3. CASE ~(m < 0)
    <3>1. m \in Nat
      BY <2>3
    <3> DEFINE n == m * p
    <3>2. n \in Nat
      BY <2>1, <3>1, ProductNat
    <3> HIDE DEF n
    <3>3. magnitude(n) = n
      BY <3>2 DEF magnitude
    <3>4. a = m
      BY <2>3 DEF magnitude, a
    <3> QED  BY <3>3, <3>4, Zenon DEF n
  <2> QED  BY <2>2, <2>3
<1>8. a * pow2[s] = q * pow2[e + s]
  BY <1>3, <1>4, <1>5, <1>6
<1> QED  BY <1>2, <1>5, <1>6, <1>7, <1>8 DEF q

LEMMA NearestIs ==
    ASSUME NEW u \in Nat
    PROVE  /\ (2 * u + one) \div (2 * one) = (u + half) \div one
           /\ (u + half) \div one \in Int
           /\ nearest(u) = (u + half) \div one
           /\ u > 0 => nearest(-u) = -((u + half) \div one)
<1> DEFINE q == (u + half) \div one
<1>1. one = 2 * half /\ one \in Nat /\ half \in Nat /\ half > 0 /\ one > 0
  BY OneIsTwoHalves
<1>2. q \in Int /\ one * q <= u + half /\ u + half < one * q + one /\ one * q \in Int
  <2>1. u + half \in Int
    BY <1>1
  <2> DEFINE r == (u + half) % one
  <2>2. q \in Int /\ r \in Int /\ 0 <= r /\ r < one /\ u + half = one * q + r
    BY <1>1, <2>1, Quotient, Zenon
  <2> HIDE DEF q, r
  <2>3. one * q \in Int
    BY <1>1, <2>2
  <2> QED  BY <1>1, <2>2, <2>3
<1>3. (2 * u + one) \div (2 * one) = q
  <2> HIDE DEF q
  <2> DEFINE a == 2 * u + one
             b == 2 * one
  <2>1. a \in Int /\ b \in Nat /\ b > 0 /\ b * q = 2 * (one * q)
    BY <1>1, <1>2
  <2>2. b * q <= a /\ a < b * q + b
    BY <1>1, <1>2, <2>1
  <2> HIDE DEF a, b
  <2>3. a \div b = q
    BY <1>2, <2>1, <2>2, QuotientIs
  <2> QED  BY <2>3 DEF a, b
<1>4. nearest(u) = q
  <2>1. nearest(u) = (2 * u + one) \div (2 * one)
    BY DEF nearest
  <2> QED  BY <1>3, <2>1
<1>5. ASSUME u > 0 PROVE nearest(-u) = -q
  <2>1. ~(-u >= 0) /\ one - 2 * (-u) = 2 * u + one
    BY <1>1, <1>5
  <2>2. nearest(-u) = -((one - 2 * (-u)) \div (2 * one))
    BY <2>1, Zenon DEF nearest
  <2> QED  BY <1>3, <2>1, <2>2
<1> QED  BY <1>2, <1>3, <1>4, <1>5

(* Half a step and more, short of full scale, comes out as the sum says.   *)
LEMMA SumIsNearest ==
    ASSUME NEW bits \in Depths, bits <= FloatPrecision, NEW u \in Nat,
           half <= u, u < pow2[bits - 1] * one,
           \E q, k \in Nat : q < pow2[FloatPrecision] /\ u = q * pow2[k]
    PROVE  rounded(u + half) \div one = (u + half) \div one
<1>1. bits - 1 \in Nat /\ (bits - 1) + 1 <= FloatPrecision
  BY Scales
<1>2. PICK q, k \in Nat : q < pow2[FloatPrecision] /\ u = q * pow2[k]
  OBVIOUS
<1> DEFINE t == bits - 1
<1>3. t \in Nat /\ t + 1 <= FloatPrecision /\ u < pow2[t] * one
  BY <1>1
<1> HIDE DEF t
<1> QED  BY <1>2, <1>3, SumKeepsFloor

LEMMA QuantizeIsNearest ==
    ASSUME NEW f \in Floats, NEW bits \in Depths, bits <= FloatPrecision
    PROVE  quantize(f, bits) = intendedFloat(f, bits) /\ Fits(quantize(f, bits), bits)
<1> DEFINE full == 2 ^ (bits - 1)
           v == f.m * 2 ^ (bits - 8)
           u == magnitude(v)
           n == (u + half) \div one
<1>1. f.kind \in {"finite", "NaN", "+Inf", "-Inf"} /\ f.m \in Int /\ Representable(f.m)
  BY DEF Floats
<1>2. quantize(f, bits) =
        IF f.kind = "+Inf" \/ (f.kind = "finite" /\ v >= (full - 1) * one) THEN full - 1
        ELSE IF f.kind = "-Inf" \/ (f.kind = "finite" /\ v <= -full * one) THEN -full
        ELSE IF f.kind = "NaN" \/ (v > -half /\ v < half) THEN 0
        ELSE IF v >= 0 THEN rounded(v + half) \div one ELSE -(rounded(half - v) \div one)
  BY Zenon DEF quantize
<1>3. intendedFloat(f, bits) =
        IF f.kind = "finite" THEN clamped(nearest(v), bits)
        ELSE IF f.kind = "NaN" THEN 0
        ELSE clamped(IF f.kind = "+Inf" THEN full ELSE -full - 1, bits)
  BY Zenon DEF intendedFloat
<1>4. /\ full = pow2[bits - 1] /\ full \in Nat /\ full > 0
      /\ 2 ^ (bits - 8) = pow2[bits - 8] /\ pow2[bits - 8] \in Nat /\ bits - 8 \in Nat
  BY Scales
<1>5. v \in Int /\ v = f.m * pow2[bits - 8]
  <2>1. f.m * pow2[bits - 8] \in Int
    BY <1>1, <1>4
  <2> QED  BY <1>4, <2>1, Zenon
<1>6. \A x : clamped(x, bits) = IF x >= full THEN full - 1 ELSE IF x < -full THEN -full ELSE x
  BY Zenon DEF clamped
<1>7. \A x \in Int : 0 - full <= x /\ x < full => Fits(x, bits)
  BY DEF Fits
<1>8. \E q, k \in Nat : q < pow2[FloatPrecision] /\ u = q * pow2[k]
  <2>1. \E q, k \in Nat : q < pow2[FloatPrecision] /\ magnitude(f.m * pow2[bits - 8]) = q * pow2[k]
    BY <1>1, <1>4, ScaledFloat
  <2> HIDE DEF v
  <2> QED  BY <1>5, <2>1
<1> HIDE DEF full, v
<1>9. u \in Nat /\ (v >= 0 => u = v) /\ (v < 0 => u = -v /\ v = -u /\ u > 0)
  BY <1>5 DEF magnitude
<1>10. /\ one = 2 * half /\ one \in Nat /\ half \in Nat /\ half > 0 /\ one > 0
       /\ full * one \in Int /\ (full - 1) * one = full * one - one
       /\ -full * one = -(full * one) /\ one * full = full * one
  <2>1. one = 2 * half /\ one \in Nat /\ half \in Nat /\ half > 0 /\ one > 0
    BY OneIsTwoHalves
  <2> QED  BY <1>4, <2>1
<1> HIDE DEF u, n
<1>11. n \in Int /\ (v >= 0 => nearest(v) = n) /\ (v < 0 => nearest(v) = -n)
  BY <1>5, <1>9, NearestIs DEF n
<1>12. \A k \in Int : n < k <=> u + half < one * k
  BY <1>9, <1>10, QuotientBelow DEF n
<1>13. CASE f.kind = "+Inf"
  <2>1. quantize(f, bits) = full - 1 /\ intendedFloat(f, bits) = full - 1
    BY <1>2, <1>3, <1>4, <1>6, <1>13
  <2> QED  BY <1>4, <1>7, <2>1
<1>14. CASE f.kind = "-Inf"
  <2>1. quantize(f, bits) = -full
    BY <1>2, <1>14
  <2>2. intendedFloat(f, bits) = clamped(-full - 1, bits)
    BY <1>3, <1>14
  <2>3. clamped(-full - 1, bits) = -full
    BY <1>4, <1>6
  <2> QED  BY <1>4, <1>7, <2>1, <2>2, <2>3
<1>15. CASE f.kind = "NaN"
  <2>1. quantize(f, bits) = 0 /\ intendedFloat(f, bits) = 0
    BY <1>2, <1>3, <1>15
  <2> QED  BY <1>4, <1>7, <2>1
<1>16. CASE f.kind = "finite"
  <2>1. intendedFloat(f, bits) = clamped(nearest(v), bits)
    BY <1>3, <1>16
  <2>2. quantize(f, bits) =
          IF v >= (full - 1) * one THEN full - 1
          ELSE IF v <= -full * one THEN -full
          ELSE IF v > -half /\ v < half THEN 0
          ELSE IF v >= 0 THEN rounded(v + half) \div one ELSE -(rounded(half - v) \div one)
    BY <1>2, <1>16, Zenon
  <2>3. CASE v >= (full - 1) * one
    <3>1. quantize(f, bits) = full - 1
      BY <2>2, <2>3
    <3>2. (full - 1) * one >= 0
      BY <1>4, <1>10, ProductNat
    <3>3. v >= 0 /\ u = v
      BY <1>4, <1>5, <1>9, <1>10, <2>3, <3>2
    <3>4. one * (full - 1) = (full - 1) * one
      BY <1>4, <1>10
    <3>5. ~(n < full - 1)
      <4>1. n < full - 1 <=> u + half < one * (full - 1)
        BY <1>4, <1>12
      <4> QED  BY <1>5, <1>10, <2>3, <3>3, <3>4, <4>1
    <3>6. clamped(n, bits) = full - 1
      BY <1>4, <1>6, <1>11, <3>5
    <3> QED  BY <1>4, <1>7, <1>11, <2>1, <3>1, <3>3, <3>6
  <2>4. CASE ~(v >= (full - 1) * one) /\ v <= -full * one
    <3>1. quantize(f, bits) = -full
      BY <2>2, <2>4
    <3>2. full * one >= 0
      BY <1>4, <1>10, ProductNat
    <3>3. one * 1 <= one * full
      BY <1>4, <1>10, ProductMono
    <3>4. v < 0 /\ u >= full * one
      BY <1>5, <1>9, <1>10, <2>4, <3>2, <3>3
    <3>5. ~(n < full)
      <4>1. n < full <=> u + half < one * full
        BY <1>4, <1>12
      <4> QED  BY <1>9, <1>10, <3>4, <4>1
    <3>6. clamped(-n, bits) = -full
      BY <1>4, <1>6, <1>11, <3>5
    <3> QED  BY <1>4, <1>7, <1>11, <2>1, <3>1, <3>4, <3>6
  <2>5. CASE ~(v >= (full - 1) * one) /\ ~(v <= -full * one) /\ v > -half /\ v < half
    <3>1. quantize(f, bits) = 0
      BY <2>2, <2>5
    <3>2. u < half
      BY <1>5, <1>9, <1>10, <2>5
    <3>3. n < 1 /\ ~(n < 0)
      <4>1. /\ n < 1 <=> u + half < one * 1
            /\ n < 0 <=> u + half < one * 0
        BY <1>12
      <4> QED  BY <1>9, <1>10, <3>2, <4>1
    <3>4. n = 0
      BY <1>11, <3>3
    <3>5. nearest(v) = 0
      BY <1>5, <1>11, <3>4
    <3>6. clamped(0, bits) = 0
      BY <1>4, <1>6
    <3> QED  BY <1>4, <1>7, <2>1, <3>1, <3>5, <3>6
  <2>6. CASE ~(v >= (full - 1) * one) /\ ~(v <= -full * one) /\ ~(v > -half /\ v < half)
    <3>1. half <= u /\ u < full * one
      BY <1>5, <1>9, <1>10, <2>6
    <3>2. rounded(u + half) \div one = n
      BY <1>4, <1>8, <1>9, <3>1, SumIsNearest DEF n
    <3>3. ~(n < 0)
      <4>1. n < 0 <=> u + half < one * 0
        BY <1>12
      <4> QED  BY <1>9, <1>10, <4>1
    <3>4. CASE v >= 0
      <4>1. u = v
        BY <1>9, <3>4
      <4>2. quantize(f, bits) = n
        <5>1. quantize(f, bits) = rounded(v + half) \div one
          BY <2>2, <2>6, <3>4, Zenon
        <5> QED  BY <3>2, <4>1, <5>1, Zenon
      <4>3. n < full
        <5>1. n < full <=> u + half < one * full
          BY <1>4, <1>12
        <5> QED  BY <1>5, <1>10, <2>6, <4>1, <5>1
      <4>4. clamped(n, bits) = n
        BY <1>4, <1>6, <1>11, <3>3, <4>3
      <4>5. Fits(n, bits)
        BY <1>4, <1>7, <1>11, <3>3, <4>3
      <4> QED  BY <1>11, <2>1, <3>4, <4>2, <4>4, <4>5, Zenon
    <3>5. CASE v < 0
      <4>1. half - v = u + half
        BY <1>5, <1>9, <1>10, <3>5
      <4>2. quantize(f, bits) = -n
        <5>1. ~(v >= 0)
          BY <1>5, <3>5
        <5>2. quantize(f, bits) = -(rounded(half - v) \div one)
          BY <2>2, <2>6, <5>1, Zenon
        <5> QED  BY <3>2, <4>1, <5>2, Zenon
      <4>3. n < full + 1
        <5>1. n < full + 1 <=> u + half < one * (full + 1)
          BY <1>4, <1>12
        <5>2. one * (full + 1) = one * full + one
          BY <1>4, <1>10
        <5> QED  BY <1>9, <1>10, <3>1, <5>1, <5>2
      <4>4. clamped(-n, bits) = -n
        BY <1>4, <1>6, <1>11, <3>3, <4>3
      <4>5. Fits(-n, bits)
        BY <1>4, <1>7, <1>11, <3>3, <4>3
      <4> QED  BY <1>11, <2>1, <3>5, <4>2, <4>4, <4>5, Zenon
    <3> QED  BY <1>5, <3>4, <3>5
  <2> QED  BY <2>3, <2>4, <2>5, <2>6
<1> QED  BY <1>1, <1>13, <1>14, <1>15, <1>16

-----------------------------------------------------------------------------
(* One sample, whatever its format.                                        *)

LEMMA Formats ==
    ASSUME NEW format, NEW bits, Validate(format, bits)
    PROVE  /\ format \in {"PCM", "Float", "ALaw", "MuLaw"}
           /\ format = "PCM" => bits \in Depths
           /\ format \in {"ALaw", "MuLaw"} => bits = 8
<1>1. format \in {"PCM", "Float", "ALaw", "MuLaw"}
  BY DEF Validate
<1>2. format = "PCM" => bits \in Depths
  BY Widths
<1>3. format \in {"ALaw", "MuLaw"} => bits = 8
  BY DEF Validate
<1> QED  BY <1>1, <1>2, <1>3

LEMMA IntendedIs ==
    ASSUME NEW s
    PROVE  /\ job.format = "PCM" => Intended(s) = shifted(worth(s, job.from), job.from, job.to)
           /\ job.format \in {"ALaw", "MuLaw"} => Intended(s) = shifted(lawful(job.format, s[1]), 16, job.to)
           /\ job.format = "Float" => Intended(s) = intendedFloat(s, job.to)
<1>1. ASSUME job.format = "PCM"
      PROVE  Intended(s) = shifted(worth(s, job.from), job.from, job.to)
  BY <1>1, Zenon DEF Intended, shifted
<1>2. ASSUME job.format \in {"ALaw", "MuLaw"}
      PROVE  Intended(s) = shifted(lawful(job.format, s[1]), 16, job.to)
  BY <1>2, Zenon DEF Intended, shifted
<1>3. ASSUME job.format = "Float"
      PROVE  Intended(s) = intendedFloat(s, job.to)
  BY <1>3, Zenon DEF Intended
<1> QED  BY <1>1, <1>2, <1>3

LEMMA StagedIs ==
    ASSUME NEW s
    PROVE  /\ job.format = "PCM" => Staged(s) = requantised(decodeSample(s, job.from), job.to - job.from)
           /\ job.format = "ALaw" => Staged(s) = requantised(alawTable[s[1]], job.to - 16)
           /\ job.format = "MuLaw" => Staged(s) = requantised(muLawTable[s[1]], job.to - 16)
           /\ job.format = "Float" => Staged(s) = quantize(s, job.to)
<1>1. ASSUME job.format = "PCM"
      PROVE  Staged(s) = requantised(decodeSample(s, job.from), job.to - job.from)
  BY <1>1, Zenon DEF Staged
<1>2. ASSUME job.format = "ALaw" PROVE Staged(s) = requantised(alawTable[s[1]], job.to - 16)
  BY <1>2, Zenon DEF Staged
<1>3. ASSUME job.format = "MuLaw" PROVE Staged(s) = requantised(muLawTable[s[1]], job.to - 16)
  BY <1>3, Zenon DEF Staged
<1>4. ASSUME job.format = "Float" PROVE Staged(s) = quantize(s, job.to)
  BY <1>4, Zenon DEF Staged
<1> QED  BY <1>1, <1>2, <1>3, <1>4

(* The bytes written for a sample are worth what it was meant to become.   *)
right(e, s) == worth(e, job.to) = Intended(s) /\ e \in Seq(Int)

LEMMA StagedIsRight ==
    ASSUME job \in Jobs, supported(job), NEW s \in Stored(job.format, job.from)
    PROVE  right(encodeSample(Staged(s), job.to), s)
<1>1. job.to \in Depths
  BY Widths DEF supported
<1>2. job.format \in {"PCM", "Float", "ALaw", "MuLaw"}
  BY Formats DEF supported
<1>3. CASE job.format = "PCM"
  <2>1. job.from \in Depths
    BY <1>3, Formats DEF supported
  <2>2. s \in Bytes(job.from)
    BY <1>3 DEF Stored, Bytes
  <2> QED  BY <1>1, <1>3, <2>1, <2>2, BlockShifts, IntendedIs, StagedIs DEF right
<1>4. CASE job.format \in {"ALaw", "MuLaw"}
  <2>1. s[1] \in 0 .. 255
    <3>1. job.from = 8
      BY <1>4, Formats DEF supported
    <3>2. s \in Bytes(8)
      BY <1>4, <3>1 DEF Stored, Bytes
    <3> QED  BY <3>2, Places DEF Depths
  <2> DEFINE v == lawful(job.format, s[1])
  <2>2. Staged(s) = requantised(v, job.to - 16) /\ Fits(v, 16)
    <3>1. CASE job.format = "ALaw"
      <4>1. alawTable[s[1]] = decodeALaw(s[1])
        BY <2>1 DEF alawTable
      <4> QED  BY <2>1, <3>1, <4>1, ALawIsLawful, StagedIs, Zenon
    <3>2. CASE job.format = "MuLaw"
      <4>1. muLawTable[s[1]] = decodeMuLaw(s[1])
        BY <2>1 DEF muLawTable
      <4> QED  BY <2>1, <3>2, <4>1, MuLawIsLawful, StagedIs, Zenon
    <3> QED  BY <1>4, <3>1, <3>2
  <2>3. Intended(s) = shifted(v, 16, job.to)
    BY <1>4, IntendedIs
  <2> HIDE DEF v
  <2>4. requantised(v, job.to - 16) = shifted(v, 16, job.to) /\ Fits(shifted(v, 16, job.to), job.to)
    <3>1. 16 \in Depths
      BY DEF Depths
    <3> QED  BY <1>1, <2>2, <3>1, ShiftedFits
  <2> QED  BY <1>1, <2>2, <2>3, <2>4, StoredIsWorth DEF right
<1>5. CASE job.format = "Float"
  <2>1. s \in Floats
    BY <1>5 DEF Stored
  <2>2. job.to <= FloatPrecision
    BY <1>5, SamplesAssumption DEF IsJob, supported
  <2>3. quantize(s, job.to) = intendedFloat(s, job.to) /\ Fits(quantize(s, job.to), job.to)
    BY <1>1, <2>1, <2>2, QuantizeIsNearest
  <2> QED  BY <1>1, <1>5, <2>3, IntendedIs, StagedIs, StoredIsWorth DEF right
<1> QED  BY <1>2, <1>3, <1>4, <1>5

LEMMA KernelIsRight ==
    ASSUME job.format = "PCM", job.from \in Depths, job.to \in Depths,
           NEW b \in Stored(job.format, job.from)
    PROVE  /\ <<job.from, job.to>> \in Kernels => right(kernel(b, job.from, job.to), b)
           /\ job.from = job.to => right(b, b)
<1>1. b \in Bytes(job.from)
  BY DEF Stored, Bytes
<1>2. ASSUME <<job.from, job.to>> \in Kernels PROVE right(kernel(b, job.from, job.to), b)
  BY <1>1, <1>2, KernelShifts, IntendedIs DEF right
<1>3. ASSUME job.from = job.to PROVE right(b, b)
  <2>1. worth(b, job.from) = shifted(worth(b, job.from), job.from, job.from) /\ b \in Seq(Int)
    BY <1>1, CopyShifts
  <2> QED  BY <1>3, <2>1, IntendedIs, Zenon DEF right
<1> QED  BY <1>2, <1>3

-----------------------------------------------------------------------------
(* The call.                                                               *)

(* What is written so far is right, and there is room for the rest: the    *)
(* plan is kept until the end, and no block ends past the last sample.     *)
SInv ==
    /\ job \in Jobs
    /\ pc \in {"plan", "kernel", "blocks", "done"}
    /\ dst \in Seq(Seq(Int))
    /\ \A i \in 1 .. Len(dst) : worth(dst[i], job.to) = Intended(job.src[i])
    /\ pc # "done" => ret = [n |-> 0, err |-> "none"]
    /\ pc = "plan" => dst = <<>>
    /\ pc \in {"kernel", "blocks"} => convertPlan(job).err = "nil"
    /\ pc = "kernel" => job.format = "PCM" /\ <<job.from, job.to>> \in Kernels
    /\ pc = "blocks" => Len(dst) < Len(job.src)
    /\ pc = "done" => /\ ret = convertPlan(job)
                      /\ ret.err = "nil" => Len(dst) = Len(job.src)

(* As many samples are written as there are.                               *)
LEMMA TotalIs ==
    ASSUME job \in Jobs, convertPlan(job).err = "nil"
    PROVE  /\ supported(job) /\ total = Len(job.src) /\ Len(job.src) \in Nat
           /\ convertPlan(job).n = whole(job)
           /\ convertPlan(job).n = 0 <=> Len(job.src) = 0
<1>1. supported(job) /\ convertPlan(job).n = whole(job)
  BY PlanSays
<1>2. BytesPerSample(job.to) \in {1, 2, 3, 4} /\ Len(job.src) \in Nat
  BY <1>1, Widths, JobIs DEF supported
<1>3. total = Len(job.src)
  <2>1. (Len(job.src) * BytesPerSample(job.to)) \div BytesPerSample(job.to) = Len(job.src)
    <3>1. 0 \in Nat
      OBVIOUS
    <3> QED  BY <1>2, <3>1, DividedLimit
  <2> QED  BY <1>1, <2>1 DEF total, whole
<1>4. whole(job) = 0 <=> Len(job.src) = 0
  BY <1>2 DEF whole
<1> QED  BY <1>1, <1>2, <1>3, <1>4

LEMMA SInit == Init => SInv
<1> SUFFICES ASSUME Init PROVE SInv
  OBVIOUS
<1>1. dst = <<>> /\ Len(dst) = 0 /\ dst \in Seq(Seq(Int))
  BY DEF Init
<1> QED  BY <1>1 DEF Init, SInv

LEMMA SPlan == SInv /\ Plan => SInv'
<1> SUFFICES ASSUME SInv, Plan PROVE SInv'
  OBVIOUS
<1> DEFINE plan == convertPlan(job)
<1>1. /\ job \in Jobs /\ job' = job /\ dst = <<>> /\ Len(dst) = 0 /\ dst \in Seq(Seq(Int))
      /\ ret = [n |-> 0, err |-> "none"] /\ pc = "plan"
  BY DEF SInv, Plan
<1>2. plan = [n |-> plan.n, err |-> plan.err]
  BY <1>1, PlanSays
<1>3. CASE plan.err # "nil" \/ plan.n = 0
  <2>1. pc' = "done" /\ ret' = [n |-> plan.n, err |-> plan.err] /\ dst' = dst
    BY <1>3 DEF Plan, Return
  <2>2. ret' = convertPlan(job)
    BY <1>2, <2>1
  <2>3. ret'.err = "nil" => Len(dst') = Len(job.src)
    BY <1>1, <1>3, <2>1, <2>2, TotalIs
  <2> QED  BY <1>1, <2>1, <2>2, <2>3 DEF SInv
<1>4. CASE ~(plan.err # "nil" \/ plan.n = 0)
  <2>1. plan.err = "nil" /\ plan.n # 0
    BY <1>4
  <2>2. /\ supported(job) /\ total = Len(job.src) /\ Len(job.src) \in Nat
        /\ Len(job.src) # 0 /\ job.src \in Seq(Stored(job.format, job.from))
    BY <1>1, <2>1, TotalIs, JobIs
  <2>3. CASE job.format = "PCM" /\ job.from = job.to
    <3>1. dst' = SubSeq(job.src, 1, total) /\ pc' = "done" /\ ret' = [n |-> plan.n, err |-> "nil"]
      BY <1>4, <2>3 DEF Plan, Return
    <3>2. dst' = job.src
      BY <2>2, <3>1
    <3>3. \A i \in 1 .. Len(job.src) : right(job.src[i], job.src[i])
      <4>1. job.from \in Depths /\ job.to \in Depths
        BY <2>2, <2>3, Formats DEF supported
      <4>2. \A i \in 1 .. Len(job.src) : job.src[i] \in Stored(job.format, job.from)
        BY <2>2
      <4> QED  BY <2>3, <4>1, <4>2, KernelIsRight
    <3>4. dst' \in Seq(Seq(Int))
      <4>1. job.src = [i \in 1 .. Len(job.src) |-> job.src[i]]
        BY <2>2
      <4>2. job.src \in [1 .. Len(job.src) -> Seq(Int)]
        BY <3>3, <4>1 DEF right
      <4> QED  BY <2>2, <3>2, <4>2, Tuples
    <3>5. ret' = convertPlan(job)
      BY <1>2, <2>1, <3>1
    <3> QED  BY <1>1, <3>1, <3>2, <3>3, <3>4, <3>5 DEF SInv, right, Intended
  <2>4. CASE ~(job.format = "PCM" /\ job.from = job.to)
    <3>1. /\ pc' = IF job.format = "PCM" /\ <<job.from, job.to>> \in Kernels
                   THEN "kernel" ELSE "blocks"
          /\ dst' = dst /\ ret' = ret
      BY <1>4, <2>4 DEF Plan
    <3>2. CASE job.format = "PCM" /\ <<job.from, job.to>> \in Kernels
      <4>1. pc' = "kernel"
        BY <3>1, <3>2
      <4> QED  BY <1>1, <2>1, <3>1, <3>2, <4>1 DEF SInv
    <3>3. CASE ~(job.format = "PCM" /\ <<job.from, job.to>> \in Kernels)
      <4>1. pc' = "blocks" /\ Len(dst') < Len(job.src)
        BY <1>1, <2>2, <3>1, <3>3
      <4> QED  BY <1>1, <2>1, <3>1, <4>1 DEF SInv
    <3> QED  BY <3>2, <3>3
  <2> QED  BY <2>3, <2>4
<1> QED  BY <1>3, <1>4

LEMMA SKernel == SInv /\ Kernel => SInv'
<1> SUFFICES ASSUME SInv, Kernel PROVE SInv'
  OBVIOUS
<1> DEFINE plan == convertPlan(job)
<1>1. /\ job \in Jobs /\ job' = job /\ plan.err = "nil"
      /\ job.format = "PCM" /\ <<job.from, job.to>> \in Kernels
      /\ pc' = "done" /\ ret' = [n |-> plan.n, err |-> "nil"]
      /\ dst' = [i \in 1 .. total |-> kernel(job.src[i], job.from, job.to)]
  BY DEF SInv, Kernel, Return
<1>2. plan = [n |-> plan.n, err |-> plan.err]
  BY <1>1, PlanSays
<1>3. /\ supported(job) /\ total = Len(job.src) /\ Len(job.src) \in Nat
      /\ job.src \in Seq(Stored(job.format, job.from))
  BY <1>1, TotalIs, JobIs
<1>4. \A i \in 1 .. Len(job.src) : right(kernel(job.src[i], job.from, job.to), job.src[i])
  <2>1. job.from \in Depths /\ job.to \in Depths
    BY <1>1, <1>3, Widths, Formats DEF supported
  <2>2. \A i \in 1 .. Len(job.src) : job.src[i] \in Stored(job.format, job.from)
    BY <1>3
  <2> QED  BY <1>1, <2>1, <2>2, KernelIsRight
<1>5. dst' \in [1 .. Len(job.src) -> Seq(Int)]
  BY <1>1, <1>3, <1>4 DEF right
<1>6. dst' \in Seq(Seq(Int)) /\ Len(dst') = Len(job.src)
  BY <1>3, <1>5, Tuples
<1>7. \A i \in 1 .. Len(dst') : worth(dst'[i], job.to) = Intended(job.src[i])
  BY <1>1, <1>3, <1>4, <1>6 DEF right
<1>8. ret' = convertPlan(job)
  BY <1>1, <1>2
<1> QED  BY <1>1, <1>6, <1>7, <1>8 DEF SInv, Intended

LEMMA SBlock == SInv /\ Block => SInv'
<1> SUFFICES ASSUME SInv, Block PROVE SInv'
  OBVIOUS
<1> DEFINE plan == convertPlan(job)
           done == Len(dst)
           n == IF total - done < blockSamples THEN total - done ELSE blockSamples
           out(i) == encodeSample(Staged(job.src[i]), job.to)
           tail == [i \in 1 .. n |-> out(done + i)]
<1>1. /\ job \in Jobs /\ job' = job /\ plan.err = "nil" /\ pc = "blocks"
      /\ dst \in Seq(Seq(Int)) /\ done < Len(job.src)
      /\ \A i \in 1 .. done : worth(dst[i], job.to) = Intended(job.src[i])
      /\ ret = [n |-> 0, err |-> "none"]
  BY DEF SInv, Block
<1>2. /\ dst' = dst \o tail
      /\ IF Len(dst') = total THEN pc' = "done" /\ ret' = [n |-> plan.n, err |-> "nil"]
         ELSE pc' = pc /\ ret' = ret
  BY DEF Block, Return
<1>3. plan = [n |-> plan.n, err |-> plan.err]
  BY <1>1, PlanSays
<1>4. /\ supported(job) /\ total = Len(job.src) /\ Len(job.src) \in Nat
      /\ job.src \in Seq(Stored(job.format, job.from)) /\ blockSamples \in Nat /\ blockSamples # 0
      /\ done \in Nat
  BY <1>1, TotalIs, JobIs, SamplesAssumption
<1>5. \A i \in 1 .. Len(job.src) : right(out(i), job.src[i])
  <2>1. \A i \in 1 .. Len(job.src) : job.src[i] \in Stored(job.format, job.from)
    BY <1>4
  <2> QED  BY <1>1, <1>4, <2>1, StagedIsRight
<1>6. n \in Nat /\ done + n <= Len(job.src) /\ n > 0
  BY <1>1, <1>4
<1> HIDE DEF n, out, done
<1>7. tail \in [1 .. n -> Seq(Int)]
  <2>1. ASSUME NEW i \in 1 .. n PROVE out(done + i) \in Seq(Int)
    <3>1. done + i \in 1 .. Len(job.src)
      BY <1>4, <1>6
    <3> QED  BY <1>5, <3>1 DEF right
  <2> QED  BY <2>1
<1>8. tail \in Seq(Seq(Int)) /\ Len(tail) = n
  <2> HIDE DEF tail
  <2> QED  BY <1>6, <1>7, Tuples
<1>9. dst' \in Seq(Seq(Int)) /\ Len(dst') = done + n
  <2> HIDE DEF tail
  <2>1. \A s, t \in Seq(Seq(Int)) :
           s \o t \in Seq(Seq(Int)) /\ Len(s \o t) = Len(s) + Len(t)
    BY ConcatProperties
  <2>2. dst \o tail \in Seq(Seq(Int)) /\ Len(dst \o tail) = Len(dst) + Len(tail)
    BY <1>1, <1>8, <2>1, Zenon
  <2> QED  BY <1>2, <1>8, <2>2, Zenon DEF done
<1>10. ASSUME NEW i \in 1 .. Len(dst') PROVE worth(dst'[i], job.to) = Intended(job.src[i])
  <2>1. CASE i <= done
    <3>1. dst'[i] = dst[i] /\ i \in 1 .. done
      <4> HIDE DEF tail
      <4> QED  BY <1>1, <1>2, <1>4, <1>8, <1>9, <2>1 DEF done
    <3> QED  BY <1>1, <3>1
  <2>2. CASE ~(i <= done)
    <3>1. i - done \in 1 .. n /\ done + (i - done) = i /\ i \in 1 .. Len(job.src)
      BY <1>4, <1>6, <1>9, <2>2
    <3>2. dst'[i] = tail[i - done]
      <4> HIDE DEF tail
      <4> QED  BY <1>1, <1>2, <1>4, <1>8, <1>9, <2>2 DEF done
    <3>3. dst'[i] = out(i)
      BY <3>1, <3>2
    <3> QED  BY <1>5, <3>1, <3>3 DEF right
  <2> QED  BY <2>1, <2>2
<1> HIDE DEF tail
<1>11. CASE Len(dst') = total
  <2>1. pc' = "done" /\ ret' = convertPlan(job)
    BY <1>1, <1>2, <1>3, <1>11
  <2> QED  BY <1>1, <1>4, <1>9, <1>10, <1>11, <2>1 DEF SInv, Intended
<1>12. CASE Len(dst') # total
  <2>1. pc' = "blocks" /\ ret' = ret
    BY <1>1, <1>2, <1>12
  <2>2. Len(dst') < Len(job.src)
    <3>1. \A d, m, l \in Nat : d + m <= l /\ d + m # l => d + m < l
      OBVIOUS
    <3>2. done + n # Len(job.src)
      BY <1>4, <1>9, <1>12, Zenon
    <3>3. done + n < Len(job.src)
      BY <1>4, <1>6, <3>1, <3>2, Zenon
    <3> QED  BY <1>9, <3>3, Zenon
  <2> QED  BY <1>1, <1>4, <1>9, <1>10, <2>1, <2>2 DEF SInv, Intended
<1> QED  BY <1>11, <1>12

(* A call that has not returned has written nothing but right samples.     *)
THEOREM SInvHolds == Spec => []SInv
<1>1. ASSUME SInv, UNCHANGED vars PROVE SInv'
  BY <1>1 DEF SInv, vars, Intended
<1>2. SInv /\ [Next]_vars => SInv'
  BY <1>1, SPlan, SKernel, SBlock DEF Next
<1> QED  BY SInit, <1>2, PTL DEF Spec

LEMMA RefusedWhenTooLong == SInv => RefusedExactlyWhenTooLong
<1> SUFFICES ASSUME SInv, pc = "done"
             PROVE  LET samples == Len(job.src)
                        width == BytesPerSample(job.to)
                    IN /\ ret.err = "unsupported" <=> ~supported(job)
                       /\ supported(job) => (ret.err = "shortBuffer" <=> samples * width > job.room)
                       /\ supported(job) => (convertedBytesFit(samples, width, MaxInt)
                                               <=> samples * width <= MaxInt)
                       /\ ret.err = "nil" => ret.n = samples * width
  BY DEF RefusedExactlyWhenTooLong, supported
<1> DEFINE samples == Len(job.src)
           width == BytesPerSample(job.to)
<1>1. job \in Jobs /\ ret = convertPlan(job)
  BY DEF SInv
<1>2. /\ ret.err = "unsupported" <=> ~supported(job)
      /\ supported(job) => (ret.err = "shortBuffer" <=> samples * width > job.room)
      /\ ret.err = "nil" => ret.n = samples * width
  BY <1>1, PlanSays DEF whole
<1>3. ASSUME supported(job)
      PROVE  convertedBytesFit(samples, width, MaxInt) <=> samples * width <= MaxInt
  <2>1. width \in {1, 2, 3, 4} /\ samples \in Nat /\ MaxInt \in Nat
    BY <1>1, <1>3, Widths, JobIs DEF supported
  <2>2. (samples > MaxInt \div width <=> samples * width > MaxInt) /\ samples * width \in Nat
    BY <2>1, DividedLimit
  <2>3. convertedBytesFit(samples, width, MaxInt)
          <=> samples <= 0 \/ width <= 0 \/ samples <= MaxInt \div width
    BY DEF convertedBytesFit
  <2>4. MaxInt \div width \in Nat
    BY <2>1
  <2>5. samples <= 0 => samples * width = 0
    BY <2>1
  <2> HIDE DEF samples, width
  <2> QED  BY <2>1, <2>2, <2>3, <2>4, <2>5
<1> QED  BY <1>2, <1>3

(* Whichever way a call goes and however its blocks fall, no sample of an  *)
(* integer source is lost, moved or given another value than its own,      *)
(* shifted to the new width (convertIntToInt and its kernels,              *)
(* sample.go:181-347).                                                     *)
THEOREM EveryIntegerIsShifted == Spec => []IntegersAreShifted
<1>1. SInv => IntegersAreShifted
  BY DEF SInv, IntegersAreShifted
<1> QED  BY <1>1, SInvHolds, PTL

(* The sum in quantize is itself rounded, and every float still comes out  *)
(* as the integer nearest to it; every code of a companding law comes out  *)
(* as the middle of its interval (quantize, sample.go:521-557; decodeALaw  *)
(* and decodeMuLaw, companded.go:63-111).                                  *)
THEOREM EveryOtherIsNearest == Spec => []OthersAreNearest
<1>1. SInv => OthersAreNearest
  BY DEF SInv, OthersAreNearest
<1> QED  BY <1>1, SInvHolds, PTL

(* No length is so large that the product of samples and bytes wraps: what *)
(* is refused is what does not fit, and the check of the one-shot decoder  *)
(* refuses the same (convertedLen, sample.go:74-85; convertedBytesFit,     *)
(* decode_oneshot.go:352 and 412-417).                                     *)
THEOREM WhatFitsIsConverted == Spec => []RefusedExactlyWhenTooLong
<1> QED  BY RefusedWhenTooLong, SInvHolds, PTL
=============================================================================
