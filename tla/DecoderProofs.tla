---------------------------- MODULE DecoderProofs ----------------------------
(***************************************************************************)
(* Safety of Decoder for every stream, buffer size, sequence of calls and  *)
(* way in which the source splits its answers, fails, ends or grows.       *)
(***************************************************************************)
EXTENDS Decoder, SequenceTheorems, TLAPS

-----------------------------------------------------------------------------
(* The inductive invariant.                                                *)

Byte == Nat \X Nat

Errs == {"nil", "EOF", "err"}

WriteToCall == [op : {"WriteTo"}, filled : Seq(Byte), sunk : Seq(Byte),
                rerr : Errs, start : Nat]
ReadAllCall == [op : {"readAll"}, filled : Seq(Byte), limit : Nat, cap : Nat]

DTypeOK ==
    /\ st \in StreamType /\ err \in BOOLEAN
    /\ remaining \in Int /\ next \in Nat /\ buffered \in Nat /\ pend \in Errs
    /\ staged \in Seq(Byte) /\ end \in Nat /\ faults \in Nat /\ resets \in Nat
    /\ call \in {Idle} \cup WriteToCall \cup ReadAllCall
    /\ got \in [bytes : Seq(Byte), e : Errs]
    /\ out \in Seq(Byte) /\ from \in Nat /\ torn \in BOOLEAN /\ rejected \in BOOLEAN

(* Stored bytes go in by the unit, and unit by unit they come out: sample  *)
(* by sample under conversion, byte by byte otherwise.                     *)
unitIn == IF convert(st) = 0 THEN 1 ELSE st.width
unitOut == IF convert(st) = 0 THEN 1 ELSE convert(st)

Audio(o, n) == Converted(o, n, unitIn, unitOut)

(* Where the decoder is: never before the position it was last moved to,   *)
(* past the source only if it was moved there, and what remains is counted *)
(* from the declared length.  An end the window still has to report is the *)
(* end of a source that does not grow.                                     *)
PlaceInv ==
    /\ from <= next
    /\ buffered > 0 \/ next > from => next + buffered <= end
    /\ pend = "EOF" /\ ~st.grows => end <= next + buffered
    /\ lengthKnown => /\ next <= st.declared /\ remaining >= 0
                      /\ remaining > 0 => next + remaining = st.declared
    /\ ~lengthKnown => remaining \in {-1, 0}

(* What was handed over and what is staged are together all the units in   *)
(* front of the position; an incomplete one is the last of the source.     *)
OrderInv ==
    /\ convert(st) = 0 => staged = << >>
    /\ ~torn => /\ out \o staged = Audio(from, next - from)
                /\ (next - from) % unitIn # 0 => end <= next /\ ~st.grows

(* Torn or not, no more units were handed over or staged than were passed, *)
(* and each of them lies in front of the position.                         *)
Behind(bytes, place) == \A i \in 1 .. Len(bytes) : bytes[i][1] + unitIn <= place

CountInv ==
    /\ Len(out) + Len(staged) <= ((next - from) \div unitIn) * unitOut
    /\ Behind(out \o staged, next)

(* The bytes from the last Reset or Seek to the end of the audio.          *)
audible == Max2((IF lengthKnown THEN Min2(end, st.declared) ELSE end) - from, 0)

(* The end is reported when nothing is staged, and the stream is over when *)
(* every unit of it has been passed.                                       *)
EndInv ==
    /\ got.e = "EOF" => remaining = 0 /\ staged = << >>
    /\ ~torn /\ ~st.grows /\ remaining = 0 =>
          (next - from) \div unitIn = audible \div unitIn

ReaderInv == PlaceInv /\ OrderInv /\ CountInv /\ EndInv

(* A failed Reset leaves no stream and no call; WriteTo has what was read  *)
(* since it began, and a one-shot decode everything, within its ceiling.   *)
CallInv ==
    /\ rejected => err /\ out = << >>
    /\ err => call = Idle /\ st = NoStream
    /\ call.op = "WriteTo" =>
          /\ call.start <= Len(out)
          /\ SubSeq(out, call.start + 1, Len(out)) = call.sunk \o call.filled
          /\ Len(call.filled) <= writeToBufferSize
    /\ call.op = "readAll" =>
          /\ call.filled = out /\ from = 0
          /\ Len(call.filled) <= call.cap /\ call.cap <= call.limit

DInv == DTypeOK /\ ReaderInv /\ CallInv /\ SeekLandsWhereItSays

-----------------------------------------------------------------------------
(* Whole units.                                                            *)

(* Division by the unit: the quotient and the remainder there is.          *)
LEMMA DivMod ==
    ASSUME NEW n \in Nat, NEW w \in Nat, w > 0
    PROVE  /\ n \div w \in Nat /\ n % w \in Nat
           /\ n % w < w /\ n = (n \div w) * w + (n % w)
<1>1. n \div w \in Int /\ n % w \in Nat /\ n % w < w /\ n = (n \div w) * w + (n % w)
  OBVIOUS
<1>2. n \div w >= 0
  <2> SUFFICES ASSUME n \div w <= -1 PROVE FALSE
    BY <1>1
  <2>1. (n \div w) * w <= -w
    BY <1>1
  <2> QED  BY <1>1, <2>1
<1> QED  BY <1>1, <1>2

(* And the only ones there are.                                            *)
LEMMA DivIs ==
    ASSUME NEW q \in Nat, NEW r \in Nat, NEW w \in Nat, r < w
    PROVE  (q * w + r) \div w = q /\ (q * w + r) % w = r
<1> DEFINE n == q * w + r
           d == n \div w
           m == n % w
<1>1. n \in Nat /\ d \in Nat /\ m \in Nat /\ m < w /\ n = d * w + m
  BY DivMod
<1>2. (q - d) * w = m - r
  BY <1>1
<1>3. q = d
  <2>1. CASE q - d >= 1
    <3>1. (q - d) * w >= w
      BY <1>1, <2>1
    <3> QED  BY <1>1, <1>2, <3>1
  <2>2. CASE q - d <= -1
    <3>1. (q - d) * w <= -w
      BY <1>1, <2>2
    <3> QED  BY <1>1, <1>2, <3>1
  <2> QED  BY <1>1, <2>1, <2>2
<1> QED  BY <1>1, <1>2, <1>3

(* Whole units in front change neither what is left over nor the units     *)
(* behind them.                                                            *)
LEMMA DivAdd ==
    ASSUME NEW a \in Nat, NEW b \in Nat, NEW w \in Nat, w > 0, a % w = 0
    PROVE  (a + b) \div w = a \div w + b \div w /\ (a + b) % w = b % w
<1> DEFINE p == a \div w
           q == b \div w
           r == b % w
<1>1. p \in Nat /\ a = p * w
  BY DivMod
<1>2. q \in Nat /\ r \in Nat /\ r < w /\ b = q * w + r
  BY DivMod
<1> HIDE DEF p, q, r
<1>3. a + b = (p + q) * w + r /\ p + q \in Nat
  BY <1>1, <1>2
<1>4. ((p + q) * w + r) \div w = p + q /\ ((p + q) * w + r) % w = r
  BY <1>2, <1>3, DivIs
<1>5. (a + b) \div w = p + q /\ (a + b) % w = r
  BY <1>3, <1>4
<1> QED  BY <1>5 DEF p, q, r

(* The whole units of a length, without the incomplete one.                *)
LEMMA DivFloor ==
    ASSUME NEW n \in Nat, NEW w \in Nat, w > 0
    PROVE  /\ n - (n % w) \in Nat
           /\ (n - (n % w)) \div w = n \div w /\ (n - (n % w)) % w = 0
<1> DEFINE q == n \div w
           r == n % w
<1>1. q \in Nat /\ r \in Nat /\ r < w /\ n = q * w + r
  BY DivMod
<1> HIDE DEF q, r
<1>2. n - r = q * w + 0 /\ n - r \in Nat
  BY <1>1
<1>3. (q * w + 0) \div w = q /\ (q * w + 0) % w = 0
  BY <1>1, DivIs
<1>4. (n - r) \div w = q /\ (n - r) % w = 0
  BY <1>2, <1>3
<1> QED  BY <1>2, <1>4 DEF q, r

(* A longer stretch has no fewer units; and no more when it is less than a *)
(* unit longer than whole ones.                                            *)
LEMMA DivMono ==
    ASSUME NEW a \in Nat, NEW b \in Nat, NEW w \in Nat, w > 0, a <= b
    PROVE  /\ a \div w <= b \div w
           /\ a % w = 0 /\ b < a + w => b \div w = a \div w
<1> DEFINE p == a \div w
           q == b \div w
           r == a % w
           t == b % w
<1>1. p \in Nat /\ r \in Nat /\ r < w /\ a = p * w + r
  BY DivMod
<1>2. q \in Nat /\ t \in Nat /\ t < w /\ b = q * w + t
  BY DivMod
<1> HIDE DEF p, q, r, t
<1>3. p <= q
  <2> SUFFICES ASSUME p - q >= 1 PROVE FALSE
    BY <1>1, <1>2
  <2>1. (p - q) * w >= w
    BY <1>1, <1>2
  <2>2. (p - q) * w = p * w - q * w
    BY <1>1, <1>2
  <2> QED  BY <1>1, <1>2, <2>1, <2>2
<1>4. ASSUME r = 0, b < a + w PROVE q = p
  <2> SUFFICES ASSUME q - p >= 1 PROVE FALSE
    BY <1>1, <1>2, <1>3
  <2>1. (q - p) * w >= w
    BY <1>1, <1>2
  <2>2. (q - p) * w = q * w - p * w
    BY <1>1, <1>2
  <2> QED  BY <1>1, <1>2, <1>4, <2>1, <2>2
<1> QED  BY <1>3, <1>4 DEF p, q, r, t

(* Units counted in two stretches are at most those of the two together.   *)
LEMMA DivSum ==
    ASSUME NEW a \in Nat, NEW b \in Nat, NEW w \in Nat, w > 0
    PROVE  a \div w + b \div w <= (a + b) \div w
<1> DEFINE c == a - (a % w)
<1>1. c \in Nat /\ c <= a /\ c \div w = a \div w /\ c % w = 0
  BY DivFloor, DivMod
<1> HIDE DEF c
<1>2. (c + b) \div w = c \div w + b \div w
  BY <1>1, DivAdd
<1>3. (c + b) \div w <= (a + b) \div w
  BY <1>1, DivMono
<1> QED  BY <1>1, <1>2, <1>3

-----------------------------------------------------------------------------
(* The bytes of a stretch of audio.                                        *)

(* Byte i of the audio from o on, how many bytes n stored ones become,   *)
(* and whether n is made of whole samples.                                 *)
ByteAt(o, w, dst, i) == <<o + (((i - 1) \div dst) * w), ((i - 1) % dst) + 1>>

Produced(n, w, dst) == (n \div w) * dst

Whole(n, w) == n % w = 0

(* Each of them is of a sample that lies within the stretch.               *)
LEMMA ByteAtType ==
    ASSUME NEW o \in Nat, NEW n \in Nat, NEW w \in Nat, NEW dst \in Nat, w > 0, dst > 0,
           NEW i \in 1 .. Produced(n, w, dst)
    PROVE  ByteAt(o, w, dst, i) \in Byte /\ ByteAt(o, w, dst, i)[1] + w <= o + n
<1> DEFINE q == n \div w
           len == q * dst
           k == (i - 1) \div dst
           r == (i - 1) % dst
<1>1. q \in Nat /\ q * w <= n /\ len \in Nat
  BY DivMod
<1>2. i \in 1 .. len
  BY DEF Produced
<1> HIDE DEF q, len
<1>3. i - 1 \in Nat /\ i - 1 < len
  BY <1>1, <1>2
<1>4. k \in Nat /\ r \in Nat /\ i - 1 = k * dst + r
  BY <1>3, DivMod
<1> HIDE DEF k, r
<1>5. k <= q - 1
  <2> SUFFICES ASSUME k >= q PROVE FALSE
    BY <1>1, <1>4
  <2>1. k * dst >= q * dst
    BY <1>1, <1>4
  <2> QED  BY <1>1, <1>3, <1>4, <2>1 DEF len
<1>6. k * w <= (q - 1) * w /\ k * w \in Nat
  BY <1>1, <1>4, <1>5
<1>7. (q - 1) * w = q * w - w
  BY <1>1
<1>8. o + (k * w) \in Nat /\ o + (k * w) + w <= o + n
  BY <1>1, <1>6, <1>7
<1>9. ByteAt(o, w, dst, i) = <<o + (k * w), r + 1>>
  BY DEF k, r, ByteAt
<1> QED  BY <1>4, <1>8, <1>9 DEF Byte

(* As many bytes as the stretch has whole samples, times dst.              *)
LEMMA ConvertedType ==
    ASSUME NEW o \in Nat, NEW n \in Nat, NEW w \in Nat, NEW dst \in Nat, w > 0, dst > 0
    PROVE  /\ Converted(o, n, w, dst) \in Seq(Byte)
           /\ Len(Converted(o, n, w, dst)) = Produced(n, w, dst)
           /\ \A i \in 1 .. Produced(n, w, dst) :
                 Converted(o, n, w, dst)[i] = ByteAt(o, w, dst, i)
<1> DEFINE len == Produced(n, w, dst)
           at(i) == ByteAt(o, w, dst, i)
<1>1. len \in Nat
  BY DivMod DEF Produced
<1>2. Converted(o, n, w, dst) = [i \in 1 .. len |-> at(i)]
  BY DEF Converted, Produced, ByteAt
<1>3. \A i \in 1 .. len : at(i) \in Byte
  BY ByteAtType
<1> HIDE DEF len, at
<1>4. [i \in 1 .. len |-> at(i)] \in Seq(Byte)
  BY <1>1, <1>3
<1>5. Len([i \in 1 .. len |-> at(i)]) = len
  BY <1>1
<1>6. \A i \in 1 .. len : Converted(o, n, w, dst)[i] = at(i)
  BY <1>2
<1> QED  BY <1>2, <1>4, <1>5, <1>6 DEF at, len

(* The same, a fact at a time: the bytes are a sequence.                   *)
LEMMA ConvertedSeq ==
    ASSUME NEW o \in Nat, NEW n \in Nat, NEW w \in Nat, NEW dst \in Nat, w > 0, dst > 0
    PROVE  Converted(o, n, w, dst) \in Seq(Byte)
BY ConvertedType

(* So many of them.                                                        *)
LEMMA ConvertedLen ==
    ASSUME NEW o \in Nat, NEW n \in Nat, NEW w \in Nat, NEW dst \in Nat, w > 0, dst > 0
    PROVE  Len(Converted(o, n, w, dst)) = Produced(n, w, dst)
BY ConvertedType

(* And each one this.                                                      *)
LEMMA ConvertedAt ==
    ASSUME NEW o \in Nat, NEW n \in Nat, NEW w \in Nat, NEW dst \in Nat, w > 0, dst > 0,
           NEW i \in 1 .. Produced(n, w, dst)
    PROVE  Converted(o, n, w, dst)[i] = ByteAt(o, w, dst, i)
BY ConvertedType

(* Stored bytes are samples of one byte that stay one byte.                *)
LEMMA StoredIsConverted ==
    ASSUME NEW o \in Nat, NEW n \in Nat
    PROVE  Stored(o, n) = Converted(o, n, 1, 1)
<1>1. \A k \in Nat : k \div 1 = k /\ k % 1 = 0
  OBVIOUS
<1>2. (n \div 1) * 1 = n
  BY <1>1
<1>3. ASSUME NEW i \in 1 .. n
      PROVE  <<o + i - 1, 1>> = <<o + (((i - 1) \div 1) * 1), ((i - 1) % 1) + 1>>
  <2>1. (i - 1) \div 1 = i - 1 /\ (i - 1) % 1 = 0
    BY <1>1
  <2> QED  BY <2>1
<1> QED  BY <1>2, <1>3 DEF Stored, Converted

(* A sequence is the concatenation of two when it is byte for byte.        *)
LEMMA ConcatIs ==
    ASSUME NEW A \in Seq(Byte), NEW B \in Seq(Byte), NEW C \in Seq(Byte),
           Len(C) = Len(A) + Len(B),
           \A i \in 1 .. Len(A) : C[i] = A[i],
           \A j \in 1 .. Len(B) : C[Len(A) + j] = B[j]
    PROVE  A \o B = C
<1>1. /\ A \o B \in Seq(Byte) /\ Len(A \o B) = Len(A) + Len(B)
      /\ \A i \in 1 .. Len(A) + Len(B) :
            (A \o B)[i] = IF i <= Len(A) THEN A[i] ELSE B[i - Len(A)]
  BY ConcatProperties
<1>2. Len(A) \in Nat /\ Len(B) \in Nat
  BY LenProperties
<1>3. ASSUME NEW i \in 1 .. Len(A \o B)
      PROVE  (A \o B)[i] = C[i]
  <2>1. CASE i <= Len(A)
    BY <1>1, <1>2, <2>1
  <2>2. CASE i > Len(A)
    <3> DEFINE j == i - Len(A)
    <3>1. j \in 1 .. Len(B) /\ i = Len(A) + j
      BY <1>1, <1>2, <2>2
    <3>2. (A \o B)[i] = B[j]
      BY <1>1, <1>2, <2>2
    <3> HIDE DEF j
    <3> QED  BY <3>1, <3>2
  <2> QED  BY <1>1, <1>2, <2>1, <2>2
<1> QED  BY <1>1, <1>3, SeqEqual

(* What lies in whole samples, followed by what lies behind it.            *)
Joins(o, n, m, w, dst) ==
    Converted(o, n, w, dst) \o Converted(o + n, m, w, dst) = Converted(o, n + m, w, dst)

(* It is one stretch.                                                      *)
LEMMA ConvertedConcat ==
    ASSUME NEW o \in Nat, NEW n \in Nat, NEW m \in Nat, NEW w \in Nat, NEW dst \in Nat,
           w > 0, dst > 0, Whole(n, w)
    PROVE  Joins(o, n, m, w, dst)
<1> DEFINE p == n \div w
           q == m \div w
<1>1. p \in Nat /\ q \in Nat /\ n = p * w /\ (n + m) \div w = p + q
  BY DivMod, DivAdd DEF Whole
<1>2. /\ Produced(n, w, dst) = p * dst /\ Produced(m, w, dst) = q * dst
      /\ Produced(n + m, w, dst) = (p + q) * dst
  BY <1>1 DEF Produced
<1> HIDE DEF p, q
<1>3. Produced(n, w, dst) + Produced(m, w, dst) = Produced(n + m, w, dst)
  BY <1>1, <1>2
<1>4. ASSUME NEW j \in 1 .. Produced(m, w, dst)
      PROVE  ByteAt(o, w, dst, Produced(n, w, dst) + j) = ByteAt(o + n, w, dst, j)
  <2> DEFINE k == (j - 1) \div dst
             r == (j - 1) % dst
             i == (p * dst) + j
  <2>1. j - 1 \in Nat /\ p * dst \in Nat
    BY <1>1, <1>2
  <2>2. k \in Nat /\ r \in Nat /\ r < dst /\ j - 1 = k * dst + r
    BY <2>1, DivMod
  <2>3. ByteAt(o + n, w, dst, j) = <<(o + n) + (k * w), r + 1>>
    BY DEF ByteAt
  <2> HIDE DEF k, r
  <2>4. (p + k) * dst = (p * dst) + (k * dst) /\ p + k \in Nat
    BY <1>1, <2>2
  <2>5. i - 1 = (p + k) * dst + r
    BY <1>1, <2>1, <2>2, <2>4
  <2>6. ((p + k) * dst + r) \div dst = p + k /\ ((p + k) * dst + r) % dst = r
    BY <2>2, <2>4, DivIs
  <2>7. ByteAt(o, w, dst, i) = <<o + ((p + k) * w), r + 1>>
    BY <2>5, <2>6 DEF ByteAt
  <2>8. o + ((p + k) * w) = (o + n) + (k * w)
    BY <1>1, <2>2
  <2> QED  BY <1>2, <2>3, <2>7, <2>8
<1>5. ASSUME NEW j \in 1 .. Produced(n, w, dst)
      PROVE  j \in 1 .. Produced(n + m, w, dst)
  BY <1>1, <1>2, <1>3
<1>6. ASSUME NEW j \in 1 .. Produced(m, w, dst)
      PROVE  Produced(n, w, dst) + j \in 1 .. Produced(n + m, w, dst)
  BY <1>1, <1>2, <1>3
<1> DEFINE A == Converted(o, n, w, dst)
           B == Converted(o + n, m, w, dst)
           C == Converted(o, n + m, w, dst)
<1>7. o + n \in Nat /\ n + m \in Nat
  OBVIOUS
<1>13. A \in Seq(Byte)
  BY ConvertedSeq
<1>14. B \in Seq(Byte)
  BY <1>7, ConvertedSeq
<1>15. C \in Seq(Byte)
  BY <1>7, ConvertedSeq
<1>16. Len(A) = Produced(n, w, dst)
  BY <1>13, ConvertedLen
<1>17. Len(B) = Produced(m, w, dst)
  BY <1>7, <1>14, ConvertedLen
<1>18. Len(C) = Produced(n + m, w, dst)
  BY <1>7, <1>15, ConvertedLen
<1>8. /\ Len(A) = Produced(n, w, dst) /\ Len(B) = Produced(m, w, dst)
      /\ Len(C) = Produced(n + m, w, dst)
  BY <1>16, <1>17, <1>18
<1>9. ASSUME NEW j \in 1 .. Len(A)
      PROVE  C[j] = A[j]
  <2>1. j \in 1 .. Produced(n, w, dst)
    BY <1>8
  <2>2. C[j] = ByteAt(o, w, dst, j)
    BY <1>5, <2>1, ConvertedAt
  <2>3. A[j] = ByteAt(o, w, dst, j)
    BY <2>1, ConvertedAt
  <2> QED  BY <2>2, <2>3
<1>10. ASSUME NEW j \in 1 .. Len(B)
       PROVE  C[Len(A) + j] = B[j]
  <2>1. j \in 1 .. Produced(m, w, dst)
    BY <1>8
  <2>2. C[Produced(n, w, dst) + j] = ByteAt(o, w, dst, Produced(n, w, dst) + j)
    BY <1>6, <2>1, ConvertedAt
  <2>3. B[j] = ByteAt(o + n, w, dst, j)
    BY <2>1, ConvertedAt
  <2> QED  BY <1>4, <1>8, <2>1, <2>2, <2>3
<1>11. Len(C) = Len(A) + Len(B)
  BY <1>3, <1>8
<1> HIDE DEF A, B, C
<1>12. A \o B = C
  BY <1>13, <1>14, <1>15, <1>9, <1>10, <1>11, ConcatIs
<1> QED  BY <1>12 DEF A, B, C, Joins

(* A shorter stretch of the same audio is a prefix of it.                  *)
LEMMA ConvertedPrefix ==
    ASSUME NEW o \in Nat, NEW n \in Nat, NEW m \in Nat, NEW w \in Nat, NEW dst \in Nat,
           w > 0, dst > 0, m <= n
    PROVE  IsPrefix(Converted(o, m, w, dst), Converted(o, n, w, dst))
<1> DEFINE A == Converted(o, m, w, dst)
           B == Converted(o, n, w, dst)
           at(i) == ByteAt(o, w, dst, i)
<1>1. /\ A \in Seq(Byte) /\ Len(A) = Produced(m, w, dst)
      /\ \A i \in 1 .. Produced(m, w, dst) : A[i] = at(i)
  BY ConvertedType
<1>2. /\ B \in Seq(Byte) /\ Len(B) = Produced(n, w, dst)
      /\ \A i \in 1 .. Produced(n, w, dst) : B[i] = at(i)
  BY ConvertedType
<1>3. m \div w \in Nat /\ n \div w \in Nat /\ m \div w <= n \div w
  BY DivMod, DivMono
<1> HIDE DEF A, B
<1>4. Len(A) \in Nat /\ Len(B) \in Nat /\ Len(A) <= Len(B)
  <2> DEFINE p == m \div w
             q == n \div w
  <2>1. Len(A) = p * dst /\ Len(B) = q * dst
    BY <1>1, <1>2 DEF Produced
  <2>2. p \in Nat /\ q \in Nat /\ p <= q
    BY <1>3
  <2> HIDE DEF p, q
  <2>3. p * dst <= q * dst
    BY <2>2
  <2> QED  BY <2>1, <2>2, <2>3
<1> HIDE DEF at
<1>5. \A i \in 1 .. Len(A) : B[i] \in Byte /\ A[i] = B[i]
  BY <1>1, <1>2, <1>4, ElementOfSeq
<1> HIDE DEF at
<1> DEFINE P == SubSeq(B, 1, Len(A))
<1>6. /\ P \in Seq(Byte) /\ Len(P) = Len(A)
      /\ \A i \in 1 .. Len(A) : P[i] = B[i]
  BY <1>4, <1>5, SubSeqProperties
<1> HIDE DEF P
<1>7. P = A
  BY <1>1, <1>4, <1>5, <1>6, SeqEqual
<1>8. SubSeq(A, 1, Len(A)) = A
  BY <1>1, SubSeqFull
<1> QED  BY <1>4, <1>7, <1>8 DEF IsPrefix, A, B, P

(* Whoever holds the front part of a prefix holds a prefix.                *)
LEMMA PrefixOfConcat ==
    ASSUME NEW s \in Seq(Byte), NEW t \in Seq(Byte), NEW u \in Seq(Byte), IsPrefix(s \o t, u)
    PROVE  IsPrefix(s, u)
<1> DEFINE c == s \o t
           l == Len(s)
<1>1. /\ c \in Seq(Byte) /\ Len(c) = l + Len(t) /\ l \in Nat /\ Len(t) \in Nat /\ Len(u) \in Nat
      /\ \A i \in 1 .. l : c[i] = s[i]
  BY ConcatProperties, LenProperties
<1>2. Len(c) <= Len(u) /\ SubSeq(c, 1, Len(c)) = SubSeq(u, 1, Len(c))
  BY DEF IsPrefix
<1> HIDE DEF c, l
<1>3. SubSeq(c, 1, Len(c)) = c
  BY <1>1, SubSeqFull
<1>4. \A i \in 1 .. Len(c) : u[i] \in Byte
  BY <1>1, <1>2, ElementOfSeq
<1> DEFINE v == SubSeq(u, 1, Len(c))
           x == SubSeq(u, 1, l)
<1>5. \A i \in 1 .. Len(c) : v[i] = u[i]
  BY <1>1, <1>4, SubSeqProperties
<1>6. x \in Seq(Byte) /\ Len(x) = l /\ \A i \in 1 .. l : x[i] = u[i]
  BY <1>1, <1>4, SubSeqProperties
<1>7. v = c
  BY <1>2, <1>3
<1> HIDE DEF v, x
<1>8. ASSUME NEW i \in 1 .. l
      PROVE  x[i] = s[i]
  <2>1. i \in 1 .. Len(c)
    BY <1>1
  <2> QED  BY <1>1, <1>5, <1>6, <1>7, <2>1
<1>9. x = s
  BY <1>6, <1>8, SeqEqual DEF l
<1>10. SubSeq(s, 1, l) = s
  BY SubSeqFull DEF l
<1> QED  BY <1>1, <1>2, <1>9, <1>10 DEF IsPrefix, l, x

-----------------------------------------------------------------------------
(* What the source answers.                                                *)

(* An answer takes no more than it was asked for, none of it from behind   *)
(* the end of the source; and an end it reports or keeps to report is that *)
(* end, unless the source grows.                                           *)
Answer(r, max) ==
    /\ r.n \in 0 .. max /\ r.e \in Errs
    /\ r.buffered \in Nat /\ r.pend \in Errs /\ r.faults \in Nat
    /\ r.n > 0 \/ r.buffered > 0 => next + r.n + r.buffered <= end
    /\ r.pend = "EOF" /\ ~st.grows => end <= next + r.n + r.buffered
    /\ r.e = "EOF" => r.buffered = 0 /\ (~st.grows => end <= next + r.n)

(* Where the reader over the source stands.                                *)
Window ==
    /\ next \in Nat /\ buffered \in Nat /\ end \in Nat /\ faults \in Nat /\ pend \in Errs
    /\ buffered > 0 => next + buffered <= end
    /\ pend = "EOF" /\ ~st.grows => end <= next + buffered

(* One Read of the source itself.                                          *)
LEMMA SourceReads ==
    ASSUME Window, NEW size \in Nat, NEW r \in sourceReads(size)
    PROVE  /\ r.k \in 0 .. size /\ r.e \in Errs
           /\ r.k > 0 => next + buffered + r.k <= end
           /\ r.e = "EOF" => end <= next + buffered + r.k
           /\ r.e = "err" => faults > 0
<1>1. avail \in Nat /\ (avail > 0 => avail = end - (next + buffered))
      /\ end <= next + buffered + avail
  BY DEF avail, Max2, Window
<1>2. /\ r.k \in 0 .. Min2(size, avail) /\ r.e \in {"nil", "EOF", "err"}
      /\ r.e = "EOF" => r.k = avail
      /\ r.e = "err" => faults > 0
  BY DEF sourceReads
<1>3. r.k \in Nat /\ r.k <= size /\ r.k <= avail
  BY <1>1, <1>2 DEF Min2
<1> QED  BY <1>1, <1>2, <1>3 DEF Window, Errs

(* A Read through the window.                                              *)
LEMMA ReadAnswers ==
    ASSUME Window, NEW len \in Nat, NEW r \in audioRead(len)
    PROVE  Answer(r, len)
<1>1. CASE buffered > 0
  <2> DEFINE n == Min2(len, buffered)
  <2>1. r = Outcome(n, "nil", buffered - n, pend, FALSE)
    BY <1>1 DEF audioRead
  <2>2. n \in 0 .. len /\ buffered - n \in Nat /\ n + (buffered - n) = buffered
    BY DEF Min2, Window
  <2> HIDE DEF n
  <2>3. next + n + (buffered - n) = next + buffered
    BY <2>2 DEF Window
  <2>9. r.n = n /\ r.e = "nil" /\ r.buffered = buffered - n /\ r.pend = pend /\ r.faults \in Nat
    BY <2>1 DEF Outcome, Window
  <2> QED  BY <1>1, <2>2, <2>3, <2>9 DEF Answer, Window, Errs
<1>2. CASE ~(buffered > 0) /\ pend # "nil"
  <2>1. r = Outcome(0, pend, 0, "nil", FALSE)
    BY <1>2 DEF audioRead
  <2>9. r.n = 0 /\ r.e = pend /\ r.buffered = 0 /\ r.pend = "nil" /\ r.faults \in Nat
    BY <2>1 DEF Outcome, Window
  <2>10. buffered = 0
    BY <1>2 DEF Window
  <2> QED  BY <1>2, <2>9, <2>10 DEF Answer, Window, Errs
<1>3. CASE ~(buffered > 0) /\ pend = "nil" /\ len >= streamBufferSize
  <2>1. PICK q \in sourceReads(len) : r = Outcome(q.k, q.e, 0, "nil", q.e = "err")
    BY <1>3 DEF audioRead
  <2>2. /\ q.k \in 0 .. len /\ q.e \in Errs
        /\ q.k > 0 => next + buffered + q.k <= end
        /\ q.e = "EOF" => end <= next + buffered + q.k
        /\ q.e = "err" => faults > 0
    BY <2>1, SourceReads
  <2>3. buffered = 0
    BY <1>3 DEF Window
  <2>9. r.n = q.k /\ r.e = q.e /\ r.buffered = 0 /\ r.pend = "nil" /\ r.faults \in Nat
    BY <2>1, <2>2 DEF Outcome, Window
  <2> QED  BY <2>1, <2>2, <2>3, <2>9 DEF Answer, Window, Errs
<1>4. CASE ~(buffered > 0) /\ pend = "nil" /\ ~(len >= streamBufferSize)
  <2>1. PICK q \in sourceReads(streamBufferSize) :
           r = IF q.k = 0 THEN Outcome(0, q.e, 0, "nil", q.e = "err")
               ELSE Outcome(Min2(q.k, len), "nil", q.k - Min2(q.k, len), q.e, q.e = "err")
    BY <1>4 DEF audioRead
  <2>2. /\ q.k \in Nat /\ q.e \in Errs
        /\ q.k > 0 => next + buffered + q.k <= end
        /\ q.e = "EOF" => end <= next + buffered + q.k
        /\ q.e = "err" => faults > 0
    BY <2>1, SourceReads, DecoderAssumption
  <2>3. buffered = 0
    BY <1>4 DEF Window
  <2>4. CASE q.k = 0
    <3>1. r = Outcome(0, q.e, 0, "nil", q.e = "err")
      BY <2>1, <2>4
    <3>2. r.n = 0 /\ r.e = q.e /\ r.buffered = 0 /\ r.pend = "nil" /\ r.faults \in Nat
      BY <2>2, <3>1 DEF Outcome, Window
    <3> QED  BY <2>2, <2>3, <2>4, <3>2 DEF Answer, Window, Errs
  <2>5. CASE q.k # 0
    <3> DEFINE n == Min2(q.k, len)
    <3>1. r = Outcome(n, "nil", q.k - n, q.e, q.e = "err")
      BY <2>1, <2>5
    <3>2. n \in 0 .. len /\ q.k - n \in Nat
      BY <2>2 DEF Min2
    <3> HIDE DEF n
    <3>3. next + n + (q.k - n) = next + q.k
      BY <2>2, <3>2 DEF Window
    <3>9. r.n = n /\ r.e = "nil" /\ r.buffered = q.k - n /\ r.pend = q.e /\ r.faults \in Nat
      BY <2>2, <3>1 DEF Outcome, Window
    <3> QED  BY <2>2, <2>3, <2>5, <3>1, <3>2, <3>3, <3>9 DEF Answer, Window, Errs
  <2> QED  BY <2>4, <2>5
<1> QED  BY <1>1, <1>2, <1>3, <1>4

(* io.ReadFull through the window, which without an error is full.         *)
LEMMA ReadFullAnswers ==
    ASSUME Window, NEW want \in Nat, NEW r \in audioReadFull(want)
    PROVE  Answer(r, want) /\ (r.e = "nil" => r.n = want)
<1> DEFINE short == want - buffered
           over == avail - short
<1>1. /\ avail \in Nat /\ (avail > 0 => avail = end - (next + buffered))
      /\ end <= next + buffered + avail
  BY DEF avail, Max2, Window
<1>2. CASE short <= 0
  <2>1. r = Outcome(want, "nil", -short, pend, FALSE)
    BY <1>2 DEF audioReadFull
  <2>2. -short \in Nat /\ next + want + (-short) = next + buffered
    BY <1>2 DEF Window
  <2>3. want > 0 \/ -short > 0 => buffered > 0
    BY <1>2 DEF Window
  <2>4. r.e = "nil" /\ r.n = want
    BY <2>1 DEF Outcome
  <2> HIDE DEF short
  <2>9. r.n = want /\ r.e = "nil" /\ r.buffered = -short /\ r.pend = pend /\ r.faults \in Nat
    BY <2>1 DEF Outcome, Window
  <2> QED  BY <2>2, <2>3, <2>9 DEF Answer, Window, Errs
<1>3. CASE ~(short <= 0) /\ pend # "nil"
  <2>1. r = Outcome(buffered, pend, 0, "nil", FALSE)
    BY <1>3 DEF audioReadFull
  <2>2. buffered \in 0 .. want
    BY <1>3 DEF Window
  <2>3. r.e = pend
    BY <2>1 DEF Outcome
  <2>9. r.n = buffered /\ r.e = pend /\ r.buffered = 0 /\ r.pend = "nil" /\ r.faults \in Nat
    BY <2>1 DEF Outcome, Window
  <2> QED  BY <1>3, <2>2, <2>9 DEF Answer, Window, Errs
<1>4. CASE ~(short <= 0) /\ pend = "nil"
  <2>1. \/ \E q \in (0 .. Min2(over, streamBufferSize - 1)) \X {"nil", "EOF", "err"} :
              /\ q[2] = "EOF" => q[1] = over
              /\ q[2] = "err" => faults > 0
              /\ r = Outcome(want, "nil", q[1], q[2], q[2] = "err")
        \/ over < 0 /\ r = Outcome(buffered + avail, "EOF", 0, "nil", FALSE)
        \/ \E k \in 0 .. Min2(avail, short - 1) :
              faults > 0 /\ r = Outcome(buffered + k, "err", 0, "nil", TRUE)
    BY <1>4 DEF audioReadFull
  <2>2. short \in Nat /\ short > 0 /\ over \in Int
    BY <1>1, <1>4 DEF Window
  <2>3. ASSUME NEW k \in Int, NEW p \in Errs,
               k \in 0 .. Min2(over, streamBufferSize - 1),
               p = "EOF" => k = over, p = "err" => faults > 0,
               r = Outcome(want, "nil", k, p, p = "err")
        PROVE  Answer(r, want) /\ r.n = want
    <3>1. k \in Nat /\ k <= over
      BY <2>2, <2>3, DecoderAssumption DEF Min2
    <3>2. avail = end - (next + buffered)
      BY <1>1, <2>2, <3>1
    <3>3. next + want + k <= end /\ (p = "EOF" => end <= next + want + k)
      BY <1>1, <2>3, <3>1, <3>2 DEF Window
    <3>4. r.n = want
      BY <2>3 DEF Outcome
    <3> HIDE DEF over, short
    <3>9. r.n = want /\ r.e = "nil" /\ r.buffered = k /\ r.pend = p /\ r.faults \in Nat
      BY <2>3 DEF Outcome, Window
    <3> QED  BY <2>3, <3>1, <3>3, <3>9 DEF Answer, Window, Errs
  <2>4. ASSUME over < 0, r = Outcome(buffered + avail, "EOF", 0, "nil", FALSE)
        PROVE  Answer(r, want) /\ r.e = "EOF"
    <3>1. buffered + avail \in 0 .. want
      BY <1>1, <2>4 DEF Window
    <3>2. buffered + avail > 0 => next + (buffered + avail) <= end
      BY <1>1 DEF Window
    <3>3. end <= next + (buffered + avail)
      BY <1>1 DEF Window
    <3>4. r.e = "EOF"
      BY <2>4 DEF Outcome
    <3> HIDE DEF over, short
    <3> DEFINE n == buffered + avail
    <3> HIDE DEF n
    <3>5. n \in 0 .. want /\ (n > 0 => next + n <= end) /\ end <= next + n
      BY <3>1, <3>2, <3>3 DEF n
    <3>6. r = Outcome(n, "EOF", 0, "nil", FALSE)
      BY <2>4 DEF n
    <3>9. r.n = n /\ r.e = "EOF" /\ r.buffered = 0 /\ r.pend = "nil" /\ r.faults \in Nat
      BY <3>6 DEF Outcome, Window
    <3> QED  BY <3>5, <3>9 DEF Answer, Window, Errs
  <2>5. ASSUME NEW k \in 0 .. Min2(avail, short - 1), faults > 0,
               r = Outcome(buffered + k, "err", 0, "nil", TRUE)
        PROVE  Answer(r, want) /\ r.e = "err"
    <3>1. k \in Nat /\ k <= avail /\ k < short
      BY <1>1, <2>2 DEF Min2
    <3> DEFINE n == buffered + k
    <3>2. n \in 0 .. want /\ (n > 0 => next + n <= end)
      BY <1>1, <3>1 DEF Window
    <3>3. r.e = "err"
      BY <2>5 DEF Outcome
    <3>4. r = Outcome(n, "err", 0, "nil", TRUE)
      BY <2>5
    <3> HIDE DEF n, over, short
    <3>9. r.n = n /\ r.e = "err" /\ r.buffered = 0 /\ r.pend = "nil" /\ r.faults \in Nat
      BY <2>5, <3>4 DEF Outcome, Window
    <3> QED  BY <3>2, <3>9 DEF Answer, Window, Errs
  <2>6. CASE \E q \in (0 .. Min2(over, streamBufferSize - 1)) \X {"nil", "EOF", "err"} :
              /\ q[2] = "EOF" => q[1] = over
              /\ q[2] = "err" => faults > 0
              /\ r = Outcome(want, "nil", q[1], q[2], q[2] = "err")
    <3>1. PICK q \in (0 .. Min2(over, streamBufferSize - 1)) \X {"nil", "EOF", "err"} :
              /\ q[2] = "EOF" => q[1] = over
              /\ q[2] = "err" => faults > 0
              /\ r = Outcome(want, "nil", q[1], q[2], q[2] = "err")
      BY <2>6
    <3>2. q[1] \in 0 .. Min2(over, streamBufferSize - 1) /\ q[1] \in Int /\ q[2] \in Errs
      BY DEF Errs
    <3> HIDE DEF over, short
    <3> QED  BY <2>3, <3>1, <3>2
  <2>7. r.e = "EOF" \/ r.e = "err" => r.e # "nil"
    OBVIOUS
  <2> HIDE DEF over, short
  <2> QED  BY <2>1, <2>4, <2>5, <2>6, <2>7
<1> QED  BY <1>2, <1>3, <1>4

-----------------------------------------------------------------------------
(* The audio of the bound stream.                                          *)

(* A unit is at least a byte, read or handed over.                         *)
LEMMA UnitType ==
    ASSUME st \in StreamType
    PROVE  /\ unitIn \in Nat /\ unitIn > 0 /\ unitOut \in Nat /\ unitOut > 0
           /\ convert(st) \in Nat /\ st.width \in Nat /\ st.width > 0
<1>1. /\ st.width \in Nat /\ st.width # 0 /\ st.convert \in Nat
      /\ st.companded \in BOOLEAN
  BY DEF StreamType
<1>2. convert(st) \in Nat
  BY <1>1 DEF convert
<1> QED  BY <1>1, <1>2 DEF unitIn, unitOut

(* So many bytes, none of them of a unit that does not lie in the stretch. *)
LEMMA AudioType ==
    ASSUME st \in StreamType, NEW o \in Nat, NEW n \in Nat
    PROVE  /\ Audio(o, n) \in Seq(Byte)
           /\ Len(Audio(o, n)) = Produced(n, unitIn, unitOut)
           /\ Behind(Audio(o, n), o + n)
<1> DEFINE w == unitIn
           d == unitOut
<1>1. w \in Nat /\ d \in Nat /\ w > 0 /\ d > 0
  BY UnitType
<1> HIDE DEF w, d
<1> DEFINE A == Converted(o, n, w, d)
<1>2. A \in Seq(Byte)
  BY <1>1, ConvertedSeq
<1>3. Len(A) = Produced(n, w, d)
  BY <1>1, <1>2, ConvertedLen
<1>4. ASSUME NEW i \in 1 .. Len(A)
      PROVE  A[i][1] + w <= o + n
  <2>1. i \in 1 .. Produced(n, w, d)
    BY <1>3
  <2>2. A[i] = ByteAt(o, w, d, i)
    BY <1>1, <2>1, ConvertedAt
  <2>3. ByteAt(o, w, d, i)[1] + w <= o + n
    BY <1>1, <2>1, ByteAtType
  <2> QED  BY <2>2, <2>3
<1>5. A = Audio(o, n)
  BY DEF Audio, w, d
<1> HIDE DEF A
<1> QED  BY <1>2, <1>3, <1>4, <1>5 DEF Behind, w, d

(* Nothing becomes nothing.                                                *)
LEMMA AudioEmpty ==
    ASSUME st \in StreamType, NEW o \in Nat
    PROVE  Audio(o, 0) = << >>
<1>1. unitIn \in Nat /\ unitOut \in Nat /\ unitIn > 0
  BY UnitType
<1>2. \A w \in Nat : w > 0 => (0 * w + 0) \div w = 0
  BY DivIs
<1>3. \A w \in Nat : 0 * w + 0 = 0
  OBVIOUS
<1>4. Produced(0, unitIn, unitOut) = 0
  BY <1>1, <1>2, <1>3 DEF Produced
<1>5. Audio(o, 0) \in Seq(Byte) /\ Len(Audio(o, 0)) = 0
  BY <1>4, AudioType
<1> QED  BY <1>5, EmptySeq

(* Whole units and what follows them.                                      *)
LEMMA AudioConcat ==
    ASSUME st \in StreamType, NEW o \in Nat, NEW n \in Nat, NEW m \in Nat, Whole(n, unitIn)
    PROVE  Audio(o, n) \o Audio(o + n, m) = Audio(o, n + m)
<1> DEFINE w == unitIn
           d == unitOut
<1>1. w \in Nat /\ w > 0 /\ d \in Nat /\ d > 0 /\ Whole(n, w)
  BY UnitType
<1> HIDE DEF w, d
<1>2. Joins(o, n, m, w, d)
  BY <1>1, ConvertedConcat
<1> QED  BY <1>2 DEF Joins, Audio, w, d

(* A stretch with as many whole units is the same audio.                   *)
LEMMA AudioSame ==
    ASSUME NEW o \in Nat, NEW n \in Nat, NEW m \in Nat, n \div unitIn = m \div unitIn
    PROVE  Audio(o, n) = Audio(o, m)
<1> DEFINE w == unitIn
           q == n \div w
           at(i) == <<o + (((i - 1) \div unitOut) * w), ((i - 1) % unitOut) + 1>>
<1>1. q = m \div w
  OBVIOUS
<1>2. Audio(o, n) = [i \in 1 .. (q * unitOut) |-> at(i)]
  BY Zenon DEF Audio, Converted
<1>3. Audio(o, m) = [i \in 1 .. ((m \div w) * unitOut) |-> at(i)]
  BY Zenon DEF Audio, Converted
<1> HIDE DEF q, at
<1> QED  BY <1>1, <1>2, <1>3, Zenon

(* A shorter stretch is heard first.                                       *)
LEMMA AudioPrefix ==
    ASSUME st \in StreamType, NEW o \in Nat, NEW n \in Nat, NEW m \in Nat, m <= n
    PROVE  IsPrefix(Audio(o, m), Audio(o, n))
<1>1. unitIn \in Nat /\ unitIn > 0 /\ unitOut \in Nat /\ unitOut > 0
  BY UnitType
<1> QED  BY <1>1, ConvertedPrefix DEF Audio

(* Read as they are, stored bytes are their own units.                     *)
LEMMA AudioStored ==
    ASSUME convert(st) = 0, NEW o \in Nat, NEW n \in Nat
    PROVE  Audio(o, n) = Stored(o, n) /\ unitIn = 1 /\ Whole(n, unitIn)
<1>1. unitIn = 1 /\ unitOut = 1
  BY DEF unitIn, unitOut
<1>2. n % 1 = 0
  OBVIOUS
<1> QED  BY <1>1, <1>2, StoredIsConverted DEF Audio, Whole

(* Converted, they go in and out by the sample.                            *)
LEMMA AudioConverted ==
    ASSUME convert(st) # 0, NEW o \in Nat, NEW n \in Nat
    PROVE  Audio(o, n) = Converted(o, n, st.width, convert(st)) /\ unitIn = st.width
BY DEF Audio, unitIn, unitOut

(* Two runs of bytes lie in front of a place when each of them does, and   *)
(* in front of any later place.                                            *)
LEMMA BehindConcat ==
    ASSUME st \in StreamType, NEW s \in Seq(Byte), NEW t \in Seq(Byte), NEW p \in Int, NEW q \in Int,
           p <= q
    PROVE  /\ Behind(s \o t, q) <=> Behind(s, q) /\ Behind(t, q)
           /\ Behind(s, p) => Behind(s, q)
<1>1. /\ Len(s \o t) = Len(s) + Len(t)
      /\ \A i \in 1 .. Len(s) + Len(t) :
            (s \o t)[i] = IF i <= Len(s) THEN s[i] ELSE t[i - Len(s)]
  BY ConcatProperties
<1>2. Len(s) \in Nat /\ Len(t) \in Nat
  BY LenProperties
<1>3. ASSUME Behind(s \o t, q)
      PROVE  Behind(s, q) /\ Behind(t, q)
  <2>1. ASSUME NEW i \in 1 .. Len(s) PROVE s[i][1] + unitIn <= q
    <3>1. i \in 1 .. Len(s) + Len(t) /\ (s \o t)[i] = s[i]
      BY <1>1, <1>2
    <3> QED  BY <1>1, <1>3, <3>1 DEF Behind
  <2>2. ASSUME NEW i \in 1 .. Len(t) PROVE t[i][1] + unitIn <= q
    <3>1. Len(s) + i \in 1 .. Len(s) + Len(t) /\ (s \o t)[Len(s) + i] = t[i]
      BY <1>1, <1>2
    <3> QED  BY <1>1, <1>3, <3>1 DEF Behind
  <2> QED  BY <2>1, <2>2 DEF Behind
<1>4. ASSUME Behind(s, q), Behind(t, q)
      PROVE  Behind(s \o t, q)
  <2> SUFFICES ASSUME NEW i \in 1 .. Len(s) + Len(t)
               PROVE  (s \o t)[i][1] + unitIn <= q
    BY <1>1 DEF Behind
  <2>1. CASE i <= Len(s)
    BY <1>1, <1>2, <1>4, <2>1 DEF Behind
  <2>2. CASE i > Len(s)
    <3>1. i - Len(s) \in 1 .. Len(t) /\ (s \o t)[i] = t[i - Len(s)]
      BY <1>1, <1>2, <2>2
    <3> QED  BY <1>4, <3>1 DEF Behind
  <2> QED  BY <1>2, <2>1, <2>2
<1>5. ASSUME Behind(s, p)
      PROVE  Behind(s, q)
  <2> SUFFICES ASSUME NEW i \in 1 .. Len(s) PROVE s[i][1] + unitIn <= q
    BY DEF Behind
  <2>1. s[i][1] \in Nat
    <3>1. s[i] \in Byte
      BY ElementOfSeq
    <3> QED  BY <3>1 DEF Byte
  <2>2. s[i][1] + unitIn <= p /\ unitIn \in Nat
    BY <1>5, UnitType DEF Behind
  <2> QED  BY <2>1, <2>2
<1> QED  BY <1>3, <1>4, <1>5

(* A batch is of whole samples, no more than remain of the data chunk, and *)
(* only nothing when not one whole sample remains.                         *)
LEMMA BatchLen ==
    ASSUME NEW len \in Nat, NEW w \in Nat, w > 0, NEW d \in Nat, d > 0, NEW left \in Int
    PROVE  /\ convertBatchLen(len, w, d, left) \in Nat
           /\ Whole(convertBatchLen(len, w, d, left), w)
           /\ left >= 0 => convertBatchLen(len, w, d, left) <= left
           /\ convertBatchLen(len, w, d, left) = 0 => 0 <= left /\ left < w
<1> DEFINE a == len \div d
           b == streamBufferSize \div w
           samples == Min2(Max2(a, 1), Max2(b, 1))
           want == samples * w
<1>1. a \in Nat /\ b \in Nat
  BY DivMod, DecoderAssumption
<1>2. samples \in Nat /\ samples >= 1
  BY <1>1 DEF Min2, Max2
<1>3. convertBatchLen(len, w, d, left)
         = IF left >= 0 /\ left < want THEN left - (left % w) ELSE want
  BY DEF convertBatchLen
<1> HIDE DEF samples
<1>4. want \in Nat /\ want >= w
  BY <1>2
<1>5. Whole(want, w)
  <2>1. (samples * w + 0) % w = 0 /\ samples * w + 0 = want
    BY <1>2, DivIs
  <2> QED  BY <2>1 DEF Whole
<1>6. CASE left >= 0 /\ left < want
  <2> DEFINE r == left % w
  <2>1. left - r \in Nat /\ (left - r) % w = 0 /\ r \in Nat /\ r < w
    BY <1>6, DivFloor, DivMod
  <2>2. Whole(left - r, w)
    BY <2>1 DEF Whole
  <2>3. convertBatchLen(len, w, d, left) = left - r
    BY <1>3, <1>6
  <2> HIDE DEF r, want
  <2>4. r \in Nat /\ r < w /\ left - r \in Nat
    BY <2>1
  <2> QED  BY <1>6, <2>2, <2>3, <2>4
<1>7. CASE ~(left >= 0 /\ left < want)
  <2>1. convertBatchLen(len, w, d, left) = want
    BY <1>3, <1>7
  <2> HIDE DEF want
  <2> QED  BY <1>4, <1>5, <1>7, <2>1
<1> QED  BY <1>6, <1>7

-----------------------------------------------------------------------------
(* What one Read does, whichever way it goes.                              *)

(* n stored bytes are passed, of which m, in whole units, become audio     *)
(* that is handed over behind what was staged or staged in its turn.  Only *)
(* less than a unit, the last of a source that does not grow, is dropped   *)
(* without being torn.                                                     *)
Passage(len, n, m) ==
    /\ n \in Nat /\ m \in Nat /\ m <= n /\ Whole(m, unitIn)
    /\ next' = next + n
    /\ buffered' \in Nat /\ pend' \in Errs /\ faults' \in Nat
    /\ staged' \in Seq(Byte)
    /\ got'.bytes \in Seq(Byte) /\ got'.e \in Errs /\ Len(got'.bytes) <= len
    /\ got' = [bytes |-> got'.bytes, e |-> got'.e]
    /\ staged \o Audio(next, m) = got'.bytes \o staged'
    /\ out' = out \o got'.bytes
    /\ n > 0 \/ buffered' > 0 => next + n + buffered' <= end
    /\ pend' = "EOF" /\ ~st.grows => end <= next + n + buffered'
    /\ remaining > 0 => n <= remaining
    /\ remaining = 0 => n = 0
    /\ remaining' \in {0, IF remaining > 0 THEN remaining - n ELSE remaining}
    /\ torn' \in BOOLEAN /\ (torn => torn')
    /\ ~torn' => n - m < unitIn /\ (n # m => end <= next + n /\ ~st.grows)
    /\ convert(st) = 0 => staged' = << >>
    /\ got'.e = "EOF" => remaining' = 0 /\ staged' = << >>
    /\ remaining' = 0 /\ ~torn' /\ ~st.grows =>
          \/ remaining = 0 /\ n = 0
          \/ end <= next + n
          \/ remaining > 0 /\ remaining - n < unitIn
    /\ remaining = 0 /\ staged = << >> => got'.bytes = << >>

(* What the invariant says of the reader over the source.                  *)
LEMMA WindowInv == DTypeOK /\ PlaceInv => Window
BY DEF DTypeOK, PlaceInv, Window

(* Nothing is passed and nothing handed over: the end, or its repetition.  *)
LEMMA NothingPassed ==
    ASSUME DTypeOK, PlaceInv, NEW len \in Nat, NEW e \in Errs, e # "nil",
           staged = << >>, Deliver(<< >>, e), NoSource,
           remaining' = 0, UNCHANGED <<staged, torn>>,
           remaining = 0 \/ (remaining > 0 /\ remaining < unitIn)
    PROVE  Passage(len, 0, 0)
<1>1. st \in StreamType /\ next \in Nat /\ end \in Nat /\ remaining \in Int /\ out \in Seq(Byte)
      /\ torn \in BOOLEAN /\ buffered \in Nat /\ pend \in Errs /\ faults \in Nat
  BY DEF DTypeOK
<1>2. unitIn \in Nat /\ unitIn > 0
  BY <1>1, UnitType
<1>3. Whole(0, unitIn)
  <2>1. (0 * unitIn + 0) % unitIn = 0 /\ 0 * unitIn + 0 = 0
    BY <1>2, DivIs
  <2> QED  BY <2>1 DEF Whole
<1>4. got'.bytes = << >> /\ got'.e = e /\ got' = [bytes |-> << >>, e |-> e] /\ out' = out \o << >>
  BY DEF Deliver
<1>5. Audio(next, 0) = << >> /\ << >> \in Seq(Byte) /\ Len(<< >>) = 0
  BY <1>1, AudioEmpty, EmptySeq
<1>6. staged \o Audio(next, 0) = got'.bytes \o staged'
  BY <1>4, <1>5
<1>7. next' = next /\ buffered' = buffered /\ pend' = pend /\ faults' = faults
      /\ staged' = << >> /\ torn' = torn
  BY DEF NoSource
<1>8. /\ buffered > 0 => next + buffered <= end
      /\ pend = "EOF" /\ ~st.grows => end <= next + buffered
  BY DEF PlaceInv
<1>9. /\ 0 > 0 \/ buffered' > 0 => next + 0 + buffered' <= end
      /\ pend' = "EOF" /\ ~st.grows => end <= next + 0 + buffered'
  BY <1>1, <1>7, <1>8
<1>10. got' = [bytes |-> got'.bytes, e |-> got'.e]
  BY <1>4
<1>11. out' = out \o got'.bytes /\ got'.bytes \in Seq(Byte) /\ Len(got'.bytes) <= len
  BY <1>4, <1>5
<1>12. remaining > 0 => 0 <= remaining /\ remaining - 0 < unitIn
  BY <1>1, <1>2
<1> QED  BY <1>1, <1>2, <1>3, <1>4, <1>6, <1>7, <1>9, <1>10, <1>11, <1>12 DEF Passage

(* Bytes as they are stored: all that was taken is handed over.            *)
LEMMA RawPassage ==
    ASSUME DTypeOK, PlaceInv, OrderInv, NEW len \in Nat, len > 0, convert(st) = 0, readRaw(len)
    PROVE  \E n, m \in Nat : Passage(len, n, m)
<1>1. st \in StreamType /\ next \in Nat /\ end \in Nat /\ remaining \in Int /\ out \in Seq(Byte)
      /\ torn \in BOOLEAN
  BY DEF DTypeOK
<1>2. staged = << >>
  BY DEF OrderInv
<1>3. CASE remaining = 0
  <2>1. Deliver(<< >>, "EOF") /\ NoSource /\ UNCHANGED <<remaining, staged, torn>>
    BY <1>3 DEF readRaw
  <2>2. Passage(len, 0, 0)
    BY <1>2, <1>3, <2>1, NothingPassed DEF Errs
  <2> QED  BY <2>2
<1>4. CASE remaining # 0
  <2> DEFINE max == IF remaining > 0 THEN Min2(len, remaining) ELSE len
  <2>1. max \in Nat /\ max <= len /\ (remaining > 0 => max <= remaining)
    BY <1>1 DEF Min2
  <2>2. PICK r \in audioRead(max) :
           /\ Deliver(Stored(next, r.n), r.e)
           /\ Took(r)
           /\ remaining' = IF r.e = "EOF" THEN 0
                           ELSE IF remaining > 0 THEN remaining - r.n ELSE remaining
           /\ UNCHANGED <<staged, torn>>
    BY <1>4 DEF readRaw
  <2>3. Window
    BY WindowInv
  <2>4. Answer(r, max)
    BY <2>1, <2>2, <2>3, ReadAnswers
  <2> DEFINE n == r.n
             A == Stored(next, n)
  <2>5. n \in Nat /\ n <= max /\ r.e \in Errs
    BY <2>1, <2>4 DEF Answer
  <2>6. A = Audio(next, n) /\ unitIn = 1 /\ Whole(n, unitIn)
    BY <1>1, <2>5, AudioStored
  <2>7. A \in Seq(Byte) /\ Len(A) = n
    <3>1. Len(Audio(next, n)) = Produced(n, 1, 1) /\ Audio(next, n) \in Seq(Byte)
      <4>1. unitOut = 1
        BY DEF unitOut
      <4> QED  BY <1>1, <2>5, <2>6, <4>1, AudioType
    <3>2. Produced(n, 1, 1) = n
      <4>1. n \div 1 = n
        BY <2>5
      <4> QED  BY <2>5, <4>1 DEF Produced
    <3> QED  BY <2>6, <3>1, <3>2
  <2>8. got' = [bytes |-> A, e |-> r.e] /\ out' = out \o A /\ staged' = << >> /\ torn' = torn
        /\ next' = next + n /\ buffered' = r.buffered /\ pend' = r.pend /\ faults' = r.faults
    BY <1>2, <2>2 DEF Deliver, Took
  <2>9. remaining' = IF r.e = "EOF" THEN 0 ELSE IF remaining > 0 THEN remaining - n ELSE remaining
    BY <2>2
  <2>10. << >> \o A = A /\ A \o << >> = A
    BY <2>7, ConcatEmptySeq
  <2>11. /\ buffered' \in Nat /\ pend' \in Errs /\ faults' \in Nat
         /\ n > 0 \/ buffered' > 0 => next + n + buffered' <= end
         /\ pend' = "EOF" /\ ~st.grows => end <= next + n + buffered'
         /\ r.e = "EOF" /\ ~st.grows => end <= next + n
    BY <2>4, <2>8 DEF Answer
  <2> HIDE DEF n, A, max
  <2>12. got'.bytes = A /\ got'.e = r.e
    BY <2>8
  <2>13. staged \o Audio(next, n) = got'.bytes \o staged'
    BY <1>2, <2>6, <2>8, <2>10, <2>12
  <2>14. /\ got'.bytes \in Seq(Byte) /\ got'.e \in Errs /\ Len(got'.bytes) <= len
         /\ got' = [bytes |-> got'.bytes, e |-> got'.e]
         /\ out' = out \o got'.bytes /\ staged' \in Seq(Byte)
    BY <2>1, <2>5, <2>7, <2>8, <2>12, EmptySeq
  <2>15. /\ remaining > 0 => n <= remaining
         /\ remaining' \in {0, IF remaining > 0 THEN remaining - n ELSE remaining}
         /\ got'.e = "EOF" => remaining' = 0 /\ staged' = << >>
    BY <1>1, <2>1, <2>5, <2>8, <2>9, <2>12
  <2>16. remaining' = 0 /\ ~st.grows => \/ end <= next + n
                                        \/ remaining > 0 /\ remaining - n < unitIn
    BY <1>1, <1>4, <2>5, <2>6, <2>9, <2>11
  <2>17. n - n < unitIn
    BY <2>5, <2>6
  <2>18. Passage(len, n, n)
    BY <1>1, <1>4, <2>5, <2>6, <2>8, <2>11, <2>13, <2>14, <2>15, <2>16, <2>17 DEF Passage
  <2> QED  BY <2>5, <2>18
<1> QED  BY <1>3, <1>4

(* What does not fit the buffer is staged.                                 *)
LEMMA Serve ==
    ASSUME NEW b \in Seq(Byte), NEW len \in Nat
    PROVE  /\ SubSeq(b, 1, Min2(len, Len(b))) \o SubSeq(b, len + 1, Len(b)) = b
           /\ SubSeq(b, 1, Min2(len, Len(b))) \in Seq(Byte)
           /\ Len(SubSeq(b, 1, Min2(len, Len(b)))) <= len
           /\ SubSeq(b, len + 1, Len(b)) \in Seq(Byte)
<1> DEFINE k == Min2(len, Len(b))
<1>1. Len(b) \in Nat /\ k \in Nat /\ k <= len /\ k <= Len(b)
  BY LenProperties DEF Min2
<1>2. SubSeq(b, len + 1, Len(b)) = SubSeq(b, k + 1, Len(b))
  <2>1. CASE len <= Len(b)
    <3>1. k = len
      BY <1>1, <2>1 DEF Min2
    <3> HIDE DEF k
    <3> QED  BY <3>1
  <2>2. CASE len > Len(b)
    <3>1. k = Len(b) /\ Len(b) < len + 1 /\ Len(b) < Len(b) + 1
      BY <1>1, <2>2 DEF Min2
    <3>2. SubSeq(b, len + 1, Len(b)) = << >>
      BY <1>1, <3>1, SubSeqEmpty
    <3>3. SubSeq(b, Len(b) + 1, Len(b)) = << >>
      BY <1>1, <3>1, SubSeqEmpty
    <3> HIDE DEF k
    <3> QED  BY <3>1, <3>2, <3>3
  <2>3. len <= Len(b) \/ len > Len(b)
    BY <1>1
  <2> QED  BY <2>1, <2>2, <2>3
<1> HIDE DEF k
<1>3. \A i \in 1 .. Len(b) : b[i] \in Byte
  BY ElementOfSeq
<1>4. SubSeq(b, 1, k) \in Seq(Byte) /\ Len(SubSeq(b, 1, k)) = k
  BY <1>1, <1>3, SubSeqProperties
<1>5. SubSeq(b, k + 1, Len(b)) \in Seq(Byte)
  BY <1>1, <1>3, SubSeqProperties
<1>6. SubSeq(b, 1, k) \o SubSeq(b, k + 1, Len(b)) = b
  <2>1. SubSeq(b, 1, k) \o SubSeq(b, k + 1, Len(b)) = SubSeq(b, 1, Len(b))
    <3>1. 1 \in 1 .. Len(b) + 1 /\ k \in 1 - 1 .. Len(b) /\ Len(b) \in k .. Len(b)
      BY <1>1
    <3> QED  BY <3>1, ConcatAdjacentSubSeq
  <2> QED  BY <2>1, SubSeqFull
<1> QED  BY <1>1, <1>2, <1>4, <1>5, <1>6 DEF k

(* Samples: served from what is staged, or taken from the source by the    *)
(* batch and converted.                                                    *)
LEMMA ConvertedPassage ==
    ASSUME DTypeOK, PlaceInv, OrderInv, NEW len \in Nat, len > 0, convert(st) # 0,
           readConverted(len)
    PROVE  \E n, m \in Nat : Passage(len, n, m)
<1> DEFINE w == st.width
           want == convertBatchLen(len, w, convert(st), remaining)
           serve(bytes) ==
              /\ Deliver(SubSeq(bytes, 1, Min2(len, Len(bytes))), "nil")
              /\ staged' = SubSeq(bytes, len + 1, Len(bytes))
           ended == remaining' = 0 /\ Deliver(<< >>, "EOF") /\ UNCHANGED staged
           left(n) == IF remaining > 0 THEN remaining - n ELSE remaining
<1>1. st \in StreamType /\ next \in Nat /\ end \in Nat /\ remaining \in Int /\ out \in Seq(Byte)
      /\ torn \in BOOLEAN /\ staged \in Seq(Byte) /\ buffered \in Nat /\ pend \in Errs
      /\ faults \in Nat
  BY DEF DTypeOK
<1>2. w \in Nat /\ w > 0 /\ convert(st) \in Nat /\ convert(st) > 0 /\ unitIn = w /\ st.grows \in BOOLEAN
  <2>1. st.grows \in BOOLEAN
    BY <1>1 DEF StreamType
  <2> QED  BY <1>1, <2>1, UnitType DEF unitIn
<1>3. Whole(0, w)
  <2>1. (0 * w + 0) % w = 0 /\ 0 * w + 0 = 0
    BY <1>2, DivIs
  <2> QED  BY <2>1 DEF Whole
<1>4. want \in Nat /\ Whole(want, w) /\ (remaining >= 0 => want <= remaining)
      /\ (want = 0 => 0 <= remaining /\ remaining < w)
  BY <1>1, <1>2, BatchLen
<1>5. Window
  BY WindowInv
<1>6. ASSUME NEW b \in Seq(Byte), serve(b)
      PROVE  /\ got'.bytes \o staged' = b /\ staged' \in Seq(Byte)
             /\ got'.bytes \in Seq(Byte) /\ got'.e = "nil" /\ Len(got'.bytes) <= len
             /\ got' = [bytes |-> got'.bytes, e |-> got'.e] /\ out' = out \o got'.bytes
  <2> DEFINE front == SubSeq(b, 1, Min2(len, Len(b)))
             back == SubSeq(b, len + 1, Len(b))
  <2>1. front \o back = b /\ front \in Seq(Byte) /\ Len(front) <= len /\ back \in Seq(Byte)
    BY Serve
  <2>2. got' = [bytes |-> front, e |-> "nil"] /\ out' = out \o front /\ staged' = back
    BY <1>6 DEF Deliver
  <2> HIDE DEF front, back
  <2>3. got'.bytes = front /\ got'.e = "nil"
    BY <2>2
  <2> QED  BY <2>1, <2>2, <2>3
<1>7. CASE staged # << >>
  <2>1. serve(staged) /\ NoSource /\ UNCHANGED <<remaining, torn>>
    BY <1>7 DEF readConverted
  <2> HIDE DEF serve
  <2>2. /\ got'.bytes \o staged' = staged /\ staged' \in Seq(Byte)
        /\ got'.bytes \in Seq(Byte) /\ got'.e = "nil" /\ Len(got'.bytes) <= len
        /\ got' = [bytes |-> got'.bytes, e |-> got'.e] /\ out' = out \o got'.bytes
    BY <1>1, <1>6, <2>1
  <2>3. next' = next /\ buffered' = buffered /\ pend' = pend /\ faults' = faults
        /\ remaining' = remaining /\ torn' = torn
    BY <2>1 DEF NoSource
  <2>4. Audio(next, 0) = << >> /\ staged \o << >> = staged
    BY <1>1, AudioEmpty, ConcatEmptySeq
  <2>5. staged \o Audio(next, 0) = got'.bytes \o staged'
    BY <2>2, <2>4
  <2>6. /\ buffered > 0 => next + buffered <= end
        /\ pend = "EOF" /\ ~st.grows => end <= next + buffered
    BY DEF PlaceInv
  <2>7. /\ 0 > 0 \/ buffered' > 0 => next + 0 + buffered' <= end
        /\ pend' = "EOF" /\ ~st.grows => end <= next + 0 + buffered'
        /\ next' = next + 0
    BY <1>1, <2>3, <2>6
  <2>8. /\ remaining > 0 => 0 <= remaining
        /\ remaining' \in {0, IF remaining > 0 THEN remaining - 0 ELSE remaining}
    BY <1>1, <2>3
  <2>9. /\ 0 \in Nat /\ 0 <= 0 /\ Whole(0, unitIn) /\ 0 - 0 < unitIn
        /\ buffered' \in Nat /\ pend' \in Errs /\ faults' \in Nat
        /\ torn' \in BOOLEAN /\ (torn => torn') /\ got'.e \in Errs /\ got'.e # "EOF"
        /\ remaining' = 0 => remaining = 0 /\ 0 = 0
    BY <1>1, <1>2, <1>3, <2>2, <2>3 DEF Errs
  <2> HIDE DEF w
  <2>10. Passage(len, 0, 0)
    BY <1>7, <2>2, <2>5, <2>7, <2>8, <2>9 DEF Passage
  <2> QED  BY <2>10
<1>8. CASE staged = << >> /\ (remaining = 0 \/ want = 0)
  <2>1. ended /\ NoSource /\ UNCHANGED torn
    BY <1>8 DEF readConverted
  <2>2. remaining = 0 \/ (remaining > 0 /\ remaining < unitIn)
    BY <1>1, <1>2, <1>4, <1>8
  <2>3. Passage(len, 0, 0)
    BY <1>8, <2>1, <2>2, NothingPassed DEF Errs
  <2> QED  BY <2>3
<1>9. CASE staged = << >> /\ ~(remaining = 0 \/ want = 0)
  <2>1. PICK r \in audioReadFull(want) :
           /\ Took(r)
           /\ torn' = (torn \/ (r.e = "err" /\ r.n > 0) \/ (r.n % w # 0 /\ st.grows))
           /\ \/ r.e = "err" /\ remaining' = left(r.n) /\ Deliver(<< >>, "err") /\ UNCHANGED staged
              \/ r.e # "err" /\ r.n = r.n % w /\ ended
              \/ /\ r.e # "err" /\ r.n # r.n % w
                 /\ remaining' = left(r.n)
                 /\ serve(Converted(next, r.n - (r.n % w), w, convert(st)))
    BY <1>9 DEF readConverted
  <2> DEFINE n == r.n
             f == n % w
  <2>2. Answer(r, want) /\ (r.e = "nil" => r.n = want)
    BY <1>4, <1>5, <2>1, ReadFullAnswers
  <2>3. /\ n \in Nat /\ n <= want /\ r.e \in Errs
        /\ next' = next + n /\ buffered' \in Nat /\ pend' \in Errs /\ faults' \in Nat
        /\ n > 0 \/ buffered' > 0 => next + n + buffered' <= end
        /\ pend' = "EOF" /\ ~st.grows => end <= next + n + buffered'
        /\ r.e = "EOF" /\ ~st.grows => end <= next + n
    BY <1>4, <2>1, <2>2 DEF Answer, Took
  <2>4. f \in Nat /\ f < w /\ f <= n /\ n - f \in Nat /\ Whole(n - f, w)
    <3>1. f \in Nat /\ f < w
      BY <1>2, <2>3, DivMod
    <3>2. n - f \in Nat /\ (n - f) % w = 0
      BY <1>2, <2>3, DivFloor
    <3> HIDE DEF n, f
    <3>3. f <= n
      BY <2>3, <3>1, <3>2
    <3> QED  BY <3>1, <3>2, <3>3 DEF Whole
  <2>5. r.e = "nil" => f = 0
    BY <1>4, <2>2 DEF Whole
  <2>6. /\ torn' \in BOOLEAN /\ (torn => torn')
        /\ ~torn' => ~(r.e = "err" /\ n > 0) /\ ~(f # 0 /\ st.grows)
    BY <2>1
  <2>7. remaining > 0 => n <= remaining
    BY <1>1, <1>4, <2>3
  <2>8. left(n) = 0 => remaining > 0 /\ remaining - n < w
    BY <1>1, <1>2, <1>9, <2>3
  <2>9. want > 0
    BY <1>4, <1>9
  <2>10. << >> \in Seq(Byte) /\ Len(<< >>) = 0 /\ Audio(next, 0) = << >>
    BY <1>1, EmptySeq, AudioEmpty
  <2>11. \/ r.e = "err" /\ remaining' = left(n) /\ Deliver(<< >>, "err") /\ UNCHANGED staged
         \/ r.e # "err" /\ n = f /\ ended
         \/ /\ r.e # "err" /\ n # f
            /\ remaining' = left(n)
            /\ serve(Converted(next, n - f, w, convert(st)))
    BY <2>1
  <2>15. remaining # 0
    BY <1>9
  <2> HIDE DEF n, f, want, serve
  <2>12. CASE r.e = "err" /\ remaining' = left(n) /\ Deliver(<< >>, "err") /\ UNCHANGED staged
    <3>1. got' = [bytes |-> << >>, e |-> "err"] /\ out' = out \o << >> /\ staged' = << >>
      BY <1>9, <2>12 DEF Deliver
    <3>2. got'.bytes = << >> /\ got'.e = "err"
      BY <3>1
    <3>3. staged \o Audio(next, 0) = got'.bytes \o staged'
      BY <1>9, <2>10, <3>1, <3>2
    <3>4. /\ got'.bytes \in Seq(Byte) /\ Len(got'.bytes) <= len /\ staged' \in Seq(Byte)
          /\ got' = [bytes |-> got'.bytes, e |-> got'.e] /\ out' = out \o got'.bytes
      <4>1. got'.bytes \in Seq(Byte) /\ Len(got'.bytes) = 0 /\ staged' \in Seq(Byte)
        BY <2>10, <3>1, <3>2
      <4>2. got' = [bytes |-> got'.bytes, e |-> got'.e] /\ out' = out \o got'.bytes
        BY <3>1, <3>2
      <4> QED  BY <4>1, <4>2
    <3>5. ~torn' => n = 0
      BY <2>3, <2>6, <2>12
    <3>6. remaining' \in {0, IF remaining > 0 THEN remaining - n ELSE remaining}
      BY <2>12
    <3>7. Passage(len, n, 0)
      BY <1>2, <1>3, <2>3, <2>6, <2>7, <2>8, <2>12, <2>15, <3>1, <3>2, <3>3, <3>4, <3>5, <3>6
         DEF Passage, Errs
    <3> QED  BY <2>3, <3>7
  <2>13. CASE r.e # "err" /\ n = f /\ ended
    <3>1. got' = [bytes |-> << >>, e |-> "EOF"] /\ out' = out \o << >> /\ staged' = << >>
          /\ remaining' = 0
      BY <1>9, <2>13 DEF Deliver
    <3>2. got'.bytes = << >> /\ got'.e = "EOF"
      BY <3>1
    <3>3. staged \o Audio(next, 0) = got'.bytes \o staged'
      BY <1>9, <2>10, <3>1, <3>2
    <3>4. /\ got'.bytes \in Seq(Byte) /\ Len(got'.bytes) <= len /\ staged' \in Seq(Byte)
          /\ got' = [bytes |-> got'.bytes, e |-> got'.e] /\ out' = out \o got'.bytes
      <4>1. got'.bytes \in Seq(Byte) /\ Len(got'.bytes) = 0 /\ staged' \in Seq(Byte)
        BY <2>10, <3>1, <3>2
      <4>2. got' = [bytes |-> got'.bytes, e |-> got'.e] /\ out' = out \o got'.bytes
        BY <3>1, <3>2
      <4> QED  BY <4>1, <4>2
    <3>5. r.e = "EOF"
      <4>1. r.e = "nil" => n = want
        BY <2>2 DEF n
      <4> QED  BY <2>3, <2>5, <2>9, <2>13, <4>1 DEF Errs
    <3>6. n < w /\ (~torn' => (n # 0 => end <= next + n /\ ~st.grows))
          /\ (~st.grows => end <= next + n)
      BY <1>2, <2>3, <2>4, <2>6, <2>13, <3>5
    <3>7. Passage(len, n, 0)
      BY <1>2, <1>3, <2>3, <2>6, <2>7, <2>15, <3>1, <3>2, <3>3, <3>4, <3>6 DEF Passage, Errs
    <3> QED  BY <2>3, <3>7
  <2>14. CASE /\ r.e # "err" /\ n # f
              /\ remaining' = left(n)
              /\ serve(Converted(next, n - f, w, convert(st)))
    <3> DEFINE m == n - f
    <3>1. Converted(next, m, w, convert(st)) = Audio(next, m)
      BY <1>1, <2>4, AudioConverted
    <3>2. Audio(next, m) \in Seq(Byte)
      BY <1>1, <2>4, AudioType
    <3>3. serve(Audio(next, m))
      BY <2>14, <3>1
    <3> HIDE DEF m
    <3>4. /\ got'.bytes \o staged' = Audio(next, m) /\ staged' \in Seq(Byte)
          /\ got'.bytes \in Seq(Byte) /\ got'.e = "nil" /\ Len(got'.bytes) <= len
          /\ got' = [bytes |-> got'.bytes, e |-> got'.e] /\ out' = out \o got'.bytes
      BY <1>6, <3>2, <3>3
    <3>5. << >> \o Audio(next, m) = Audio(next, m)
      BY <3>2, ConcatEmptySeq
    <3>6. staged \o Audio(next, m) = got'.bytes \o staged'
      BY <1>9, <3>4, <3>5
    <3>7. m \in Nat /\ m <= n /\ Whole(m, unitIn) /\ n - m < unitIn /\ n - m = f
      BY <1>2, <2>3, <2>4 DEF m
    <3>8. ~torn' => (n # m => end <= next + n /\ ~st.grows)
      BY <2>3, <2>4, <2>5, <2>6, <2>14, <3>7 DEF Errs
    <3>9. remaining' \in {0, IF remaining > 0 THEN remaining - n ELSE remaining}
      BY <2>14
    <3>10. remaining' = 0 => remaining > 0 /\ remaining - n < unitIn
      BY <1>2, <2>8, <2>14
    <3>11. Passage(len, n, m)
      BY <1>9, <2>3, <2>6, <2>7, <3>4, <3>6, <3>7, <3>8, <3>9, <3>10, <1>2 DEF Passage, Errs
    <3> QED  BY <2>3, <3>7, <3>11
  <2> QED  BY <2>11, <2>12, <2>13, <2>14
<1> QED  BY <1>7, <1>8, <1>9

(* Whichever way a stream is read, a Read is a passage.                    *)
LEMMA ReadPasses ==
    ASSUME DTypeOK, PlaceInv, OrderInv, NEW len \in Nat, len > 0, readInto(len)
    PROVE  \E n, m \in Nat : Passage(len, n, m)
<1>1. CASE convert(st) = 0
  <2>1. readRaw(len)
    BY <1>1 DEF readInto
  <2> QED  BY <1>1, <2>1, RawPassage
<1>2. CASE convert(st) # 0
  <2>1. readConverted(len)
    BY <1>2 DEF readInto
  <2> QED  BY <1>2, <2>1, ConvertedPassage
<1> QED  BY <1>1, <1>2

-----------------------------------------------------------------------------
(* A passage keeps the invariant.                                          *)

(* What does not change while the stream is bound.                         *)
LEMMA SameStream ==
    ASSUME st' = st
    PROVE  unitIn' = unitIn /\ unitOut' = unitOut /\ lengthKnown' = lengthKnown
BY DEF unitIn, unitOut, lengthKnown

(* The reader's state stays what it is made of.                            *)
LEMMA PassageTypes ==
    ASSUME DTypeOK, NEW len, NEW n, NEW m, Passage(len, n, m)
    PROVE  /\ remaining' \in Int /\ next' \in Nat /\ buffered' \in Nat /\ pend' \in Errs
           /\ staged' \in Seq(Byte) /\ faults' \in Nat /\ out' \in Seq(Byte) /\ torn' \in BOOLEAN
           /\ got' \in [bytes : Seq(Byte), e : Errs]
<1>1. remaining \in Int /\ next \in Nat /\ out \in Seq(Byte)
  BY DEF DTypeOK
<1>2. /\ n \in Nat /\ next' = next + n
      /\ remaining' \in {0, IF remaining > 0 THEN remaining - n ELSE remaining}
      /\ buffered' \in Nat /\ pend' \in Errs /\ staged' \in Seq(Byte) /\ faults' \in Nat
      /\ torn' \in BOOLEAN
  BY DEF Passage
<1>3. /\ got'.bytes \in Seq(Byte) /\ got'.e \in Errs
      /\ got' = [bytes |-> got'.bytes, e |-> got'.e] /\ out' = out \o got'.bytes
  BY DEF Passage
<1>4. out' \in Seq(Byte)
  BY <1>1, <1>3, ConcatProperties
<1>5. got' \in [bytes : Seq(Byte), e : Errs]
  BY <1>3
<1> QED  BY <1>1, <1>2, <1>4, <1>5

(* It moves on by what was taken, within the source and the data chunk.    *)
LEMMA PassagePlace ==
    ASSUME DTypeOK, PlaceInv, NEW len, NEW n, NEW m, Passage(len, n, m),
           st' = st, end' = end, from' = from
    PROVE  PlaceInv'
<1>1. /\ remaining \in Int /\ next \in Nat /\ buffered \in Nat /\ end \in Nat /\ from \in Nat
      /\ st.declared \in Int
  BY DEF DTypeOK, StreamType
<1>2. /\ n \in Nat /\ next' = next + n /\ buffered' \in Nat
      /\ n > 0 \/ buffered' > 0 => next + n + buffered' <= end
      /\ pend' = "EOF" /\ ~st.grows => end <= next + n + buffered'
      /\ remaining > 0 => n <= remaining
      /\ remaining' \in {0, IF remaining > 0 THEN remaining - n ELSE remaining}
      /\ remaining = 0 => n = 0
  BY DEF Passage
<1>3. /\ from <= next
      /\ buffered > 0 \/ next > from => next + buffered <= end
  BY DEF PlaceInv
<1>4. /\ lengthKnown => /\ next <= st.declared /\ remaining >= 0
                        /\ remaining > 0 => next + remaining = st.declared
      /\ ~lengthKnown => remaining \in {-1, 0}
  BY DEF PlaceInv
<1>5. from <= next'
  BY <1>1, <1>2, <1>3
<1>6. buffered' > 0 \/ next' > from => next' + buffered' <= end
  <2>1. CASE n > 0 \/ buffered' > 0
    BY <1>2, <2>1
  <2>2. CASE n = 0 /\ buffered' = 0
    BY <1>1, <1>2, <1>3, <2>2
  <2> QED  BY <1>2, <2>1, <2>2
<1>7. pend' = "EOF" /\ ~st.grows => end <= next' + buffered'
  BY <1>2
<1>8. lengthKnown => /\ next' <= st.declared /\ remaining' >= 0
                     /\ remaining' > 0 => next' + remaining' = st.declared
  BY <1>1, <1>2, <1>4
<1>9. ~lengthKnown => remaining' \in {-1, 0}
  BY <1>1, <1>2, <1>4
<1>10. st' = st /\ end' = end /\ from' = from
  OBVIOUS
<1>11. lengthKnown' = lengthKnown
  BY <1>10, SameStream
<1> QED  BY <1>5, <1>6, <1>7, <1>8, <1>9, <1>10, <1>11 DEF PlaceInv

(* What is handed over and staged grows by the units that were passed.     *)
LEMMA PassageOrder ==
    ASSUME DTypeOK, PlaceInv, OrderInv, NEW len, NEW n, NEW m, Passage(len, n, m),
           st' = st, end' = end, from' = from
    PROVE  OrderInv'
<1> DEFINE w == unitIn
           a == next - from
<1>1. /\ st \in StreamType /\ next \in Nat /\ from \in Nat /\ end \in Nat /\ buffered \in Nat
      /\ out \in Seq(Byte) /\ staged \in Seq(Byte) /\ torn \in BOOLEAN
  BY DEF DTypeOK
<1>2. /\ n \in Nat /\ m \in Nat /\ m <= n /\ Whole(m, w) /\ next' = next + n
      /\ n > 0 => next + n <= end
  <2>1. n > 0 \/ buffered' > 0 => next + n + buffered' <= end
    BY DEF Passage
  <2>2. n \in Nat /\ m \in Nat /\ m <= n /\ Whole(m, w) /\ next' = next + n /\ buffered' \in Nat
    BY DEF Passage
  <2> DEFINE k == buffered'
  <2>3. k \in Nat /\ (n > 0 => next + n + k <= end)
    BY <2>1, <2>2
  <2> HIDE DEF k
  <2>4. n > 0 => next + n <= end
    BY <1>1, <2>2, <2>3
  <2> QED  BY <2>2, <2>4
<1>3. /\ staged' \in Seq(Byte) /\ got'.bytes \in Seq(Byte)
      /\ staged \o Audio(next, m) = got'.bytes \o staged'
      /\ out' = out \o got'.bytes
  BY DEF Passage
<1>4. /\ torn => torn'
      /\ ~torn' => n - m < w /\ (n # m => end <= next + n /\ ~st.grows)
      /\ convert(st) = 0 => staged' = << >>
  BY DEF Passage
<1>5. a \in Nat /\ w \in Nat /\ w > 0 /\ from + a = next
  BY <1>1, UnitType DEF PlaceInv
<1>6. ~torn => /\ out \o staged = Audio(from, a)
               /\ a % w # 0 => end <= next /\ ~st.grows
  BY DEF OrderInv
<1>7. Audio(next, m) \in Seq(Byte) /\ Audio(from, a) \in Seq(Byte)
  BY <1>1, <1>2, <1>5, AudioType
<1>8. out' \o staged' = (out \o staged) \o Audio(next, m)
  <2> DEFINE g == got'.bytes
             A == Audio(next, m)
  <2>1. g \in Seq(Byte) /\ A \in Seq(Byte) /\ out \in Seq(Byte) /\ staged \in Seq(Byte)
        /\ staged' \in Seq(Byte)
    BY <1>1, <1>3, <1>7
  <2>2. out' \o staged' = (out \o g) \o staged'
    BY <1>3
  <2>3. staged \o A = g \o staged'
    BY <1>3
  <2> HIDE DEF g, A
  <2>4. (out \o g) \o staged' = out \o (g \o staged')
    BY <2>1, ConcatAssociative
  <2>5. (out \o staged) \o A = out \o (staged \o A)
    BY <2>1, ConcatAssociative
  <2>6. out' \o staged' = (out \o staged) \o A
    BY <2>2, <2>3, <2>4, <2>5
  <2> QED  BY <2>6 DEF A
<1> HIDE DEF a, w
<1>9. ASSUME ~torn'
      PROVE  /\ out' \o staged' = Audio(from, a + n)
             /\ (a + n) % w # 0 => end <= next + n /\ ~st.grows
  <2>1. ~torn /\ n - m < w
    BY <1>1, <1>4, <1>9
  <2>2. CASE a % w = 0
    <3> DEFINE c == n - m
    <3>1. c \in Nat /\ c < w /\ n = m + c
      BY <1>2, <2>1
    <3>2. m % w = 0 /\ Whole(a, w)
      BY <1>2, <2>2 DEF Whole
    <3>3. (a + m) % w = 0
      BY <1>2, <1>5, <2>2, <3>2, DivAdd
    <3> HIDE DEF c
    <3>4. c \div w = 0 /\ c % w = c
      <4>1. (0 * w + c) \div w = 0 /\ (0 * w + c) % w = c /\ 0 * w + c = c
        BY <1>5, <3>1, DivIs
      <4> QED  BY <4>1
    <3>5. a + n = (a + m) + c /\ a + m \in Nat
      BY <1>2, <1>5, <3>1
    <3>6. ((a + m) + c) \div w = (a + m) \div w + c \div w /\ ((a + m) + c) % w = c % w
      BY <1>5, <3>1, <3>3, <3>5, DivAdd
    <3>7. (a + m) \div w \in Nat
      BY <1>5, <3>5, DivMod
    <3>8. (a + n) \div w = (a + m) \div w /\ (a + n) % w = c
      BY <3>4, <3>5, <3>6, <3>7
    <3>9. Audio(from, a + n) = Audio(from, a + m)
      <4>1. a + n \in Nat /\ a + m \in Nat
        BY <1>2, <1>5
      <4>2. (a + n) \div unitIn = (a + m) \div unitIn
        BY <3>8 DEF w
      <4> QED  BY <1>1, <4>1, <4>2, AudioSame, Zenon
    <3>10. Audio(from, a) \o Audio(from + a, m) = Audio(from, a + m)
      <4>1. Whole(a, unitIn) /\ st \in StreamType
        BY <1>1, <3>2 DEF w
      <4>2. a \in Nat /\ m \in Nat /\ from \in Nat
        BY <1>1, <1>2, <1>5
      <4> QED  BY <4>1, <4>2, AudioConcat
    <3>11. out' \o staged' = Audio(from, a + n)
      BY <1>5, <1>6, <1>8, <2>1, <3>9, <3>10
    <3>12. c # 0 => n # m
      BY <1>2, <3>1
    <3> QED  BY <1>4, <1>9, <3>8, <3>11, <3>12
  <2>3. CASE a % w # 0
    <3>1. end <= next /\ ~st.grows
      BY <1>6, <2>1, <2>3
    <3>2. n = 0 /\ m = 0
      BY <1>1, <1>2, <3>1
    <3>3. Audio(next, 0) = << >>
      BY <1>1, AudioEmpty
    <3>4. Audio(from, a) \o << >> = Audio(from, a)
      BY <1>7, ConcatEmptySeq
    <3>5. out' \o staged' = Audio(from, a)
      BY <1>6, <1>8, <2>1, <3>2, <3>3, <3>4
    <3>6. a + n = a /\ next + n = next
      BY <1>1, <1>5, <3>2
    <3> QED  BY <3>1, <3>5, <3>6
  <2> QED  BY <2>2, <2>3
<1>10. next' - from = a + n
  BY <1>1, <1>2 DEF a
<1>11. st' = st /\ end' = end /\ from' = from
  OBVIOUS
<1>12. unitIn' = unitIn /\ unitOut' = unitOut
  BY <1>11, SameStream
<1>13. ASSUME ~torn'
       PROVE  /\ out' \o staged' = Converted(from', next' - from', unitIn', unitOut')
              /\ (next' - from') % unitIn' # 0 => end' <= next' /\ ~st'.grows
  <2>1. Audio(from, a + n) = Converted(from', next' - from', unitIn', unitOut')
    BY <1>10, <1>11, <1>12, Zenon DEF Audio
  <2>2. (a + n) % w = (next' - from') % unitIn'
    BY <1>10, <1>11, <1>12, Zenon DEF w
  <2> QED  BY <1>2, <1>9, <1>11, <1>13, <2>1, <2>2
<1> QED  BY <1>4, <1>11, <1>13 DEF OrderInv, Audio


(* However it is torn, no more is handed over or staged than the units     *)
(* passed make, and all of it from in front of the position.               *)
LEMMA PassageCount ==
    ASSUME DTypeOK, PlaceInv, CountInv, NEW len, NEW n, NEW m, Passage(len, n, m),
           st' = st, end' = end, from' = from
    PROVE  CountInv'
<1> DEFINE w == unitIn
           d == unitOut
           a == next - from
           b == a + n
           A == Audio(next, m)
           g == got'.bytes
           p == a \div w
           q == m \div w
           r == b \div w
<1>1. /\ st \in StreamType /\ next \in Nat /\ from \in Nat
      /\ out \in Seq(Byte) /\ staged \in Seq(Byte)
  BY DEF DTypeOK
<1>2. /\ n \in Nat /\ m \in Nat /\ m <= n /\ next' = next + n
      /\ staged' \in Seq(Byte) /\ g \in Seq(Byte)
      /\ staged \o A = g \o staged' /\ out' = out \o g
  BY DEF Passage
<1>3. a \in Nat /\ w \in Nat /\ w > 0 /\ d \in Nat /\ d > 0
  BY <1>1, UnitType DEF PlaceInv
<1>4. A \in Seq(Byte) /\ Len(A) = Produced(m, w, d) /\ Behind(A, next + m)
  BY <1>1, <1>2, AudioType
<1>5. Len(out) + Len(staged) <= p * d /\ Behind(out \o staged, next)
  BY DEF CountInv
<1>6. Len(A) = q * d
  BY <1>4 DEF Produced
<1>7. b \in Nat /\ a + m \in Nat /\ a + m <= b
  BY <1>2, <1>3
<1>8. p \in Nat /\ q \in Nat /\ r \in Nat /\ p + q <= r
  <2>1. p + q <= (a + m) \div w
    BY <1>2, <1>3, DivSum
  <2>2. (a + m) \div w <= r
    BY <1>3, <1>7, DivMono
  <2>3. p \in Nat /\ q \in Nat /\ r \in Nat /\ (a + m) \div w \in Nat
    BY <1>2, <1>3, <1>7, DivMod
  <2> HIDE DEF p, q, r
  <2> QED  BY <2>1, <2>2, <2>3
<1>9. b = next' - from
  BY <1>1, <1>2
<1>10. next + m <= next' /\ next' \in Nat /\ next <= next' /\ next + m \in Nat
  BY <1>1, <1>2
<1>11. r = (next' - from) \div w
  BY <1>9
<1> HIDE DEF w, d, a, b, A, g, p, q, r
<1>12. (out \o staged) \o A = out' \o staged'
  <2>1. (out \o g) \o staged' = out \o (g \o staged')
    <3>1. out \in Seq(Byte) /\ g \in Seq(Byte) /\ staged' \in Seq(Byte)
      BY <1>1, <1>2
    <3> QED  BY <3>1, ConcatAssociative
  <2>2. (out \o staged) \o A = out \o (staged \o A)
    <3>1. out \in Seq(Byte) /\ staged \in Seq(Byte) /\ A \in Seq(Byte)
      BY <1>1, <1>4
    <3> QED  BY <3>1, ConcatAssociative
  <2> QED  BY <1>2, <2>1, <2>2
<1>13. out \o staged \in Seq(Byte) /\ out \o g \in Seq(Byte)
  BY <1>1, <1>2, ConcatProperties
<1>14. Len(out') + Len(staged') = Len(out) + Len(staged) + Len(A)
  <2>1. Len(out') = Len(out) + Len(g)
    BY <1>1, <1>2, ConcatProperties
  <2>2. Len(staged \o A) = Len(staged) + Len(A)
    BY <1>1, <1>4, ConcatProperties
  <2>3. Len(g \o staged') = Len(g) + Len(staged')
    BY <1>2, ConcatProperties
  <2>4. Len(out) \in Nat /\ Len(g) \in Nat /\ Len(staged) \in Nat /\ Len(A) \in Nat
        /\ Len(staged') \in Nat
    BY <1>1, <1>2, <1>4, LenProperties
  <2>5. Len(g) + Len(staged') = Len(staged) + Len(A)
    BY <1>2, <2>2, <2>3
  <2> QED  BY <2>1, <2>4, <2>5
<1>15. Len(out') + Len(staged') <= r * d
  <2>1. (p + q) * d <= r * d
    BY <1>3, <1>8
  <2>2. (p + q) * d = p * d + q * d
    BY <1>3, <1>8
  <2>3. Len(out) \in Nat /\ Len(staged) \in Nat /\ p * d \in Nat /\ q * d \in Nat
        /\ r * d \in Nat
    BY <1>1, <1>3, <1>8, LenProperties
  <2>4. Len(out) + Len(staged) + q * d <= p * d + q * d
    BY <1>5, <2>3
  <2> QED  BY <1>6, <1>14, <2>1, <2>2, <2>3, <2>4
<1>16. Behind(out' \o staged', next')
  <2>1. Behind(out \o staged, next')
    BY <1>1, <1>5, <1>10, <1>13, BehindConcat
  <2>2. Behind(A, next')
    BY <1>1, <1>4, <1>10, BehindConcat
  <2> DEFINE c == out \o staged
             q2 == next'
  <2>3. c \in Seq(Byte) /\ q2 \in Int /\ Behind(c, q2) /\ Behind(A, q2)
    BY <1>10, <1>13, <2>1, <2>2
  <2> HIDE DEF c, q2
  <2>4. Behind(c \o A, q2)
    BY <1>1, <1>4, <2>3, BehindConcat
  <2> QED  BY <1>12, <2>4 DEF c, q2
<1>17. st' = st /\ from' = from /\ unitIn' = w /\ unitOut' = d /\ unitIn = w
  BY SameStream DEF w, d
<1>18. Len(out') + Len(staged') <= ((next' - from') \div unitIn') * unitOut'
  BY <1>11, <1>15, <1>17
<1> QED  BY <1>16, <1>17, <1>18 DEF CountInv, Behind

(* An end is reported with nothing staged, and the stream is over only     *)
(* where not one whole unit is left.                                       *)
LEMMA PassageEnd ==
    ASSUME DTypeOK, PlaceInv, OrderInv, EndInv, NEW len, NEW n, NEW m, Passage(len, n, m),
           st' = st, end' = end, from' = from
    PROVE  EndInv'
<1> DEFINE w == unitIn
           stop == IF lengthKnown THEN Min2(end, st.declared) ELSE end
           b == next' - from
<1>1. /\ st \in StreamType /\ next \in Nat /\ from \in Nat /\ end \in Nat /\ remaining \in Int
      /\ torn \in BOOLEAN /\ buffered \in Nat /\ next' \in Nat
  BY PassageTypes DEF DTypeOK
<1>2. st.declared \in Int /\ w \in Nat /\ w > 0 /\ (lengthKnown => st.declared >= 0)
  BY <1>1, UnitType DEF StreamType, lengthKnown
<1>3. /\ n \in Nat /\ next' = next + n
      /\ torn => torn'
      /\ got'.e = "EOF" => remaining' = 0 /\ staged' = << >>
      /\ remaining' = 0 /\ ~torn' /\ ~st.grows =>
            \/ remaining = 0 /\ n = 0
            \/ end <= next + n
            \/ remaining > 0 /\ remaining - n < w
      /\ remaining > 0 => n <= remaining
  BY DEF Passage
<1>4. PlaceInv' /\ OrderInv'
  BY PassagePlace, PassageOrder
<1>5. st' = st /\ end' = end /\ from' = from /\ unitIn' = w /\ lengthKnown' = lengthKnown
  BY SameStream
<1>6. audible = Max2(stop - from, 0) /\ audible' = Max2(stop - from, 0)
  BY <1>5 DEF audible
<1>7. /\ from <= next' /\ (next' > from => next' <= end)
      /\ lengthKnown => next' <= st.declared
  <2>1. buffered' \in Nat
    BY PassageTypes
  <2>2. /\ from <= next' /\ (buffered' > 0 \/ next' > from => next' + buffered' <= end)
        /\ lengthKnown => next' <= st.declared
    BY <1>4, <1>5 DEF PlaceInv
  <2> DEFINE k == buffered'
             q == next'
  <2>3. /\ k \in Nat /\ q \in Nat /\ from <= q /\ (k > 0 \/ q > from => q + k <= end)
        /\ lengthKnown => q <= st.declared
    BY <1>1, <2>1, <2>2
  <2> HIDE DEF k, q
  <2>4. from <= q /\ (q > from => q <= end) /\ (lengthKnown => q <= st.declared)
    BY <1>1, <2>3
  <2> QED  BY <2>4 DEF q
<1>8. b \in Nat
  <2> DEFINE q == next'
  <2>1. q \in Nat /\ from <= q
    BY <1>1, <1>7
  <2> HIDE DEF q
  <2>2. q - from \in Nat
    BY <1>1, <2>1
  <2> QED  BY <2>2 DEF q
<1>9. ~torn' => (b % w # 0 => end <= next')
  BY <1>4, <1>5 DEF OrderInv
<1> HIDE DEF w, b
<1>10. ASSUME ~torn', ~st.grows, remaining' = 0
       PROVE  b \div w = audible' \div w
  <2> DEFINE u == audible'
  <2>1. u = Max2(stop - from, 0) /\ stop \in Nat /\ stop <= end
    BY <1>1, <1>2, <1>6 DEF Min2
  <2>2. (b % w # 0 => end <= next')
    BY <1>9, <1>10
  <2> HIDE DEF u
  <2>3. u \in Nat
    BY <1>1, <2>1 DEF Max2
  <2>4. CASE remaining = 0 /\ n = 0
    <3>1. ~torn /\ next' = next
      BY <1>1, <1>3, <1>10, <2>4
    <3>2. (next - from) \div w = audible \div w
      BY <1>10, <2>4, <3>1 DEF EndInv, w
    <3> QED  BY <1>6, <3>1, <3>2 DEF b, u
  <2>5. ASSUME b <= u, u < b + w, b % w = 0 \/ b = u
        PROVE  b \div w = u \div w
    <3>1. CASE b % w = 0
      BY <1>2, <1>8, <2>3, <2>5, <3>1, DivMono
    <3>2. CASE b = u
      BY <3>2
    <3> QED  BY <2>5, <3>1, <3>2
  <2>6. b = 0 \/ next' > from
    <3> DEFINE q == next'
    <3>1. q \in Nat /\ from <= q
      BY <1>1, <1>7
    <3> HIDE DEF q
    <3>2. q - from = 0 \/ q > from
      BY <1>1, <3>1
    <3> QED  BY <3>2 DEF b, q
  <2>7. 0 % w = 0
    BY <1>2
  <2>8. CASE end <= next'
    <3>1. CASE next' > from
      <4>1. next' = end /\ stop = end
        BY <1>1, <1>2, <1>7, <2>8, <3>1 DEF Min2
      <4>2. u = b
        BY <1>1, <2>1, <3>1, <4>1 DEF Max2, b
      <4> QED  BY <4>2 DEF u
    <3>2. CASE ~(next' > from)
      <4>1. b = 0 /\ stop <= from
        BY <1>1, <1>7, <2>1, <2>6, <2>8, <3>2
      <4>2. u = 0
        BY <1>1, <2>1, <4>1 DEF Max2
      <4> QED  BY <4>1, <4>2 DEF u
    <3> QED  BY <3>1, <3>2
  <2>9. CASE ~(end <= next') /\ remaining > 0 /\ remaining - n < w
    <3>1. lengthKnown /\ next + remaining = st.declared
      BY <1>1, <2>9 DEF PlaceInv
    <3>2. next' <= stop /\ stop < next' + w
      BY <1>1, <1>2, <1>3, <1>7, <2>9, <3>1 DEF Min2
    <3>3. u = stop - from /\ b <= u /\ u < b + w
      BY <1>1, <1>2, <1>7, <2>1, <3>2 DEF Max2, b
    <3>4. b % w = 0
      BY <2>2, <2>9
    <3> QED  BY <2>5, <3>3, <3>4 DEF u
  <2> QED  BY <1>1, <1>3, <1>10, <2>4, <2>8, <2>9 DEF w
<1>11. (next' - from') = b /\ audible' = audible'
  BY <1>5 DEF b
<1>12. ~torn' /\ ~st'.grows /\ remaining' = 0 =>
          (next' - from') \div unitIn' = audible' \div unitIn'
  BY <1>5, <1>10, <1>11
<1> QED  BY <1>3, <1>12 DEF EndInv

-----------------------------------------------------------------------------
(* The steps.                                                              *)

(* A Read within a call keeps it, and hands over no more than was asked    *)
(* for, and nothing once the stream is over.                               *)
LEMMA ReadKeeps ==
    ASSUME DTypeOK, ReaderInv, NEW len \in Nat, len > 0, readInto(len),
           st' = st, end' = end, from' = from
    PROVE  /\ ReaderInv'
           /\ remaining' \in Int /\ next' \in Nat /\ buffered' \in Nat /\ pend' \in Errs
           /\ staged' \in Seq(Byte) /\ faults' \in Nat /\ out' \in Seq(Byte) /\ torn' \in BOOLEAN
           /\ got' \in [bytes : Seq(Byte), e : Errs]
           /\ out' = out \o got'.bytes /\ Len(got'.bytes) <= len
           /\ remaining = 0 /\ staged = << >> => got'.bytes = << >>
<1>1. PICK n \in Nat, m \in Nat : Passage(len, n, m)
  BY ReadPasses DEF ReaderInv
<1>2. PlaceInv'
  BY <1>1, PassagePlace DEF ReaderInv
<1>3. OrderInv'
  BY <1>1, PassageOrder DEF ReaderInv
<1>4. CountInv'
  BY <1>1, PassageCount DEF ReaderInv
<1>5. EndInv'
  BY <1>1, PassageEnd DEF ReaderInv
<1>6. /\ remaining' \in Int /\ next' \in Nat /\ buffered' \in Nat /\ pend' \in Errs
      /\ staged' \in Seq(Byte) /\ faults' \in Nat /\ out' \in Seq(Byte) /\ torn' \in BOOLEAN
      /\ got' \in [bytes : Seq(Byte), e : Errs]
  BY <1>1, PassageTypes
<1>7. /\ out' = out \o got'.bytes /\ Len(got'.bytes) <= len
      /\ remaining = 0 /\ staged = << >> => got'.bytes = << >>
  BY <1>1 DEF Passage
<1> QED  BY <1>2, <1>3, <1>4, <1>5, <1>6, <1>7 DEF ReaderInv

(* It holds on while the reader, its stream and the source stand still.    *)
LEMMA ReaderStill ==
    ASSUME ReaderInv, UNCHANGED <<remaining, next, buffered, pend, staged, got, out, torn>>,
           st' = st, end' = end, from' = from
    PROVE  ReaderInv'
<1>1. /\ remaining' = remaining /\ next' = next /\ buffered' = buffered /\ pend' = pend
      /\ staged' = staged /\ got' = got /\ out' = out /\ torn' = torn
  OBVIOUS
<1>2. unitIn' = unitIn /\ unitOut' = unitOut /\ lengthKnown' = lengthKnown
  BY SameStream
<1>3. audible' = audible
  BY <1>2 DEF audible
<1>4. PlaceInv'
  BY <1>1, <1>2 DEF ReaderInv, PlaceInv
<1>5. OrderInv'
  BY <1>1, <1>2 DEF ReaderInv, OrderInv, Audio
<1>6. CountInv'
  BY <1>1, <1>2 DEF ReaderInv, CountInv, Behind
<1>7. EndInv'
  BY <1>1, <1>2, <1>3 DEF ReaderInv, EndInv
<1> QED  BY <1>4, <1>5, <1>6, <1>7 DEF ReaderInv

(* A decoder at the start of a stretch of audio, nothing handed over and   *)
(* nothing staged, with the length it has to go by.                        *)
AtStart ==
    /\ st \in StreamType /\ next \in Nat /\ end \in Nat /\ buffered \in Nat
    /\ from = next /\ out = << >> /\ staged = << >> /\ got.e = "nil"
    /\ buffered > 0 => next + buffered <= end
    /\ pend = "EOF" => end <= next + buffered
    /\ lengthKnown => next <= st.declared
    /\ lengthKnown => remaining = st.declared - next
    /\ ~lengthKnown => remaining = -1 \/ (remaining = 0 /\ end <= next)

(* There the invariant holds.                                              *)
LEMMA StartKeeps == AtStart => ReaderInv
<1> SUFFICES ASSUME AtStart PROVE ReaderInv
  OBVIOUS
<1>1. /\ st \in StreamType /\ next \in Nat /\ end \in Nat /\ buffered \in Nat
      /\ from = next /\ out = << >> /\ staged = << >> /\ got.e = "nil"
      /\ buffered > 0 => next + buffered <= end
      /\ pend = "EOF" => end <= next + buffered
      /\ lengthKnown => next <= st.declared
      /\ lengthKnown => remaining = st.declared - next
      /\ ~lengthKnown => remaining = -1 \/ (remaining = 0 /\ end <= next)
  BY DEF AtStart
<1>2. unitIn \in Nat /\ unitIn > 0 /\ unitOut \in Nat /\ unitOut > 0 /\ st.declared \in Int
      /\ lengthKnown \in BOOLEAN
  BY <1>1, UnitType DEF StreamType, lengthKnown
<1>3. next - from = 0
  BY <1>1
<1>4. 0 \div unitIn = 0 /\ 0 % unitIn = 0
  <2>1. \A w \in Nat : w > 0 => (0 * w + 0) \div w = 0 /\ (0 * w + 0) % w = 0
    BY DivIs
  <2>2. \A w \in Nat : 0 * w + 0 = 0
    OBVIOUS
  <2> QED  BY <1>2, <2>1, <2>2
<1>5. PlaceInv
  BY <1>1, <1>2 DEF PlaceInv
<1>6. out \o staged = << >>
  BY <1>1, ConcatEmptySeq
<1>7. OrderInv
  <2>1. Audio(from, 0) = << >>
    BY <1>1, AudioEmpty
  <2> QED  BY <1>1, <1>3, <1>4, <1>6, <2>1 DEF OrderInv
<1>8. CountInv
  <2>1. 0 * unitOut = 0 /\ Len(<< >>) = 0
    BY <1>2
  <2>2. Len(out) + Len(staged) <= ((next - from) \div unitIn) * unitOut
    BY <1>1, <1>3, <1>4, <2>1
  <2>3. Behind(<< >>, next)
    BY DEF Behind
  <2> QED  BY <1>6, <2>2, <2>3 DEF CountInv
<1>9. EndInv
  <2>1. ASSUME remaining = 0 PROVE audible = 0
    <3>1. IF lengthKnown THEN st.declared = next ELSE end <= next
      BY <1>1, <1>2, <2>1
    <3> QED  BY <1>1, <1>2, <3>1 DEF audible, Min2, Max2
  <2> QED  BY <1>1, <1>3, <1>4, <2>1 DEF EndInv
<1> QED  BY <1>5, <1>7, <1>8, <1>9 DEF ReaderInv

(* The decoder a caller declares has no stream and says so.                *)
LEMMA InitKeeps == Init => DInv
<1> SUFFICES ASSUME Init PROVE DInv
  OBVIOUS
<1>1. /\ st = NoStream /\ err = TRUE
      /\ remaining = 0 /\ next = 0 /\ buffered = 0 /\ pend = "nil" /\ staged = << >>
      /\ end = 0 /\ faults = MaxFaults /\ resets = 0
      /\ call = Idle /\ ret = Idle
      /\ got = [bytes |-> << >>, e |-> "nil"]
      /\ out = << >> /\ from = 0 /\ torn = FALSE /\ rejected = FALSE
  BY DEF Init
<1>2. NoStream \in StreamType /\ NoStream.declared = -1
  BY DEF NoStream, StreamType
<1>3. DTypeOK
  <2>1. << >> \in Seq(Byte)
    OBVIOUS
  <2>2. got \in [bytes : Seq(Byte), e : Errs]
    BY <1>1, <2>1 DEF Errs
  <2>3. MaxFaults \in Nat
    BY DecoderAssumption
  <2>4. st \in StreamType /\ call \in {Idle} \cup WriteToCall \cup ReadAllCall
    BY <1>1, <1>2
  <2>5. /\ remaining \in Int /\ next \in Nat /\ buffered \in Nat /\ pend \in Errs
        /\ staged \in Seq(Byte) /\ out \in Seq(Byte) /\ end \in Nat
    BY <1>1, <2>1 DEF Errs
  <2>6. /\ faults \in Nat /\ resets \in Nat /\ from \in Nat
        /\ err \in BOOLEAN /\ torn \in BOOLEAN /\ rejected \in BOOLEAN
    BY <1>1, <2>3
  <2> QED  BY <2>2, <2>4, <2>5, <2>6 DEF DTypeOK
<1>4. ReaderInv
  <2>1. ~lengthKnown
    BY <1>1, <1>2 DEF lengthKnown
  <2>2. got.e = "nil"
    BY <1>1
  <2>3. st \in StreamType
    BY <1>1, <1>2
  <2>4. AtStart
    BY <1>1, <2>1, <2>2, <2>3 DEF AtStart
  <2> QED  BY <2>4, StartKeeps
<1>5. CallInv
  BY <1>1 DEF CallInv, Idle
<1>6. SeekLandsWhereItSays
  <2>1. ret.op = "none"
    BY <1>1 DEF Idle
  <2> QED  BY <2>1 DEF SeekLandsWhereItSays
<1> QED  BY <1>3, <1>4, <1>5, <1>6 DEF DInv

(* A call that only returns, and changes nothing.                          *)
LEMMA OnlyReturns ==
    ASSUME DInv, UNCHANGED <<bound, reading, end, call>>, ret'.op # "SeekToFrame" \/ ret'.e # "nil"
    PROVE  DInv'
<1>1. /\ st' = st /\ err' = err /\ resets' = resets /\ from' = from /\ rejected' = rejected
      /\ remaining' = remaining /\ next' = next /\ buffered' = buffered /\ pend' = pend
      /\ staged' = staged /\ faults' = faults /\ got' = got /\ out' = out /\ torn' = torn
      /\ end' = end /\ call' = call
  BY DEF bound, reading
<1>2. DTypeOK'
  BY <1>1 DEF DInv, DTypeOK
<1>3. ReaderInv'
  BY <1>1, ReaderStill DEF DInv
<1>4. CallInv'
  BY <1>1 DEF DInv, CallInv
<1>5. SeekLandsWhereItSays'
  BY DEF SeekLandsWhereItSays
<1> QED  BY <1>2, <1>3, <1>4, <1>5 DEF DInv

(* Read hands over what the reader gives.                                  *)
LEMMA ReadStep == DInv /\ Read => DInv'
<1> SUFFICES ASSUME DInv, Read PROVE DInv'
  OBVIOUS
<1>1. call = Idle
  BY DEF Read
<1>2. ASSUME NEW n, NEW e, Return("Read", n, e)
      PROVE  ret'.op # "SeekToFrame"
  BY <1>2 DEF Return
<1>3. CASE err
  <2>1. Return("Read", 0, "failed") /\ UNCHANGED <<bound, reading, end, call>>
    BY <1>3 DEF Read
  <2> QED  BY <1>2, <2>1, OnlyReturns
<1>4. CASE ~err
  <2>1. PICK len \in BufLens :
            IF len = 0
            THEN /\ Return("Read", 0, "nil")
                 /\ UNCHANGED <<bound, reading, end, call>>
            ELSE /\ readInto(len)
                 /\ Return("Read", Len(got'.bytes), got'.e)
                 /\ UNCHANGED <<bound, end, call>>
    BY <1>4 DEF Read
  <2>2. CASE len = 0
    BY <1>2, <2>1, <2>2, OnlyReturns
  <2>3. CASE len # 0
    <3>1. /\ readInto(len) /\ Return("Read", Len(got'.bytes), got'.e)
          /\ st' = st /\ err' = err /\ resets' = resets /\ from' = from /\ rejected' = rejected
          /\ end' = end /\ call' = call
      BY <2>1, <2>3 DEF bound
    <3>2. len \in Nat /\ len > 0
      BY <2>3, DecoderAssumption
    <3>3. /\ ReaderInv'
          /\ remaining' \in Int /\ next' \in Nat /\ buffered' \in Nat /\ pend' \in Errs
          /\ staged' \in Seq(Byte) /\ faults' \in Nat /\ out' \in Seq(Byte) /\ torn' \in BOOLEAN
          /\ got' \in [bytes : Seq(Byte), e : Errs]
      BY <3>1, <3>2, ReadKeeps DEF DInv
    <3>4. DTypeOK'
      BY <3>1, <3>3 DEF DInv, DTypeOK
    <3>5. CallInv'
      BY <1>1, <1>4, <3>1 DEF DInv, CallInv, Idle
    <3>6. SeekLandsWhereItSays'
      BY <1>2, <3>1 DEF SeekLandsWhereItSays
    <3> QED  BY <3>3, <3>4, <3>5, <3>6 DEF DInv
  <2> QED  BY <2>2, <2>3
<1> QED  BY <1>3, <1>4

(* What a Reset or a one-shot decode binds: the stream, at its beginning,  *)
(* or none when it is refused.                                             *)
LEMMA BindStarts ==
    ASSUME DInv, NEW s \in Streams, Bind(s)
    PROVE  /\ ReaderInv'
           /\ st' \in StreamType /\ err' \in BOOLEAN /\ rejected' \in BOOLEAN
           /\ remaining' \in Int /\ next' \in Nat /\ buffered' \in Nat /\ pend' \in Errs
           /\ staged' \in Seq(Byte) /\ end' \in Nat /\ faults' \in Nat /\ resets' \in Nat
           /\ got' \in [bytes : Seq(Byte), e : Errs]
           /\ out' = << >> /\ from' = 0 /\ torn' \in BOOLEAN
           /\ (rejected' => err') /\ (err' => ~s.opens /\ st' = NoStream)
<1>1. s \in StreamType /\ NoStream \in StreamType /\ s.opens \in BOOLEAN
  BY DecoderAssumption DEF StreamType, NoStream
<1>2. /\ resets' = resets + 1
      /\ st' = IF s.opens THEN s ELSE NoStream
      /\ err' = ~s.opens /\ rejected' = ~s.opens
      /\ end' = st'.exists
      /\ remaining' = IF st'.declared >= 0 /\ ~st'.ignore THEN st'.declared ELSE -1
      /\ buffered' \in 0 .. Min2(streamBufferSize, st'.exists)
      /\ next' = 0 /\ from' = 0
      /\ pend' \in {"nil"} \cup {e \in {"EOF"} : buffered' = st'.exists}
      /\ staged' = << >>
      /\ out' = << >> /\ torn' = FALSE
      /\ got' = [bytes |-> << >>, e |-> "nil"]
      /\ faults' = faults
  BY DEF Bind
<1>3. st' \in StreamType
  BY <1>1, <1>2
<1>4. st'.exists \in Nat /\ st'.declared \in Int /\ st'.ignore \in BOOLEAN /\ resets \in Nat /\ faults \in Nat
  BY <1>3 DEF StreamType, DInv, DTypeOK
<1>5. buffered' \in Nat /\ buffered' <= st'.exists
  <2> DEFINE k == buffered'
             x == st'.exists
  <2>1. k \in 0 .. Min2(streamBufferSize, x) /\ x \in Nat /\ streamBufferSize \in Nat
    BY <1>2, <1>4, DecoderAssumption
  <2> HIDE DEF k, x
  <2>2. k \in Nat /\ k <= x
    BY <2>1 DEF Min2
  <2> QED  BY <2>2 DEF k, x
<1>6. got'.e = "nil" /\ got' \in [bytes : Seq(Byte), e : Errs] /\ << >> \in Seq(Byte)
  <2>1. << >> \in Seq(Byte)
    OBVIOUS
  <2> QED  BY <1>2, <2>1 DEF Errs
<1>7. pend' \in Errs /\ (pend' = "EOF" => buffered' = st'.exists)
  BY <1>2 DEF Errs
<1>8. lengthKnown' <=> st'.declared >= 0 /\ ~st'.ignore
  BY DEF lengthKnown
<1>9. lengthKnown' \in BOOLEAN
  BY <1>8
<1>10. AtStart'
  <2> DEFINE k == buffered'
             x == st'.exists
             e == end'
             h == next'
  <2>1. k \in Nat /\ k <= x /\ x \in Nat /\ e = x /\ h = 0 /\ (pend' = "EOF" => k = x)
    BY <1>2, <1>4, <1>5, <1>7
  <2> HIDE DEF k, x, e, h
  <2>2. h + k <= e /\ (pend' = "EOF" => e <= h + k) /\ h \in Nat /\ e \in Nat
    BY <2>1
  <2>3. /\ next' \in Nat /\ end' \in Nat
        /\ buffered' > 0 => next' + buffered' <= end'
        /\ pend' = "EOF" => end' <= next' + buffered'
    BY <2>2 DEF k, e, h
  <2>4. /\ lengthKnown' => next' <= st'.declared /\ remaining' = st'.declared - next'
        /\ ~lengthKnown' => remaining' = -1
    BY <1>2, <1>4, <1>8
  <2>5. from' = next' /\ out' = << >> /\ staged' = << >>
    BY <1>2
  <2> QED  BY <1>3, <1>5, <1>6, <2>3, <2>4, <2>5 DEF AtStart
<1>11. ReaderInv'
  BY <1>10, StartKeeps, PTL
<1>12. /\ remaining' \in Int /\ next' \in Nat /\ end' \in Nat /\ resets' \in Nat
       /\ faults' \in Nat /\ staged' = << >> /\ out' = << >> /\ from' = 0
  BY <1>2, <1>4
<1>13. /\ err' \in BOOLEAN /\ rejected' \in BOOLEAN /\ torn' \in BOOLEAN
       /\ rejected' => err'
       /\ err' => ~s.opens /\ st' = NoStream
  BY <1>1, <1>2, Zenon
<1> QED  BY <1>3, <1>5, <1>6, <1>7, <1>11, <1>12, <1>13

(* Reset.                                                                  *)
LEMMA ResetStep == DInv /\ Reset => DInv'
<1> SUFFICES ASSUME DInv, Reset PROVE DInv'
  OBVIOUS
<1>1. call = Idle
  BY DEF Reset
<1>2. PICK s \in Streams : /\ Bind(s)
                           /\ Return("Reset", 0, IF s.opens THEN "nil" ELSE "failed")
                           /\ UNCHANGED call
  BY DEF Reset
<1>3. /\ ReaderInv'
      /\ st' \in StreamType /\ err' \in BOOLEAN /\ rejected' \in BOOLEAN
      /\ remaining' \in Int /\ next' \in Nat /\ buffered' \in Nat /\ pend' \in Errs
      /\ staged' \in Seq(Byte) /\ end' \in Nat /\ faults' \in Nat /\ resets' \in Nat
      /\ got' \in [bytes : Seq(Byte), e : Errs]
      /\ out' = << >> /\ from' = 0 /\ torn' \in BOOLEAN
      /\ (rejected' => err') /\ (err' => ~s.opens /\ st' = NoStream)
  BY <1>2, BindStarts
<1>4. call' = Idle
  BY <1>1, <1>2
<1>5. << >> \in Seq(Byte) /\ 0 \in Nat
  OBVIOUS
<1>6. DTypeOK'
  BY <1>3, <1>4, <1>5 DEF DTypeOK
<1>7. CallInv'
  <2>1. call'.op = "none"
    BY <1>4 DEF Idle
  <2> QED  BY <1>3, <1>4, <2>1 DEF CallInv
<1>8. SeekLandsWhereItSays'
  <2>1. ret'.op = "Reset"
    BY <1>2 DEF Return
  <2> QED  BY <2>1 DEF SeekLandsWhereItSays
<1> QED  BY <1>3, <1>6, <1>7, <1>8 DEF DInv

(* What a header claims, however large, reserves a number of bytes that    *)
(* is none or more, and of a ceiling no more than that.                    *)
LEMMA PresizeBounds ==
    ASSUME NEW s \in StreamType, NEW maxBytes \in Int, NEW limit \in Nat
    PROVE  /\ Min2(presizeHint(Info(s), maxBytes), limit) \in Nat
           /\ Min2(presizeHint(Info(s), maxBytes), limit) <= limit
<1> DEFINE h == presizeHint(Info(s), maxBytes)
           x == Info(s).TotalFrames * Info(s).Channels * Info(s).Width
           y == wrap64(x)
<1>1. maxPreSize \in Nat /\ MaxInt64 \in Nat
  BY DecoderAssumption
<1>2. x \in Int
  <2>1. s.frames \in Int /\ s.channels \in Nat /\ s.width \in Nat /\ convert(s) \in Nat
    BY DEF StreamType, convert
  <2>2. Info(s).TotalFrames \in Int /\ Info(s).Channels \in Int /\ Info(s).Width \in Int
    BY <2>1 DEF Info
  <2> QED  BY <2>2
<1>3. y \in Int
  <2> HIDE DEF x
  <2> DEFINE b == 2 * (MaxInt64 + 1)
             a == x + MaxInt64 + 1
  <2>1. a \in Int /\ b \in Nat /\ b > 0
    BY <1>1, <1>2
  <2>2. y = (a % b) - (MaxInt64 + 1)
    BY DEF wrap64
  <2> HIDE DEF a, b, y
  <2>3. a % b \in Int
    BY <2>1
  <2> QED  BY <1>1, <2>2, <2>3
<1>4. h = IF y <= 0 THEN 0
          ELSE IF maxBytes > 0 THEN Min2(Min2(y, maxPreSize), maxBytes) ELSE Min2(y, maxPreSize)
  BY DEF presizeHint
<1> HIDE DEF h, y
<1>5. h \in Nat
  BY <1>1, <1>3, <1>4 DEF Min2
<1>6. Min2(h, limit) \in Nat /\ Min2(h, limit) <= limit
  BY <1>5 DEF Min2
<1> QED  BY <1>6 DEF h

(* A one-shot decode begins with nothing in a buffer within its ceiling.   *)
LEMMA OneShotStep == DInv /\ DecodeInterleavedLimit => DInv'
<1> SUFFICES ASSUME DInv, DecodeInterleavedLimit PROVE DInv'
  OBVIOUS
<1>1. call = Idle
  BY DEF DecodeInterleavedLimit
<1>2. PICK s \in Streams, maxBytes \in Limits :
         LET limit == IF maxBytes <= 0 THEN MaxInt64 ELSE maxBytes
         IN /\ Bind(s)
            /\ IF s.opens
               THEN /\ call' = [op |-> "readAll", filled |-> << >>, limit |-> limit,
                                cap |-> Min2(presizeHint(Info(s), maxBytes), limit)]
                    /\ ret' = Idle
               ELSE Return("readAll", 0, "failed") /\ UNCHANGED call
  BY DEF DecodeInterleavedLimit
<1>3. /\ ReaderInv'
      /\ st' \in StreamType /\ err' \in BOOLEAN /\ rejected' \in BOOLEAN
      /\ remaining' \in Int /\ next' \in Nat /\ buffered' \in Nat /\ pend' \in Errs
      /\ staged' \in Seq(Byte) /\ end' \in Nat /\ faults' \in Nat /\ resets' \in Nat
      /\ got' \in [bytes : Seq(Byte), e : Errs]
      /\ out' = << >> /\ from' = 0 /\ torn' \in BOOLEAN
      /\ (rejected' => err') /\ (err' => ~s.opens /\ st' = NoStream)
  BY <1>2, BindStarts
<1> DEFINE limit == IF maxBytes <= 0 THEN MaxInt64 ELSE maxBytes
           c == Min2(presizeHint(Info(s), maxBytes), limit)
<1>4. << >> \in Seq(Byte) /\ 0 \in Nat /\ Len(<< >>) = 0
  OBVIOUS
<1>5. limit \in Nat /\ maxBytes \in Int /\ s \in StreamType
  BY DecoderAssumption
<1> HIDE DEF limit
<1>6. c \in Nat /\ c <= limit
  BY <1>5, PresizeBounds
<1>7. CASE s.opens
  <2>1. call' = [op |-> "readAll", filled |-> << >>, limit |-> limit, cap |-> c] /\ ret' = Idle
    BY <1>2, <1>7 DEF limit
  <2> HIDE DEF c
  <2>2. call' \in ReadAllCall
    BY <1>4, <1>5, <1>6, <2>1 DEF ReadAllCall
  <2>3. DTypeOK'
    BY <1>3, <1>4, <2>2 DEF DTypeOK
  <2>4. call'.op = "readAll" /\ call'.filled = << >> /\ call'.limit = limit /\ call'.cap = c
    BY <2>1
  <2>5. ~err'
    BY <1>3, <1>7
  <2>6. CallInv'
    BY <1>3, <1>4, <1>5, <1>6, <2>4, <2>5 DEF CallInv
  <2>7. SeekLandsWhereItSays'
    <3>1. ret'.op = "none"
      BY <2>1 DEF Idle
    <3> QED  BY <3>1 DEF SeekLandsWhereItSays
  <2> QED  BY <1>3, <2>3, <2>6, <2>7 DEF DInv
<1>8. CASE ~s.opens
  <2>1. call' = Idle /\ Return("readAll", 0, "failed")
    BY <1>1, <1>2, <1>8
  <2>2. DTypeOK'
    BY <1>3, <1>4, <2>1 DEF DTypeOK
  <2>3. CallInv'
    <3>1. call'.op = "none"
      BY <2>1 DEF Idle
    <3> QED  BY <1>3, <2>1, <3>1 DEF CallInv
  <2>4. SeekLandsWhereItSays'
    <3>1. ret'.op = "readAll"
      BY <2>1 DEF Return
    <3> QED  BY <3>1 DEF SeekLandsWhereItSays
  <2> QED  BY <1>3, <2>2, <2>3, <2>4 DEF DInv
<1> QED  BY <1>7, <1>8

(* A frame no later than maxFrame begins within 64 bits, and the frame     *)
(* landed on is the one asked for or the last whole one of a trusted       *)
(* length.                                                                 *)
LEMMA SeekBounds ==
    ASSUME st \in StreamType, NEW frame \in Nat, frame <= maxFrame
    PROVE  /\ seekOffset(frame) \in Nat
           /\ lengthKnown => seekOffset(frame) <= st.declared
           /\ seekOffset(frame) \div perFrame
                = IF lengthKnown THEN Min2(frame, st.declared \div perFrame) ELSE frame
           /\ seekOffset(frame) = (seekOffset(frame) \div perFrame) * perFrame
           /\ DataStart + seekOffset(frame) <= MaxInt64
<1> DEFINE p == perFrame
           o == seekOffset(frame)
           z == frame * p
           room == MaxInt64 - DataStart
           most == room \div p
           d == st.declared
           q == d \div p
           r == d % p
<1>1. p \in Nat /\ p > 0
  <2>1. st.width \in Nat /\ st.width > 0 /\ st.channels \in Nat /\ st.channels > 0
    BY DEF StreamType
  <2>2. st.width * st.channels >= 1 /\ st.width * st.channels \in Nat
    BY <2>1
  <2> QED  BY <2>2 DEF perFrame
<1>2. d \in Int /\ (lengthKnown => d \in Nat) /\ lengthKnown \in BOOLEAN
  BY DEF StreamType, lengthKnown
<1>3. frame <= most
  BY DEF maxFrame
<1>4. o = IF lengthKnown /\ z > d THEN d - r ELSE z
  BY DEF seekOffset
<1>5. room \in Nat /\ MaxInt64 \in Nat /\ DataStart \in Nat
  BY DecoderAssumption
<1> HIDE DEF p
<1>6. most \in Nat /\ most * p <= room
  <2> HIDE DEF room
  <2> QED  BY <1>1, <1>5, DivMod
<1> HIDE DEF most, o
<1>7. z \in Nat /\ z <= room
  <2>1. frame * p <= most * p
    BY <1>1, <1>3, <1>6
  <2>2. most * p \in Nat /\ frame * p \in Nat
    BY <1>1, <1>6
  <2> QED  BY <1>5, <1>6, <2>1, <2>2
<1>8. z \div p = frame /\ z % p = 0
  <2>1. (frame * p + 0) \div p = frame /\ (frame * p + 0) % p = 0 /\ frame * p + 0 = z
    BY <1>1, DivIs
  <2> QED  BY <2>1
<1>9. ASSUME lengthKnown
      PROVE  /\ q \in Nat /\ r \in Nat /\ r < p /\ d = q * p + r /\ d - r \in Nat
             /\ (d - r) \div p = q
  BY <1>1, <1>2, <1>9, DivMod, DivFloor
<1> HIDE DEF d, q, r
<1>10. CASE lengthKnown /\ z > d
  <2>1. o = d - r /\ o \div p = q /\ o \in Nat
    BY <1>4, <1>9, <1>10
  <2>2. o = q * p /\ o <= d /\ o <= z
    BY <1>1, <1>2, <1>7, <1>9, <1>10, <2>1
  <2>3. q <= frame
    <3> SUFFICES ASSUME q > frame PROVE FALSE
      BY <1>9, <1>10
    <3>1. q * p >= frame * p
      BY <1>1, <1>9, <1>10
    <3> QED  BY <1>2, <1>7, <1>10, <2>1, <2>2, <3>1
  <2>4. Min2(frame, q) = q
    BY <1>9, <1>10, <2>3 DEF Min2
  <2>5. DataStart + o <= MaxInt64
    <3> HIDE DEF z
    <3> QED  BY <1>5, <1>7, <2>1, <2>2 DEF room
  <2>6. o = (o \div p) * p
    BY <2>1, <2>2
  <2> QED  BY <1>10, <2>1, <2>2, <2>4, <2>5, <2>6 DEF o, p, d, q
<1>11. CASE ~(lengthKnown /\ z > d)
  <2>1. o = z
    BY <1>4, <1>11
  <2>2. o \in Nat /\ o \div p = frame /\ o = frame * p
    BY <1>7, <1>8, <2>1
  <2>3. ASSUME lengthKnown PROVE o <= d /\ Min2(frame, q) = frame
    <3>1. z <= d
      BY <1>2, <1>7, <1>11, <2>3
    <3>2. frame <= q
      <4> SUFFICES ASSUME q <= frame - 1 PROVE FALSE
        BY <1>9, <2>3
      <4>1. q * p <= (frame - 1) * p
        BY <1>1, <1>9, <2>3
      <4>2. (frame - 1) * p = z - p
        BY <1>1
      <4> QED  BY <1>1, <1>2, <1>7, <1>9, <2>3, <3>1, <4>1, <4>2
    <3> QED  BY <1>9, <2>1, <2>3, <3>1, <3>2 DEF Min2
  <2>4. DataStart + o <= MaxInt64
    <3> HIDE DEF z
    <3> QED  BY <1>5, <1>7, <2>1, <2>2 DEF room
  <2>5. o = (o \div p) * p
    BY <2>2
  <2>6. o \div p = IF lengthKnown THEN Min2(frame, q) ELSE frame
    BY <2>2, <2>3
  <2> QED  BY <2>2, <2>3, <2>4, <2>5, <2>6 DEF o, p, d, q
<1> QED  BY <1>10, <1>11

(* A seek that succeeds starts over at the frame it landed on.             *)
LEMMA SeekToStep ==
    ASSUME DInv, call = Idle, ~err, NEW frame \in Nat, frame <= maxFrame, SeekTo(frame)
    PROVE  DInv'
<1> DEFINE o == seekOffset(frame)
<1>1. /\ next' = o /\ from' = o
      /\ buffered' = 0 /\ pend' = "nil" /\ staged' = << >>
      /\ remaining' = IF lengthKnown THEN st.declared - o ELSE -1
      /\ out' = << >> /\ torn' = FALSE
      /\ got' = [bytes |-> << >>, e |-> "nil"]
      /\ st' = st /\ err' = err /\ rejected' = rejected /\ resets' = resets
      /\ faults' = faults /\ end' = end /\ call' = call
  BY DEF SeekTo
<1>2. ret'.n = o \div perFrame /\ ret'.asked = frame
  BY DEF SeekTo
<1>3. st \in StreamType /\ st.declared \in Int /\ end \in Nat /\ lengthKnown \in BOOLEAN
      /\ faults \in Nat /\ resets \in Nat /\ err \in BOOLEAN /\ rejected \in BOOLEAN
  BY DEF DInv, DTypeOK, StreamType, lengthKnown
<1>4. /\ o \in Nat
      /\ lengthKnown => o <= st.declared
      /\ o \div perFrame = IF lengthKnown THEN Min2(frame, st.declared \div perFrame) ELSE frame
      /\ o = (o \div perFrame) * perFrame
      /\ DataStart + o <= MaxInt64
  BY <1>3, SeekBounds
<1>5. lengthKnown' = lengthKnown /\ perFrame' = perFrame
  BY <1>1 DEF lengthKnown, perFrame
<1> HIDE DEF o
<1>6. got'.e = "nil" /\ got' \in [bytes : Seq(Byte), e : Errs] /\ << >> \in Seq(Byte)
  <2>1. << >> \in Seq(Byte)
    OBVIOUS
  <2> QED  BY <1>1, <2>1 DEF Errs
<1>7. AtStart'
  <2>1. /\ lengthKnown => remaining' = st.declared - o
        /\ ~lengthKnown => remaining' = -1
    BY <1>1
  <2>2. /\ next' = o /\ from' = o /\ buffered' = 0 /\ buffered' \in Nat /\ pend' # "EOF"
        /\ staged' = << >> /\ out' = << >> /\ st' = st /\ end' = end
    BY <1>1
  <2>3. ~(0 > 0)
    OBVIOUS
  <2> QED  BY <1>3, <1>4, <1>5, <1>6, <2>1, <2>2, <2>3 DEF AtStart
<1>8. ReaderInv'
  BY <1>7, StartKeeps, PTL
<1>9. DTypeOK'
  <2>1. remaining' \in Int /\ next' \in Nat /\ buffered' \in Nat /\ pend' \in Errs /\ from' \in Nat
    BY <1>1, <1>3, <1>4 DEF Errs
  <2>2. /\ st' \in StreamType /\ err' \in BOOLEAN /\ rejected' \in BOOLEAN /\ resets' \in Nat
        /\ faults' \in Nat /\ end' \in Nat /\ torn' \in BOOLEAN
        /\ call' \in {Idle} \cup WriteToCall \cup ReadAllCall
    BY <1>1, <1>3 DEF DInv, DTypeOK
  <2>3. staged' \in Seq(Byte) /\ out' \in Seq(Byte)
    BY <1>1, <1>6
  <2> QED  BY <1>6, <2>1, <2>2, <2>3 DEF DTypeOK
<1>10. CallInv'
  <2>1. call' = Idle /\ call'.op = "none"
    BY <1>1 DEF Idle
  <2> QED  BY <1>1, <2>1 DEF DInv, CallInv
<1>11. SeekLandsWhereItSays'
  <2>1. st' = st /\ from' = o
    BY <1>1
  <2> QED  BY <1>2, <1>4, <1>5, <2>1 DEF SeekLandsWhereItSays
<1> QED  BY <1>8, <1>9, <1>10, <1>11 DEF DInv

(* One that is refused or fails leaves the reader where it was.            *)
LEMMA SeekStep == DInv /\ SeekToFrame => DInv'
<1> SUFFICES ASSUME DInv, SeekToFrame PROVE DInv'
  OBVIOUS
<1>1. call = Idle
  BY DEF SeekToFrame
<1>2. PICK frame \in SeekFrames :
         \/ SeekRefused(frame)
         \/ /\ ~err /\ frame >= 0 /\ st.seekable /\ frame <= maxFrame
            /\ SeekTo(frame) \/ SeekFails
  BY DEF SeekToFrame
<1>3. frame \in Int
  BY DecoderAssumption
<1>4. CASE SeekRefused(frame)
  <2>1. ret'.e # "nil" /\ UNCHANGED <<bound, reading, end, call>>
    BY <1>4 DEF SeekRefused, Return
  <2> QED  BY <2>1, OnlyReturns
<1>5. CASE /\ ~err /\ frame >= 0 /\ st.seekable /\ frame <= maxFrame
           /\ SeekTo(frame)
  BY <1>1, <1>3, <1>5, SeekToStep
<1>6. CASE SeekFails
  <2>1. /\ faults > 0 /\ faults' = faults - 1 /\ ret'.e = "err"
        /\ st' = st /\ err' = err /\ resets' = resets /\ from' = from /\ rejected' = rejected
        /\ remaining' = remaining /\ next' = next /\ buffered' = buffered /\ pend' = pend
        /\ staged' = staged /\ got' = got /\ out' = out /\ torn' = torn
        /\ end' = end /\ call' = call
    BY <1>6 DEF SeekFails, Return, bound
  <2>2. faults' \in Nat
    <3>1. faults \in Nat
      BY DEF DInv, DTypeOK
    <3> QED  BY <2>1, <3>1
  <2>3. DTypeOK'
    BY <2>1, <2>2 DEF DInv, DTypeOK
  <2>4. ReaderInv'
    BY <2>1, ReaderStill DEF DInv
  <2>5. CallInv'
    BY <2>1 DEF DInv, CallInv
  <2>6. SeekLandsWhereItSays'
    BY <2>1 DEF SeekLandsWhereItSays
  <2> QED  BY <2>3, <2>4, <2>5, <2>6 DEF DInv
<1> QED  BY <1>2, <1>4, <1>5, <1>6

(* A source that grows does so behind everything that was passed or is     *)
(* held in the window; nothing is said of where it ends.                   *)
LEMMA GrowStep == DInv /\ Grow => DInv'
<1> SUFFICES ASSUME DInv, Grow PROVE DInv'
  OBVIOUS
<1>1. /\ st.grows /\ end' = end + 1 /\ ret' = ret
      /\ st' = st /\ err' = err /\ resets' = resets /\ from' = from /\ rejected' = rejected
      /\ remaining' = remaining /\ next' = next /\ buffered' = buffered /\ pend' = pend
      /\ staged' = staged /\ got' = got /\ out' = out /\ torn' = torn /\ faults' = faults
      /\ call' = call
  BY DEF Grow, bound, reading
<1>2. end \in Nat /\ next \in Nat /\ buffered \in Nat
  BY DEF DInv, DTypeOK
<1>3. unitIn' = unitIn /\ unitOut' = unitOut /\ lengthKnown' = lengthKnown
      /\ perFrame' = perFrame
  BY <1>1 DEF unitIn, unitOut, lengthKnown, perFrame
<1>4. DTypeOK'
  <2>1. end' \in Nat
    BY <1>1, <1>2
  <2> QED  BY <1>1, <2>1 DEF DInv, DTypeOK
<1>5. PlaceInv'
  <2>1. next + buffered <= end => next + buffered <= end + 1
    BY <1>2
  <2> QED  BY <1>1, <1>3, <2>1 DEF DInv, ReaderInv, PlaceInv
<1>6. OrderInv'
  BY <1>1, <1>3 DEF DInv, ReaderInv, OrderInv, Audio, CountInv
<1>7. CountInv'
  BY <1>1, <1>3 DEF DInv, ReaderInv, CountInv, Behind
<1>8. EndInv'
  BY <1>1 DEF DInv, ReaderInv, EndInv
<1>9. CallInv'
  BY <1>1 DEF DInv, CallInv
<1>10. SeekLandsWhereItSays'
  BY <1>1, <1>3 DEF DInv, SeekLandsWhereItSays
<1> QED  BY <1>4, <1>5, <1>6, <1>7, <1>8, <1>9, <1>10 DEF DInv, ReaderInv

(* What comes after the first k bytes.                                     *)
LEMMA TailIs ==
    ASSUME NEW s \in Seq(Byte), NEW k \in Nat, k <= Len(s)
    PROVE  /\ SubSeq(s, k + 1, Len(s)) \in Seq(Byte)
           /\ Len(SubSeq(s, k + 1, Len(s))) = Len(s) - k
           /\ \A i \in 1 .. Len(s) - k : SubSeq(s, k + 1, Len(s))[i] = s[k + i]
<1> DEFINE l == Len(s)
           m == k + 1
           t == SubSeq(s, m, l)
<1>1. l \in Nat /\ m \in Nat /\ k <= l /\ \A i \in m .. l : i \in 1 .. Len(s)
  BY LenProperties
<1>2. \A i \in m .. l : s[i] \in Byte
  BY <1>1, ElementOfSeq
<1> HIDE DEF l, m
<1>3. /\ t \in Seq(Byte) /\ Len(t) = IF m <= l THEN l - m + 1 ELSE 0
      /\ \A i \in 1 .. l - m + 1 : t[i] = s[m + i - 1]
  BY <1>1, <1>2, SubSeqProperties
<1> HIDE DEF t
<1>4. Len(t) = l - k
  BY <1>1, <1>3 DEF m
<1>5. ASSUME NEW i \in 1 .. l - k
      PROVE  t[i] = s[k + i]
  <2>1. i \in 1 .. l - m + 1 /\ m + i - 1 = k + i
    BY <1>1 DEF m
  <2>2. t[i] = s[m + i - 1]
    BY <1>3, <2>1
  <2> QED  BY <2>1, <2>2
<1>6. t = SubSeq(s, k + 1, Len(s))
  BY DEF t, m, l
<1> QED  BY <1>3, <1>4, <1>5, <1>6 DEF l

(* It grows with the whole.                                                *)
LEMMA TailGrows ==
    ASSUME NEW s \in Seq(Byte), NEW g \in Seq(Byte), NEW k \in Nat, k <= Len(s)
    PROVE  SubSeq(s \o g, k + 1, Len(s \o g)) = SubSeq(s, k + 1, Len(s)) \o g
<1> DEFINE c == s \o g
           l == Len(s)
           n == Len(c)
           t == SubSeq(s, k + 1, Len(s))
           u == SubSeq(c, k + 1, Len(c))
           v == t \o g
           h == Len(g)
<1>1. /\ c \in Seq(Byte) /\ n = l + h /\ l \in Nat /\ h \in Nat /\ n \in Nat /\ k <= l /\ k <= Len(c)
      /\ \A i \in 1 .. l + h : c[i] = IF i <= l THEN s[i] ELSE g[i - l]
  BY ConcatProperties, LenProperties
<1>2. t \in Seq(Byte) /\ Len(t) = l - k /\ \A i \in 1 .. l - k : t[i] = s[k + i]
  BY TailIs
<1> HIDE DEF t, c
<1>3. u \in Seq(Byte) /\ Len(u) = n - k /\ \A i \in 1 .. n - k : u[i] = c[k + i]
  BY <1>1, TailIs
<1>4. /\ v \in Seq(Byte) /\ Len(v) = Len(t) + h
      /\ \A i \in 1 .. Len(t) + h : v[i] = IF i <= Len(t) THEN t[i] ELSE g[i - Len(t)]
  BY <1>2, ConcatProperties
<1> HIDE DEF u, v, n, l, h
<1>5. Len(u) = n - k /\ Len(v) = n - k /\ Len(t) + h = n - k
  BY <1>1, <1>2, <1>3, <1>4
<1>6. ASSUME NEW i \in 1 .. n - k
      PROVE  u[i] = v[i]
  <2>1. u[i] = c[k + i] /\ k + i \in 1 .. l + h /\ v[i] = IF i <= l - k THEN t[i] ELSE g[i - (l - k)]
    BY <1>1, <1>2, <1>3, <1>4, <1>5
  <2>2. CASE i <= l - k
    <3>1. i \in 1 .. l - k /\ k + i <= l
      BY <1>1, <2>2
    <3>2. t[i] = s[k + i] /\ c[k + i] = s[k + i]
      BY <1>1, <1>2, <2>1, <3>1
    <3> QED  BY <2>1, <2>2, <3>2
  <2>3. CASE ~(i <= l - k)
    <3>1. ~(k + i <= l) /\ k + i - l = i - (l - k)
      BY <1>1, <2>3
    <3>2. c[k + i] = g[k + i - l]
      BY <1>1, <2>1, <3>1
    <3> QED  BY <2>1, <2>3, <3>1, <3>2
  <2> QED  BY <2>2, <2>3
<1>7. u = v
  BY <1>3, <1>4, <1>5, <1>6, SeqEqual
<1> QED  BY <1>7 DEF u, v, c, t

(* WriteTo begins with what has been handed over so far.                   *)
LEMMA WriteToStep == DInv /\ WriteTo => DInv'
<1> SUFFICES ASSUME DInv, WriteTo PROVE DInv'
  OBVIOUS
<1>1. call = Idle /\ UNCHANGED <<bound, reading, end>>
  BY DEF WriteTo
<1>2. CASE err
  <2>1. Return("WriteTo", 0, "failed") /\ UNCHANGED call
    BY <1>2 DEF WriteTo
  <2>2. ret'.op # "SeekToFrame"
    BY <2>1 DEF Return
  <2> QED  BY <1>1, <2>1, <2>2, OnlyReturns
<1>3. CASE ~err
  <2>1. /\ call' = [op |-> "WriteTo", filled |-> << >>, sunk |-> << >>, rerr |-> "nil",
                    start |-> Len(out)]
        /\ ret' = Idle
    BY <1>3 DEF WriteTo
  <2>2. /\ st' = st /\ err' = err /\ resets' = resets /\ from' = from /\ rejected' = rejected
        /\ remaining' = remaining /\ next' = next /\ buffered' = buffered /\ pend' = pend
        /\ staged' = staged /\ faults' = faults /\ got' = got /\ out' = out /\ torn' = torn
        /\ end' = end
    BY <1>1 DEF bound, reading
  <2>3. out \in Seq(Byte) /\ Len(out) \in Nat /\ << >> \in Seq(Byte)
    <3>1. out \in Seq(Byte)
      BY DEF DInv, DTypeOK
    <3> QED  BY <3>1, LenProperties
  <2>4. call' \in WriteToCall
    BY <2>1, <2>3 DEF WriteToCall, Errs
  <2>5. DTypeOK'
    BY <2>2, <2>4 DEF DInv, DTypeOK
  <2>6. ReaderInv'
    BY <2>2, ReaderStill DEF DInv
  <2>7. CallInv'
    <3>1. call'.op = "WriteTo" /\ call'.start = Len(out) /\ call'.filled = << >>
          /\ call'.sunk = << >>
      BY <2>1
    <3>2. SubSeq(out, Len(out) + 1, Len(out)) = << >>
      <4>1. Len(out) + 1 > Len(out)
        BY <2>3
      <4> QED  BY <2>3, <4>1, SubSeqEmpty
    <3>3. << >> \o << >> = << >> /\ Len(<< >>) = 0 /\ writeToBufferSize \in Nat
      BY DecoderAssumption
    <3>4. 0 <= writeToBufferSize /\ Len(out) <= Len(out)
      BY <2>3, <3>3
    <3> QED  BY <1>3, <2>2, <3>1, <3>2, <3>3, <3>4 DEF DInv, CallInv
  <2>8. SeekLandsWhereItSays'
    <3>1. ret'.op = "none"
      BY <2>1 DEF Idle
    <3> QED  BY <3>1 DEF SeekLandsWhereItSays
  <2> QED  BY <2>5, <2>6, <2>7, <2>8 DEF DInv
<1> QED  BY <1>2, <1>3

(* A call in progress is of a decoder that is bound.                       *)
LEMMA InCall ==
    ASSUME DInv, call.op \in {"WriteTo", "readAll"}
    PROVE  ~err /\ ~rejected /\ (call \in WriteToCall \/ call \in ReadAllCall)
<1>1. call # Idle
  BY DEF Idle
<1> QED  BY <1>1 DEF DInv, CallInv, DTypeOK

(* While its staging buffer is not full WriteTo adds to it what it reads.  *)
LEMMA WriteToReadStep == DInv /\ WriteToRead => DInv'
<1> SUFFICES ASSUME DInv, WriteToRead PROVE DInv'
  OBVIOUS
<1> DEFINE len == writeToBufferSize - Len(call.filled)
           g == got'.bytes
<1>1. /\ call.op = "WriteTo" /\ ~mustFlush /\ readInto(len)
      /\ call' = [call EXCEPT !.filled = @ \o got'.bytes, !.rerr = got'.e]
      /\ st' = st /\ err' = err /\ resets' = resets /\ from' = from /\ rejected' = rejected
      /\ end' = end /\ ret' = ret
  BY DEF WriteToRead, InWriteTo, bound
<1>2. ~err /\ ~rejected
  BY <1>1, InCall
<1>3. call \in WriteToCall
  <2>1. call \notin ReadAllCall
    BY <1>1 DEF ReadAllCall
  <2> QED  BY <1>1, <2>1, InCall
<1>4. /\ call.filled \in Seq(Byte) /\ call.sunk \in Seq(Byte) /\ call.start \in Nat
      /\ call.rerr \in Errs /\ out \in Seq(Byte)
  BY <1>3 DEF WriteToCall, DInv, DTypeOK
<1>5. /\ call.start <= Len(out)
      /\ SubSeq(out, call.start + 1, Len(out)) = call.sunk \o call.filled
      /\ Len(call.filled) <= writeToBufferSize
  BY <1>1 DEF DInv, CallInv
<1>6. len \in Nat /\ len > 0 /\ Len(call.filled) \in Nat
  <2>1. Len(call.filled) # writeToBufferSize
    BY <1>1 DEF mustFlush
  <2>2. Len(call.filled) \in Nat /\ writeToBufferSize \in Nat
    BY <1>4, LenProperties, DecoderAssumption
  <2> QED  BY <1>5, <2>1, <2>2
<1> HIDE DEF len
<1>7. /\ ReaderInv'
      /\ remaining' \in Int /\ next' \in Nat /\ buffered' \in Nat /\ pend' \in Errs
      /\ staged' \in Seq(Byte) /\ faults' \in Nat /\ out' \in Seq(Byte) /\ torn' \in BOOLEAN
      /\ got' \in [bytes : Seq(Byte), e : Errs]
      /\ out' = out \o got'.bytes /\ Len(got'.bytes) <= len
  BY <1>1, <1>6, ReadKeeps DEF DInv
<1>8. g \in Seq(Byte) /\ got'.e \in Errs /\ out' = out \o g /\ Len(g) <= len
  BY <1>7
<1>9. call' = [op |-> "WriteTo", filled |-> call.filled \o g, sunk |-> call.sunk,
               rerr |-> got'.e, start |-> call.start]
  BY <1>1, <1>3 DEF WriteToCall
<1> HIDE DEF g
<1>10. call.filled \o g \in Seq(Byte) /\ Len(call.filled \o g) = Len(call.filled) + Len(g)
  BY <1>4, <1>8, ConcatProperties
<1>11. call' \in WriteToCall
  BY <1>4, <1>8, <1>9, <1>10 DEF WriteToCall
<1>12. DTypeOK'
  <2>1. /\ st' \in StreamType /\ err' \in BOOLEAN /\ rejected' \in BOOLEAN /\ resets' \in Nat
        /\ end' \in Nat /\ from' \in Nat
    BY <1>1 DEF DInv, DTypeOK
  <2> QED  BY <1>7, <1>11, <2>1 DEF DTypeOK
<1>13. /\ call'.op = "WriteTo" /\ call'.filled = call.filled \o g /\ call'.sunk = call.sunk
       /\ call'.start = call.start
  BY <1>9
<1>14. CallInv'
  <2>1. Len(call.filled \o g) <= writeToBufferSize
    <3>1. Len(g) \in Nat /\ writeToBufferSize \in Nat
      BY <1>8, LenProperties, DecoderAssumption
    <3> QED  BY <1>6, <1>8, <1>10, <3>1 DEF len
  <2>2. call.start <= Len(out \o g)
    <3>1. Len(out \o g) = Len(out) + Len(g) /\ Len(out) \in Nat /\ Len(g) \in Nat
      BY <1>4, <1>8, ConcatProperties, LenProperties
    <3> QED  BY <1>4, <1>5, <3>1
  <2> DEFINE k == call.start
             a == call.sunk
             b == call.filled
  <2>3. /\ k \in Nat /\ k <= Len(out) /\ a \in Seq(Byte) /\ b \in Seq(Byte)
        /\ SubSeq(out, k + 1, Len(out)) = a \o b
    BY <1>4, <1>5
  <2> HIDE DEF k, a, b
  <2>4. SubSeq(out \o g, k + 1, Len(out \o g)) = a \o (b \o g)
    <3>1. SubSeq(out \o g, k + 1, Len(out \o g)) = SubSeq(out, k + 1, Len(out)) \o g
      BY <1>4, <1>8, <2>3, TailGrows
    <3>2. (a \o b) \o g = a \o (b \o g)
      BY <1>8, <2>3, ConcatAssociative
    <3> QED  BY <2>3, <3>1, <3>2
  <2>5. ~err' /\ ~rejected' /\ out' = out \o g
    BY <1>1, <1>2, <1>8
  <2>6. SubSeq(out \o g, call.start + 1, Len(out \o g)) = call.sunk \o (call.filled \o g)
    BY <2>4 DEF k, a, b
  <2> QED  BY <1>13, <2>1, <2>2, <2>5, <2>6 DEF CallInv
<1>15. SeekLandsWhereItSays'
  <2>1. lengthKnown' = lengthKnown /\ perFrame' = perFrame
    BY <1>1 DEF lengthKnown, perFrame
  <2> QED  BY <1>1, <2>1 DEF DInv, SeekLandsWhereItSays
<1> QED  BY <1>7, <1>12, <1>14, <1>15 DEF DInv

(* What WriteTo has given the sink when it takes k bytes of the buffer.    *)
LEMMA Flushed ==
    ASSUME DInv, InWriteTo, NEW r \in sinkTakes
    PROVE  /\ call \in WriteToCall
           /\ call.sunk \in Seq(Byte) /\ call.filled \in Seq(Byte)
           /\ r.k \in 0 .. Len(call.filled) /\ r.failed \in BOOLEAN
           /\ ~(r.k < Len(call.filled)) => SubSeq(call.filled, 1, r.k) = call.filled
<1>1. call \in WriteToCall
  <2>1. call \notin ReadAllCall
    BY DEF ReadAllCall, InWriteTo
  <2> QED  BY <2>1, InCall DEF InWriteTo
<1>2. call.sunk \in Seq(Byte) /\ call.filled \in Seq(Byte)
  BY <1>1 DEF WriteToCall
<1>3. r.k \in 0 .. Len(call.filled) /\ r.failed \in BOOLEAN
  BY DEF sinkTakes
<1>4. ASSUME ~(r.k < Len(call.filled))
      PROVE  SubSeq(call.filled, 1, r.k) = call.filled
  <2>1. Len(call.filled) \in Nat
    BY <1>2, LenProperties
  <2>2. r.k = Len(call.filled)
    BY <1>3, <1>4, <2>1
  <2> QED  BY <1>2, <2>2, SubSeqFull
<1> QED  BY <1>1, <1>2, <1>3, <1>4

(* A flush empties the buffer into the sink, or ends the call.             *)
LEMMA WriteToFlushStep == DInv /\ WriteToFlush => DInv'
<1> SUFFICES ASSUME DInv, WriteToFlush PROVE DInv'
  OBVIOUS
<1>1. /\ InWriteTo
      /\ st' = st /\ err' = err /\ resets' = resets /\ from' = from /\ rejected' = rejected
      /\ remaining' = remaining /\ next' = next /\ buffered' = buffered /\ pend' = pend
      /\ staged' = staged /\ faults' = faults /\ got' = got /\ out' = out /\ torn' = torn
      /\ end' = end
  BY DEF WriteToFlush, bound, reading
<1>2. PICK r \in sinkTakes :
         LET sunk == call.sunk \o SubSeq(call.filled, 1, r.k)
             werr == r.failed \/ r.k < Len(call.filled)
         IN IF werr \/ call.rerr # "nil"
            THEN /\ call' = Idle
                 /\ ret' = [op |-> "WriteTo", n |-> Len(sunk), sunk |-> sunk, start |-> call.start,
                            e |-> IF werr THEN "sink"
                                  ELSE IF call.rerr = "EOF" THEN "nil" ELSE call.rerr]
            ELSE call' = [call EXCEPT !.filled = << >>, !.sunk = sunk] /\ UNCHANGED ret
  BY DEF WriteToFlush
<1>3. /\ call \in WriteToCall
      /\ call.sunk \in Seq(Byte) /\ call.filled \in Seq(Byte)
      /\ ~(r.k < Len(call.filled)) => SubSeq(call.filled, 1, r.k) = call.filled
  BY <1>1, Flushed
<1>4. ReaderInv'
  BY <1>1, ReaderStill DEF DInv
<1>5. ~err' /\ ~rejected'
  BY <1>1, InCall DEF InWriteTo
<1>6. ASSUME call' \in {Idle} \cup WriteToCall
      PROVE  DTypeOK'
  BY <1>1, <1>6 DEF DInv, DTypeOK
<1>7. CASE r.failed \/ r.k < Len(call.filled) \/ call.rerr # "nil"
  <2>1. call' = Idle /\ ret'.op = "WriteTo"
    BY <1>2, <1>7
  <2>2. CallInv'
    <3>1. call'.op = "none"
      BY <2>1 DEF Idle
    <3> QED  BY <1>5, <2>1, <3>1 DEF CallInv
  <2>3. SeekLandsWhereItSays'
    BY <2>1 DEF SeekLandsWhereItSays
  <2> QED  BY <1>4, <1>6, <2>1, <2>2, <2>3 DEF DInv
<1>8. CASE ~(r.failed \/ r.k < Len(call.filled) \/ call.rerr # "nil")
  <2> DEFINE sunk == call.sunk \o call.filled
  <2>1. call' = [call EXCEPT !.filled = << >>, !.sunk = sunk] /\ ret' = ret
    BY <1>2, <1>3, <1>8
  <2>2. sunk \in Seq(Byte)
    BY <1>3, ConcatProperties
  <2> HIDE DEF sunk
  <2>3. call' = [op |-> "WriteTo", filled |-> << >>, sunk |-> sunk, rerr |-> call.rerr,
                 start |-> call.start]
    BY <1>3, <2>1 DEF WriteToCall
  <2>4. call.rerr \in Errs /\ call.start \in Nat /\ << >> \in Seq(Byte)
    BY <1>3 DEF WriteToCall
  <2>5. call' \in WriteToCall
    BY <2>2, <2>3, <2>4 DEF WriteToCall
  <2>6. /\ call'.op = "WriteTo" /\ call'.filled = << >> /\ call'.sunk = sunk
        /\ call'.start = call.start
    BY <2>3
  <2>7. CallInv'
    <3>1. /\ call.start <= Len(out)
          /\ SubSeq(out, call.start + 1, Len(out)) = sunk
      BY <1>1 DEF DInv, CallInv, InWriteTo, sunk
    <3>2. sunk \o << >> = sunk
      BY <2>2, ConcatEmptySeq
    <3>3. Len(<< >>) = 0 /\ 0 <= writeToBufferSize
      BY DecoderAssumption
    <3> QED  BY <1>1, <1>5, <2>6, <3>1, <3>2, <3>3 DEF CallInv
  <2>8. SeekLandsWhereItSays'
    <3>1. lengthKnown' = lengthKnown /\ perFrame' = perFrame
      BY <1>1 DEF lengthKnown, perFrame
    <3> QED  BY <1>1, <2>1, <3>1 DEF DInv, SeekLandsWhereItSays
  <2> QED  BY <1>4, <1>6, <2>5, <2>7, <2>8 DEF DInv
<1> QED  BY <1>7, <1>8

(* The capacity grows by at least a byte, never past the ceiling.          *)
LEMMA NextCapBounds ==
    ASSUME NEW c \in Nat, NEW limit \in Nat, c < limit
    PROVE  nextCap(c, limit) \in Nat /\ c + 1 <= nextCap(c, limit) /\ nextCap(c, limit) <= limit
<1>1. streamBufferSize \in Nat /\ streamBufferSize > 0
  BY DecoderAssumption
<1>2. nextCap(c, limit) = IF c = 0 THEN Min2(streamBufferSize, limit) ELSE c + Min2(c, limit - c)
  BY DEF nextCap
<1>3. CASE c = 0
  <2>1. nextCap(c, limit) = Min2(streamBufferSize, limit)
    BY <1>2, <1>3
  <2> QED  BY <1>1, <1>3, <2>1 DEF Min2
<1>4. CASE c # 0
  <2>1. nextCap(c, limit) = c + Min2(c, limit - c)
    BY <1>2, <1>4
  <2>2. Min2(c, limit - c) \in Nat /\ 1 <= Min2(c, limit - c) /\ Min2(c, limit - c) <= limit - c
    BY <1>4 DEF Min2
  <2> QED  BY <2>1, <2>2
<1> QED  BY <1>3, <1>4

(* One turn of the loop adds to what it has no more than it has room for,  *)
(* one byte when it has none.                                              *)
LEMMA TurnReads ==
    ASSUME DInv, readAllLimit
    PROVE  /\ call \in ReadAllCall /\ call.filled = out /\ from = 0 /\ ~err /\ ~rejected
           /\ st' = st /\ err' = err /\ resets' = resets /\ from' = from /\ rejected' = rejected
           /\ end' = end
           /\ call.cap \in Nat /\ call.limit \in Nat /\ call.cap <= call.limit
           /\ Len(call.filled) \in Nat /\ Len(call.filled) <= call.cap
           /\ ReaderInv'
           /\ remaining' \in Int /\ next' \in Nat /\ buffered' \in Nat /\ pend' \in Errs
           /\ staged' \in Seq(Byte) /\ faults' \in Nat /\ out' \in Seq(Byte) /\ torn' \in BOOLEAN
           /\ got' \in [bytes : Seq(Byte), e : Errs]
           /\ out' = out \o got'.bytes /\ got'.bytes \in Seq(Byte) /\ got'.e \in Errs
           /\ Len(got'.bytes) \in Nat /\ Len(out') = Len(call.filled) + Len(got'.bytes)
           /\ Len(got'.bytes) <= IF Len(call.filled) = call.cap
                                 THEN 1 ELSE call.cap - Len(call.filled)
<1> DEFINE room == IF Len(call.filled) = call.cap THEN 1 ELSE call.cap - Len(call.filled)
<1>1. /\ call.op = "readAll" /\ readInto(room)
      /\ st' = st /\ err' = err /\ resets' = resets /\ from' = from /\ rejected' = rejected
      /\ end' = end
  BY DEF readAllLimit, bound
<1>2. ~err /\ ~rejected
  BY <1>1, InCall
<1>3. call \in ReadAllCall
  <2>1. call \notin WriteToCall
    BY <1>1 DEF WriteToCall
  <2> QED  BY <1>1, <2>1, InCall
<1>4. call.filled \in Seq(Byte) /\ call.cap \in Nat /\ call.limit \in Nat
  BY <1>3 DEF ReadAllCall
<1>5. /\ call.filled = out /\ from = 0
      /\ Len(call.filled) <= call.cap /\ call.cap <= call.limit
  BY <1>1 DEF DInv, CallInv
<1>6. Len(call.filled) \in Nat
  BY <1>4, LenProperties
<1>7. room \in Nat /\ room > 0
  BY <1>4, <1>5, <1>6
<1> HIDE DEF room
<1>8. /\ ReaderInv'
      /\ remaining' \in Int /\ next' \in Nat /\ buffered' \in Nat /\ pend' \in Errs
      /\ staged' \in Seq(Byte) /\ faults' \in Nat /\ out' \in Seq(Byte) /\ torn' \in BOOLEAN
      /\ got' \in [bytes : Seq(Byte), e : Errs]
      /\ out' = out \o got'.bytes /\ Len(got'.bytes) <= room
  BY <1>1, <1>7, ReadKeeps DEF DInv
<1>9. got'.bytes \in Seq(Byte) /\ got'.e \in Errs
  BY <1>8
<1>10. Len(got'.bytes) \in Nat /\ Len(out') = Len(call.filled) + Len(got'.bytes)
  <2> DEFINE g == got'.bytes
  <2>1. out \in Seq(Byte) /\ g \in Seq(Byte) /\ out' = out \o g /\ call.filled = out
    BY <1>4, <1>5, <1>8, <1>9
  <2> HIDE DEF g
  <2>2. Len(g) \in Nat /\ Len(out \o g) = Len(out) + Len(g)
    BY <2>1, ConcatProperties, LenProperties
  <2>3. Len(g) \in Nat /\ Len(out') = Len(call.filled) + Len(g)
    BY <2>1, <2>2
  <2> QED  BY <2>3 DEF g
<1>11. Len(got'.bytes) <= IF Len(call.filled) = call.cap THEN 1 ELSE call.cap - Len(call.filled)
  BY <1>8 DEF room
<1> QED  BY <1>1, <1>2, <1>3, <1>4, <1>5, <1>6, <1>8, <1>9, <1>10, <1>11

(* The loop returns e and all that was read.                               *)
TurnEnds(e) ==
    /\ call' = Idle
    /\ ret' = [op |-> "readAll", n |-> Len(out'), e |-> e, limit |-> call.limit]

(* A turn that goes on changes what it has and the room for it, no more.   *)
LEMMA TurnRecord ==
    ASSUME NEW r \in ReadAllCall, NEW f \in Seq(Byte), NEW c \in Nat
    PROVE  [r EXCEPT !.filled = f, !.cap = c]
             = [op |-> "readAll", filled |-> f, limit |-> r.limit, cap |-> c]
<1> DEFINE x == [r EXCEPT !.filled = f, !.cap = c]
           y == [op |-> "readAll", filled |-> f, limit |-> r.limit, cap |-> c]
<1>1. x \in ReadAllCall /\ y \in ReadAllCall
  BY DEF ReadAllCall
<1>2. /\ x.op = r.op /\ x.filled = f /\ x.limit = r.limit /\ x.cap = c
      /\ y.op = "readAll" /\ y.filled = f /\ y.limit = r.limit /\ y.cap = c
      /\ r.op = "readAll"
  BY DEF ReadAllCall
<1> HIDE DEF x, y
<1>3. x = y
  BY <1>1, <1>2 DEF ReadAllCall
<1> QED  BY <1>3 DEF x, y

(* It returns with no more than its ceiling, unless it has seen a byte     *)
(* more, and otherwise it has room for what it read.                       *)
LEMMA TurnGoes ==
    ASSUME DInv, readAllLimit
    PROVE  \/ TurnEnds("limit") /\ Len(out') > call.limit
           \/ \E e \in {"nil", "err"} : TurnEnds(e) /\ Len(out') <= call.limit
           \/ \E c \in Nat :
                 /\ call' = [op |-> "readAll", filled |-> out', limit |-> call.limit, cap |-> c]
                 /\ Len(out') <= c /\ c <= call.limit /\ ret' = ret
<1> DEFINE len == Len(call.filled)
           n == Len(got'.bytes)
           m == Len(out')
           c == call.cap
           limit == call.limit
           probing == len = c
           over == probing /\ n > 0 /\ len >= limit
           e == got'.e
           finished(x) == /\ call' = Idle
                          /\ ret' = [op |-> "readAll", n |-> len + n, e |-> x, limit |-> limit]
           grown == IF probing /\ n > 0 THEN nextCap(c, limit) ELSE c
<1>1. IF over THEN finished("limit")
      ELSE IF e # "nil" THEN finished(IF e = "EOF" THEN "nil" ELSE e)
      ELSE /\ call' = [call EXCEPT !.filled = @ \o got'.bytes,
                                   !.cap = IF probing /\ n > 0 THEN nextCap(@, limit) ELSE @]
           /\ ret' = ret
  BY DEF readAllLimit
<1>2. /\ c \in Nat /\ limit \in Nat /\ len \in Nat /\ n \in Nat /\ c <= limit /\ len <= c
      /\ m = len + n /\ e \in Errs /\ n <= IF len = c THEN 1 ELSE c - len
  BY TurnReads
<1>3. call \in ReadAllCall /\ out' = call.filled \o got'.bytes
  BY TurnReads
<1>4. ASSUME NEW x, finished(x) PROVE TurnEnds(x)
  BY <1>2, <1>4 DEF TurnEnds
<1> DEFINE f == call.filled \o got'.bytes
<1>5. ASSUME grown \in Nat
      PROVE  [call EXCEPT !.filled = @ \o got'.bytes,
                          !.cap = IF probing /\ n > 0 THEN nextCap(@, limit) ELSE @]
               = [op |-> "readAll", filled |-> out', limit |-> limit, cap |-> grown]
  <2>1. [call EXCEPT !.filled = @ \o got'.bytes,
                     !.cap = IF probing /\ n > 0 THEN nextCap(@, limit) ELSE @]
          = [call EXCEPT !.filled = f, !.cap = grown]
    OBVIOUS
  <2>2. f = out' /\ f \in Seq(Byte)
    BY <1>3, TurnReads
  <2> HIDE DEF f, grown, n, len
  <2>3. [call EXCEPT !.filled = f, !.cap = grown]
          = [op |-> "readAll", filled |-> f, limit |-> call.limit, cap |-> grown]
    BY <1>3, <1>5, <2>2, TurnRecord
  <2> QED  BY <2>1, <2>2, <2>3
<1> HIDE DEF finished, e, n, m, c, len, limit, grown
<1>6. CASE over
  <2>1. m > limit
    BY <1>2, <1>6
  <2> QED  BY <1>1, <1>4, <1>6, <2>1 DEF m, limit
<1>7. CASE ~over
  <2>1. m <= limit
    BY <1>2, <1>7
  <2>2. CASE e # "nil"
    <3>1. finished(IF e = "EOF" THEN "nil" ELSE e)
      BY <1>1, <1>7, <2>2
    <3>2. (IF e = "EOF" THEN "nil" ELSE e) \in {"nil", "err"}
      BY <1>2, <2>2 DEF Errs
    <3> QED  BY <1>4, <2>1, <3>1, <3>2 DEF m, limit
  <2>3. CASE e = "nil"
    <3>1. grown \in Nat /\ m <= grown /\ grown <= limit
      <4>1. CASE probing /\ n > 0
        <5>1. c < limit /\ grown = nextCap(c, limit)
          BY <1>2, <1>7, <4>1 DEF grown
        <5>2. grown \in Nat /\ c + 1 <= grown /\ grown <= limit
          BY <1>2, <5>1, NextCapBounds
        <5> QED  BY <1>2, <4>1, <5>2
      <4>2. CASE ~(probing /\ n > 0)
        <5>1. grown = c
          BY <4>2 DEF grown
        <5> QED  BY <1>2, <4>2, <5>1
      <4> QED  BY <4>1, <4>2
    <3>2. /\ call' = [op |-> "readAll", filled |-> out', limit |-> limit, cap |-> grown]
          /\ ret' = ret
      BY <1>1, <1>5, <1>7, <2>3, <3>1
    <3> QED  BY <3>1, <3>2 DEF m, limit
  <2> QED  BY <2>2, <2>3
<1> QED  BY <1>6, <1>7

(* So every turn keeps the invariant.                                      *)
LEMMA ReadAllStep == DInv /\ readAllLimit => DInv'
<1> SUFFICES ASSUME DInv, readAllLimit PROVE DInv'
  OBVIOUS
<1>1. /\ ~err /\ ~rejected /\ from = 0 /\ call.limit \in Nat
      /\ st' = st /\ err' = err /\ resets' = resets /\ from' = from /\ rejected' = rejected
      /\ end' = end
      /\ ReaderInv'
      /\ remaining' \in Int /\ next' \in Nat /\ buffered' \in Nat /\ pend' \in Errs
      /\ staged' \in Seq(Byte) /\ faults' \in Nat /\ out' \in Seq(Byte) /\ torn' \in BOOLEAN
      /\ got' \in [bytes : Seq(Byte), e : Errs]
  BY TurnReads
<1>2. ASSUME call' \in {Idle} \cup ReadAllCall
      PROVE  DTypeOK'
  <2>1. /\ st' \in StreamType /\ err' \in BOOLEAN /\ rejected' \in BOOLEAN /\ resets' \in Nat
        /\ end' \in Nat /\ from' \in Nat
    BY <1>1 DEF DInv, DTypeOK
  <2> QED  BY <1>1, <1>2, <2>1 DEF DTypeOK
<1>3. ASSUME NEW e, TurnEnds(e)
      PROVE  DInv'
  <2>1. call' = Idle /\ ret'.op = "readAll"
    BY <1>3 DEF TurnEnds
  <2>2. CallInv'
    <3>1. call'.op = "none"
      BY <2>1 DEF Idle
    <3> QED  BY <1>1, <2>1, <3>1 DEF CallInv
  <2>3. SeekLandsWhereItSays'
    BY <2>1 DEF SeekLandsWhereItSays
  <2> QED  BY <1>1, <1>2, <2>1, <2>2, <2>3 DEF DInv
<1>4. ASSUME NEW c \in Nat,
             call' = [op |-> "readAll", filled |-> out', limit |-> call.limit, cap |-> c],
             Len(out') <= c, c <= call.limit, ret' = ret
      PROVE  DInv'
  <2>1. call' \in ReadAllCall
    BY <1>1, <1>4 DEF ReadAllCall
  <2>2. call'.op = "readAll" /\ call'.filled = out' /\ call'.limit = call.limit /\ call'.cap = c
    BY <1>4
  <2>3. CallInv'
    BY <1>1, <1>4, <2>2 DEF CallInv
  <2>4. SeekLandsWhereItSays'
    <3>1. lengthKnown' = lengthKnown /\ perFrame' = perFrame
      BY <1>1 DEF lengthKnown, perFrame
    <3> QED  BY <1>1, <1>4, <3>1 DEF DInv, SeekLandsWhereItSays
  <2> QED  BY <1>1, <1>2, <2>1, <2>3, <2>4 DEF DInv
<1> QED  BY <1>3, <1>4, TurnGoes

(* The invariant holds from the beginning and every step keeps it.         *)
LEMMA DStep == DInv /\ [Next]_vars => DInv'
<1> SUFFICES ASSUME DInv, [Next]_vars PROVE DInv'
  OBVIOUS
<1>1. CASE UNCHANGED vars
  <2>1. UNCHANGED <<bound, reading, end, call>> /\ ret' = ret
    BY <1>1 DEF vars
  <2>2. /\ st' = st /\ err' = err /\ resets' = resets /\ from' = from /\ rejected' = rejected
        /\ remaining' = remaining /\ next' = next /\ buffered' = buffered /\ pend' = pend
        /\ staged' = staged /\ faults' = faults /\ got' = got /\ out' = out /\ torn' = torn
        /\ end' = end /\ call' = call
    BY <2>1 DEF bound, reading
  <2>3. DTypeOK'
    BY <2>2 DEF DInv, DTypeOK
  <2>4. ReaderInv'
    BY <2>2, ReaderStill DEF DInv
  <2>5. CallInv'
    BY <2>2 DEF DInv, CallInv
  <2>6. SeekLandsWhereItSays'
    <3>1. lengthKnown' = lengthKnown /\ perFrame' = perFrame
      BY <2>2 DEF lengthKnown, perFrame
    <3> QED  BY <2>1, <2>2, <3>1 DEF DInv, SeekLandsWhereItSays
  <2> QED  BY <2>3, <2>4, <2>5, <2>6 DEF DInv
<1> QED  BY <1>1, ResetStep, ReadStep, SeekStep, WriteToStep, OneShotStep, WriteToReadStep,
            WriteToFlushStep, ReadAllStep, GrowStep DEF Next

(* So it holds of every behaviour.                                         *)
LEMMA DecoderInvariant == Spec => []DInv
BY InitKeeps, DStep, PTL DEF Spec

-----------------------------------------------------------------------------
(* The theorems.                                                           *)

(* What DecodeInterleavedBytes gives from the last Reset or Seek on.       *)
LEMMA AudioFromIs ==
    ASSUME DTypeOK
    PROVE  audible \in Nat /\ audioFrom(from) = Audio(from, audible)
<1>1. st \in StreamType /\ from \in Nat /\ end \in Nat /\ st.declared \in Int
  BY DEF DTypeOK, StreamType
<1> DEFINE stop == IF lengthKnown THEN Min2(end, st.declared) ELSE end
<1>2. stop \in Int
  BY <1>1 DEF Min2
<1>3. audible = Max2(stop - from, 0)
  BY DEF audible
<1>4. audioFrom(from) = IF convert(st) = 0 THEN Stored(from, audible)
                        ELSE Converted(from, audible, st.width, convert(st))
  BY <1>3 DEF audioFrom
<1> HIDE DEF stop
<1>5. audible \in Nat
  BY <1>1, <1>2, <1>3 DEF Max2
<1>6. CASE convert(st) = 0
  <2>1. Audio(from, audible) = Stored(from, audible)
    BY <1>1, <1>5, <1>6, AudioStored
  <2> QED  BY <1>4, <1>5, <1>6, <2>1
<1>7. CASE convert(st) # 0
  <2>1. Audio(from, audible) = Converted(from, audible, st.width, convert(st))
    BY <1>1, <1>5, <1>7, AudioConverted
  <2> QED  BY <1>4, <1>5, <1>7, <2>1
<1> QED  BY <1>6, <1>7

(* Nothing behind the end of the audio is passed.                          *)
LEMMA PassedIsAudible ==
    ASSUME DTypeOK, PlaceInv
    PROVE  next - from \in Nat /\ next - from <= audible
<1>1. next \in Nat /\ buffered \in Nat /\ from \in Nat /\ end \in Nat /\ st.declared \in Int
  BY DEF DTypeOK, StreamType
<1>2. /\ from <= next /\ (next > from => next + buffered <= end)
      /\ lengthKnown => next <= st.declared
  BY DEF PlaceInv
<1> DEFINE stop == IF lengthKnown THEN Min2(end, st.declared) ELSE end
<1>3. stop \in Int /\ (next > from => next <= stop)
  BY <1>1, <1>2 DEF Min2
<1>4. audible = Max2(stop - from, 0)
  BY DEF audible
<1> HIDE DEF stop
<1> QED  BY <1>1, <1>2, <1>3, <1>4 DEF Max2

(* Theorem: in any sequence of reads, writes, seeks, errors and short      *)
(* answers of the source, what Read hands over since the last Reset or     *)
(* SeekToFrame is the audio from that position on, no byte skipped,        *)
(* repeated or stale (decoder.go:529-606, 725-746).                        *)
THEOREM AudioIsDeliveredInOrder == Spec => []DeliveredInOrder
<1>1. DInv => DeliveredInOrder
  <2> SUFFICES ASSUME DInv, ~torn PROVE IsPrefix(out, audioFrom(from))
    BY DEF DeliveredInOrder
  <2> DEFINE n == next - from
  <2>1. DTypeOK /\ PlaceInv /\ out \o staged = Audio(from, n)
    BY DEF DInv, ReaderInv, OrderInv
  <2>2. st \in StreamType /\ from \in Nat /\ out \in Seq(Byte) /\ staged \in Seq(Byte)
    BY <2>1 DEF DTypeOK
  <2>3. audible \in Nat /\ audioFrom(from) = Audio(from, audible)
    BY <2>1, AudioFromIs
  <2>4. n \in Nat /\ n <= audible
    BY <2>1, PassedIsAudible
  <2> HIDE DEF n
  <2>5. IsPrefix(Audio(from, n), Audio(from, audible))
    BY <2>2, <2>3, <2>4, AudioPrefix
  <2> DEFINE A == Audio(from, audible)
  <2>6. A \in Seq(Byte)
    BY <2>2, <2>3, AudioType
  <2>7. IsPrefix(out \o staged, A)
    BY <2>1, <2>5
  <2> HIDE DEF A
  <2>8. IsPrefix(out, A)
    BY <2>2, <2>6, <2>7, PrefixOfConcat
  <2> QED  BY <2>3, <2>8 DEF A
<1> QED  BY <1>1, DecoderInvariant, PTL

(* Theorem: with a length to go by, no byte of a sample that reaches past  *)
(* the data chunk is handed over, torn or not (decoder.go:458-464,         *)
(* 521-524, 566-568, 733-734).                                             *)
THEOREM NothingPastDeclared == Spec => []NeverPastDeclared
<1>1. DInv => NeverPastDeclared
  <2> SUFFICES ASSUME DInv, lengthKnown, NEW i \in 1 .. Len(out)
               PROVE  out[i][1] + (IF convert(st) = 0 THEN 1 ELSE st.width) <= st.declared
    BY DEF NeverPastDeclared
  <2>1. /\ st \in StreamType /\ next \in Nat /\ out \in Seq(Byte) /\ staged \in Seq(Byte)
        /\ st.declared \in Int
    BY DEF DInv, DTypeOK, StreamType
  <2>2. Behind(out \o staged, next) /\ next <= st.declared
    BY DEF DInv, ReaderInv, CountInv, PlaceInv
  <2>3. Behind(out, next)
    BY <2>1, <2>2, BehindConcat
  <2>4. out[i][1] + unitIn <= next
    BY <2>3 DEF Behind
  <2>5. out[i][1] \in Nat /\ unitIn \in Nat
    <3>1. out[i] \in Byte
      BY <2>1, ElementOfSeq
    <3> QED  BY <2>1, <3>1, UnitType DEF Byte
  <2>6. out[i][1] + unitIn <= st.declared
    BY <2>1, <2>2, <2>4, <2>5
  <2> QED  BY <2>6 DEF unitIn
<1> QED  BY <1>1, DecoderInvariant, PTL

(* Theorem: the end is reported only when all of the audio has been handed *)
(* over, so that reading in any block sizes gives what                     *)
(* DecodeInterleavedBytes gives in one piece (decoder.go:465-473, 555-577; *)
(* decode_oneshot.go:321-327, 356).                                        *)
THEOREM EndIsEverything == Spec => []EndMeansEverything
<1>1. DInv => EndMeansEverything
  <2> SUFFICES ASSUME DInv, got.e = "EOF", ~torn, ~st.grows
               PROVE  out = audioFrom(from)
    BY DEF EndMeansEverything, DecodeInterleavedBytes
  <2> DEFINE n == next - from
  <2>1. DTypeOK /\ PlaceInv /\ out \o staged = Audio(from, n) /\ staged = << >>
        /\ n \div unitIn = audible \div unitIn
    BY DEF DInv, ReaderInv, OrderInv, EndInv
  <2>2. from \in Nat /\ out \in Seq(Byte)
    BY <2>1 DEF DTypeOK
  <2>3. audible \in Nat /\ audioFrom(from) = Audio(from, audible)
    BY <2>1, AudioFromIs
  <2>4. n \in Nat
    BY <2>1, PassedIsAudible
  <2> HIDE DEF n
  <2>5. Audio(from, n) = Audio(from, audible)
    BY <2>1, <2>2, <2>3, <2>4, AudioSame
  <2>6. out \o staged = out
    BY <2>1, <2>2, ConcatEmptySeq
  <2> QED  BY <2>1, <2>3, <2>5, <2>6
<1> QED  BY <1>1, DecoderInvariant, PTL

(* Theorem: a successful SeekToFrame reports the frame it is on, the one   *)
(* asked for or the last whole one of a trusted length, and its offset     *)
(* fits in 64 bits (decoder.go:709-720, 746).                              *)
THEOREM SeeksLandWhereTheySay == Spec => []SeekLandsWhereItSays
<1>1. DInv => SeekLandsWhereItSays
  BY DEF DInv
<1> QED  BY <1>1, DecoderInvariant, PTL

(* Theorem: after a refused Reset nothing of the stream the decoder was    *)
(* bound to before is served (decoder.go:206-222).                         *)
THEOREM NothingServedWhenRefused == Spec => []RefusedServesNothing
<1>1. DInv => RefusedServesNothing
  BY DEF DInv, CallInv, RefusedServesNothing
<1> QED  BY <1>1, DecoderInvariant, PTL

(* Theorem: a one-shot decode always has room for what it read and never   *)
(* reserves more than its ceiling, whatever its header claims              *)
(* (decode_oneshot.go:104-120, 182-187).                                   *)
THEOREM OneShotWithinCeiling == Spec => []WithinCeiling
<1>1. DInv => WithinCeiling
  BY DEF DInv, CallInv, WithinCeiling
<1> QED  BY <1>1, DecoderInvariant, PTL

(* A Read that finds the stream over and nothing staged hands over         *)
(* nothing.                                                                *)
LEMMA OverIsOver ==
    ASSUME DInv, got.e = "EOF", NEW len \in Nat, len > 0, readInto(len),
           st' = st, end' = end, from' = from
    PROVE  out' = out
<1>1. remaining = 0 /\ staged = << >> /\ out \in Seq(Byte)
  BY DEF DInv, DTypeOK, ReaderInv, EndInv
<1>2. out' = out \o got'.bytes /\ got'.bytes = << >>
  BY <1>1, ReadKeeps DEF DInv
<1> QED  BY <1>1, <1>2, ConcatEmptySeq

(* Theorem: once Read has reported the end it hands over nothing more      *)
(* until the next Reset or SeekToFrame, though the source has grown or its *)
(* buffer holds a trailer (decoder.go:471-473, 545-547, 574-577).          *)
THEOREM TheEndIsFinal == Spec => EndIsFinal
<1>1. DInv /\ [Next]_vars => [got.e = "EOF" => out' \in {out, << >>}]_vars
  <2> SUFFICES ASSUME DInv, Next, got.e = "EOF"
               PROVE  out' \in {out, << >>}
    OBVIOUS
  <2>1. ASSUME UNCHANGED reading PROVE out' = out
    BY <2>1 DEF reading
  <2>2. CASE Read
    <3>1. CASE UNCHANGED reading
      BY <2>1, <3>1
    <3>2. CASE \E len \in BufLens : len # 0 /\ readInto(len) /\ UNCHANGED <<bound, end>>
      <4>1. PICK len \in BufLens : len # 0 /\ readInto(len) /\ UNCHANGED <<bound, end>>
        BY <3>2
      <4>2. len \in Nat /\ len > 0
        BY <4>1, DecoderAssumption
      <4> QED  BY <4>1, <4>2, OverIsOver DEF bound
    <3> QED  BY <2>2, <3>1, <3>2 DEF Read
  <2>3. CASE WriteToRead
    <3> DEFINE len == writeToBufferSize - Len(call.filled)
    <3>1. /\ call.op = "WriteTo" /\ ~mustFlush /\ readInto(len)
          /\ UNCHANGED <<bound, end>>
      BY <2>3 DEF WriteToRead, InWriteTo
    <3>2. call \in WriteToCall
      <4>1. call \notin ReadAllCall
        BY <3>1 DEF ReadAllCall
      <4> QED  BY <3>1, <4>1, InCall
    <3>3. len \in Nat /\ len > 0
      <4>1. call.filled \in Seq(Byte)
        BY <3>2 DEF WriteToCall
      <4>2. Len(call.filled) \in Nat /\ writeToBufferSize \in Nat
        BY <4>1, LenProperties, DecoderAssumption
      <4>3. Len(call.filled) <= writeToBufferSize /\ Len(call.filled) # writeToBufferSize
        BY <3>1 DEF DInv, CallInv, mustFlush
      <4> QED  BY <4>2, <4>3
    <3> HIDE DEF len
    <3> QED  BY <3>1, <3>3, OverIsOver DEF bound
  <2>4. CASE readAllLimit
    <3> DEFINE room == IF Len(call.filled) = call.cap THEN 1 ELSE call.cap - Len(call.filled)
    <3>1. readInto(room) /\ UNCHANGED <<bound, end>>
      BY <2>4 DEF readAllLimit
    <3>2. room \in Nat /\ room > 0
      BY <2>4, TurnReads
    <3> HIDE DEF room
    <3> QED  BY <3>1, <3>2, OverIsOver DEF bound
  <2>5. CASE Reset \/ DecodeInterleavedLimit
    <3>1. \E s \in Streams : Bind(s)
      BY <2>5 DEF Reset, DecodeInterleavedLimit
    <3> QED  BY <3>1 DEF Bind
  <2>6. CASE SeekToFrame
    <3>1. \E frame \in SeekFrames : SeekRefused(frame) \/ SeekTo(frame) \/ SeekFails
      BY <2>6 DEF SeekToFrame
    <3> QED  BY <3>1 DEF SeekRefused, SeekTo, SeekFails, reading
  <2>7. CASE WriteTo \/ WriteToFlush \/ Grow
    BY <2>1, <2>7 DEF WriteTo, WriteToFlush, Grow
  <2> QED  BY <2>2, <2>3, <2>4, <2>5, <2>6, <2>7 DEF Next
<1> QED  BY <1>1, DecoderInvariant, PTL DEF Spec, EndIsFinal

(* The bytes of a prefix come first.                                       *)
LEMMA PrefixGrows ==
    ASSUME NEW a \in Seq(Byte), NEW b \in Seq(Byte), NEW k \in 0 .. Len(b)
    PROVE  IsPrefix(a \o SubSeq(b, 1, k), a \o b)
<1> DEFINE t == SubSeq(b, 1, k)
           u == SubSeq(b, k + 1, Len(b))
           c == a \o b
           v == t \o u
<1>1. Len(b) \in Nat /\ k \in Nat /\ k <= Len(b)
  BY LenProperties
<1>2. u \in Seq(Byte) /\ Len(u) = Len(b) - k /\ \A i \in 1 .. Len(b) - k : u[i] = b[k + i]
  BY <1>1, TailIs
<1>3. \A i \in 1 .. k : b[i] \in Byte
  <2>1. \A i \in 1 .. k : i \in 1 .. Len(b)
    BY <1>1
  <2> QED  BY <2>1, ElementOfSeq
<1>4. t \in Seq(Byte) /\ Len(t) = k /\ \A i \in 1 .. k : t[i] = b[i]
  BY <1>1, <1>3, SubSeqProperties
<1> HIDE DEF t, u
<1>5. /\ v \in Seq(Byte) /\ Len(v) = Len(t) + Len(u)
      /\ \A i \in 1 .. Len(t) + Len(u) : v[i] = IF i <= Len(t) THEN t[i] ELSE u[i - Len(t)]
  BY <1>2, <1>4, ConcatProperties
<1> HIDE DEF v
<1>6. v = b
  <2>1. Len(v) = Len(b) /\ Len(t) + Len(u) = Len(b)
    BY <1>1, <1>2, <1>4, <1>5
  <2>2. ASSUME NEW i \in 1 .. Len(b) PROVE v[i] = b[i]
    <3>1. CASE i <= k
      BY <1>1, <1>4, <1>5, <2>1, <3>1
    <3>2. CASE ~(i <= k)
      <4>1. i - k \in 1 .. Len(b) - k /\ k + (i - k) = i
        BY <1>1, <3>2
      <4>2. v[i] = u[i - k]
        BY <1>4, <1>5, <2>1, <3>2
      <4>3. u[i - k] = b[k + (i - k)]
        BY <1>2, <4>1
      <4> QED  BY <4>1, <4>2, <4>3
    <3> QED  BY <3>1, <3>2
  <2> QED  BY <1>5, <2>1, <2>2, SeqEqual
<1>7. (a \o t) \o u = a \o (t \o u)
  BY <1>2, <1>4, ConcatAssociative
<1>8. a \o t \in Seq(Byte) /\ c \in Seq(Byte)
  BY <1>4, ConcatProperties
<1>9. (a \o t) \o u = c
  BY <1>6, <1>7 DEF v
<1> HIDE DEF c
<1>10. IsPrefix((a \o t) \o u, c)
  <2>1. SubSeq(c, 1, Len(c)) = c /\ Len(c) \in Nat
    BY <1>8, SubSeqFull, LenProperties
  <2> QED  BY <1>9, <2>1 DEF IsPrefix
<1> DEFINE x == a \o t
<1>11. x \in Seq(Byte) /\ IsPrefix(x \o u, c)
  BY <1>8, <1>10
<1> HIDE DEF x
<1>12. IsPrefix(x, c)
  BY <1>2, <1>8, <1>11, PrefixOfConcat
<1> QED  BY <1>12 DEF x, t, c

(* Theorem: before WriteTo reports the end or an error of the source the   *)
(* sink has exactly what its Reads produced, in order; and only when the   *)
(* sink fails may it have less (decoder.go:619-650).                       *)
THEOREM WriteToIsLossless == Spec => WriteToLosesNothing
<1> DEFINE produced == SubSeq(out, call.start + 1, Len(out))
           Flawless == /\ IsPrefix(ret'.sunk, produced)
                       /\ ret'.n = Len(ret'.sunk)
                       /\ ret'.e # "sink" => ret'.sunk = produced
<1>1. DInv /\ [Next]_vars => [InWriteTo /\ call' = Idle => Flawless]_vars
  <2> SUFFICES ASSUME DInv, Next, InWriteTo, call' = Idle
               PROVE  Flawless
    OBVIOUS
  <2>1. call.op = "WriteTo" /\ call # Idle /\ call # call'
    BY DEF InWriteTo, Idle
  <2>2. ASSUME NEW r, NEW t, r = [call EXCEPT !.filled = t, !.rerr = got'.e]
        PROVE  r # Idle
    <3>1. call \in WriteToCall
      <4>1. call \notin ReadAllCall
        BY <2>1 DEF ReadAllCall
      <4> QED  BY <2>1, <4>1, InCall
    <3>2. r.op = "WriteTo"
      BY <2>2, <3>1 DEF WriteToCall
    <3> QED  BY <3>2 DEF Idle
  <2>3. ~WriteToRead
    <3> SUFFICES ASSUME WriteToRead PROVE FALSE
      OBVIOUS
    <3>1. call' = [call EXCEPT !.filled = @ \o got'.bytes, !.rerr = got'.e]
      BY DEF WriteToRead
    <3> QED  BY <2>2, <3>1
  <2>4. WriteToFlush
    BY <2>1, <2>3 DEF Next, Reset, Read, SeekToFrame, WriteTo, DecodeInterleavedLimit,
                      readAllLimit, Grow
  <2>5. PICK r \in sinkTakes :
           LET sunk == call.sunk \o SubSeq(call.filled, 1, r.k)
               werr == r.failed \/ r.k < Len(call.filled)
           IN IF werr \/ call.rerr # "nil"
              THEN /\ call' = Idle
                   /\ ret' = [op |-> "WriteTo", n |-> Len(sunk), sunk |-> sunk,
                              start |-> call.start,
                              e |-> IF werr THEN "sink"
                                    ELSE IF call.rerr = "EOF" THEN "nil" ELSE call.rerr]
              ELSE call' = [call EXCEPT !.filled = << >>, !.sunk = sunk] /\ UNCHANGED ret
    BY <2>4 DEF WriteToFlush
  <2>6. /\ call \in WriteToCall
        /\ call.sunk \in Seq(Byte) /\ call.filled \in Seq(Byte)
        /\ r.k \in 0 .. Len(call.filled)
        /\ ~(r.k < Len(call.filled)) => SubSeq(call.filled, 1, r.k) = call.filled
    BY Flushed
  <2> DEFINE sunk == call.sunk \o SubSeq(call.filled, 1, r.k)
             werr == r.failed \/ r.k < Len(call.filled)
  <2>7. werr \/ call.rerr # "nil"
    <3> SUFFICES ASSUME ~(werr \/ call.rerr # "nil") PROVE FALSE
      OBVIOUS
    <3>1. call' = [call EXCEPT !.filled = << >>, !.sunk = sunk]
      BY <2>5
    <3>2. call'.op = "WriteTo"
      BY <2>6, <3>1 DEF WriteToCall
    <3> QED  BY <3>2 DEF Idle
  <2>8. ret' = [op |-> "WriteTo", n |-> Len(sunk), sunk |-> sunk, start |-> call.start,
                e |-> IF werr THEN "sink"
                      ELSE IF call.rerr = "EOF" THEN "nil" ELSE call.rerr]
    BY <2>5, <2>7
  <2>9. produced = call.sunk \o call.filled
    BY <2>1 DEF DInv, CallInv
  <2> DEFINE a == call.sunk
             b == call.filled
             k == r.k
  <2>10. a \in Seq(Byte) /\ b \in Seq(Byte) /\ k \in 0 .. Len(b)
    BY <2>6
  <2> HIDE DEF a, b, k
  <2>11. IsPrefix(a \o SubSeq(b, 1, k), a \o b)
    BY <2>10, PrefixGrows
  <2>12. IsPrefix(sunk, produced)
    BY <2>9, <2>11 DEF a, b, k
  <2>13. ~werr => sunk = produced
    BY <2>6, <2>9
  <2> HIDE DEF sunk, werr, produced
  <2>14. ret'.sunk = sunk /\ ret'.n = Len(sunk) /\ (werr => ret'.e = "sink")
    BY <2>8
  <2> QED  BY <2>12, <2>13, <2>14
<1> QED  BY <1>1, DecoderInvariant, PTL DEF Spec, WriteToLosesNothing

(* No more than what DecodeInterleavedBytes gives has been handed over     *)
(* since the beginning.                                                    *)
LEMMA NoMoreThanWhole ==
    ASSUME DInv, readAllLimit
    PROVE  Len(out') <= Len(DecodeInterleavedBytes)
<1>1. DTypeOK /\ from = 0 /\ st \in StreamType /\ unitIn \in Nat /\ unitIn > 0
      /\ unitOut \in Nat /\ unitOut > 0
  <2>1. DTypeOK /\ from = 0 /\ st \in StreamType
    BY TurnReads DEF DInv, DTypeOK
  <2> QED  BY <2>1, UnitType
<1>2. audible \in Nat /\ DecodeInterleavedBytes = Audio(0, audible)
  BY <1>1, AudioFromIs DEF DecodeInterleavedBytes
<1>3. Len(DecodeInterleavedBytes) = (audible \div unitIn) * unitOut
  <2>1. Len(Audio(0, audible)) = Produced(audible, unitIn, unitOut)
    BY <1>1, <1>2, AudioType
  <2> QED  BY <1>2, <2>1 DEF Produced
<1>4. /\ ReaderInv' /\ st' = st /\ end' = end /\ from' = from /\ next' \in Nat
      /\ buffered' \in Nat /\ out' \in Seq(Byte) /\ staged' \in Seq(Byte) /\ Len(out') \in Nat
  <2>1. Len(call.filled) \in Nat /\ Len(got'.bytes) \in Nat
        /\ Len(out') = Len(call.filled) + Len(got'.bytes)
    BY TurnReads
  <2>2. Len(out') \in Nat
    <3> DEFINE x == Len(call.filled)
               y == Len(got'.bytes)
               z == Len(out')
    <3>1. x \in Nat /\ y \in Nat /\ z = x + y
      BY <2>1
    <3> HIDE DEF x, y, z
    <3>2. z \in Nat
      BY <3>1
    <3> QED  BY <3>2 DEF z
  <2> QED  BY <2>2, TurnReads
<1>5. unitIn' = unitIn /\ unitOut' = unitOut /\ lengthKnown' = lengthKnown
  BY <1>4, SameStream
<1> DEFINE a == next'
           k == buffered'
           b == audible
           x == Len(out')
           y == Len(staged')
           stop == IF lengthKnown THEN Min2(end, st.declared) ELSE end
           w == unitIn
           d == unitOut
<1>6. a \in Nat /\ k \in Nat /\ b \in Nat /\ x \in Nat /\ y \in Nat
      /\ w \in Nat /\ w > 0 /\ d \in Nat /\ d > 0
      /\ end \in Nat /\ st.declared \in Int
  <2>1. y \in Nat
    BY <1>4, LenProperties
  <2> QED  BY <1>1, <1>2, <1>4, <2>1 DEF DTypeOK, StreamType
<1>7. a > 0 => a + k <= end
  BY <1>1, <1>4 DEF ReaderInv, PlaceInv
<1>8. lengthKnown => a <= st.declared
  BY <1>4, <1>5 DEF ReaderInv, PlaceInv
<1>9. b = Max2(stop - 0, 0)
  BY <1>1 DEF audible
<1>10. x + y <= ((a - 0) \div w) * d
  BY <1>1, <1>4, <1>5 DEF ReaderInv, CountInv
<1> HIDE DEF a, k, b, x, y, w, d
<1>11. a <= b
  <2>1. stop \in Int /\ (a > 0 => a <= stop)
    BY <1>6, <1>7, <1>8 DEF Min2
  <2> HIDE DEF stop
  <2> QED  BY <1>6, <1>9, <2>1 DEF Max2
<1>12. a \div w \in Nat /\ b \div w \in Nat /\ a \div w <= b \div w
  BY <1>6, <1>11, DivMod, DivMono
<1> DEFINE p == a \div w
           q == b \div w
<1>13. x + y <= p * d /\ p \in Nat /\ q \in Nat /\ p <= q
  <2>1. a - 0 = a
    BY <1>6
  <2> QED  BY <1>10, <1>12, <2>1
<1> HIDE DEF p, q
<1>14. p * d <= q * d /\ p * d \in Nat /\ q * d \in Nat
  BY <1>6, <1>13
<1>15. x <= q * d
  BY <1>6, <1>13, <1>14
<1> QED  BY <1>3, <1>15 DEF x, q, b, w, d

(* Theorem: the ceiling of a one-shot decode is exact.  What is returned   *)
(* is within it and is everything that was read, and a refusal means that  *)
(* the stream has more (decode_oneshot.go:148-175).                        *)
THEOREM CeilingIsExact == Spec => LimitIsExact
<1> DEFINE Exact ==
      /\ ret'.e = "nil" => /\ ret'.n <= ret'.limit
                           /\ ret'.n = Len(out')
      /\ ret'.e = "limit" => Len(DecodeInterleavedBytes) > ret'.limit
<1>1. DInv /\ [Next]_vars => [call.op = "readAll" /\ call' = Idle => Exact]_vars
  <2> SUFFICES ASSUME DInv, Next, call.op = "readAll", call' = Idle
               PROVE  Exact
    OBVIOUS
  <2>1. call # Idle /\ call # call' /\ ~InWriteTo
    BY DEF InWriteTo, Idle
  <2>2. readAllLimit
    BY <2>1 DEF Next, Reset, Read, SeekToFrame, WriteTo, DecodeInterleavedLimit,
                WriteToRead, WriteToFlush, Grow
  <2>3. Len(out') <= Len(DecodeInterleavedBytes)
    BY <2>2, NoMoreThanWhole
  <2>4. call.limit \in Nat /\ Len(out') \in Nat /\ Len(DecodeInterleavedBytes) \in Nat
    <3>1. DTypeOK /\ from = 0 /\ st \in StreamType
      BY <2>2, TurnReads DEF DInv, DTypeOK
    <3>2. audible \in Nat /\ DecodeInterleavedBytes = Audio(0, audible)
      BY <3>1, AudioFromIs DEF DecodeInterleavedBytes
    <3>3. DecodeInterleavedBytes \in Seq(Byte)
      BY <3>1, <3>2, AudioType
    <3>4. out' \in Seq(Byte) /\ call.limit \in Nat
      BY <2>2, TurnReads
    <3> QED  BY <3>3, <3>4, LenProperties
  <2>5. ASSUME NEW c,
               call' = [op |-> "readAll", filled |-> out', limit |-> call.limit, cap |-> c]
        PROVE  FALSE
    <3>1. call'.op = "readAll"
      BY <2>5
    <3> QED  BY <3>1 DEF Idle
  <2>6. CASE TurnEnds("limit") /\ Len(out') > call.limit
    <3>1. ret'.e = "limit" /\ ret'.limit = call.limit
      BY <2>6 DEF TurnEnds
    <3>2. Len(DecodeInterleavedBytes) > call.limit
      <4> DEFINE x == Len(out')
                 y == Len(DecodeInterleavedBytes)
                 z == call.limit
      <4>1. x \in Nat /\ y \in Nat /\ z \in Nat /\ x > z /\ x <= y
        BY <2>3, <2>4, <2>6
      <4> HIDE DEF x, y, z
      <4>2. y > z
        BY <4>1
      <4> QED  BY <4>2 DEF y, z
    <3> QED  BY <3>1, <3>2
  <2>7. CASE \E e \in {"nil", "err"} : TurnEnds(e) /\ Len(out') <= call.limit
    <3>1. ret'.e # "limit" /\ ret'.limit = call.limit /\ ret'.n = Len(out')
      BY <2>7 DEF TurnEnds
    <3> QED  BY <2>7, <3>1
  <2> QED  BY <2>2, <2>5, <2>6, <2>7, TurnGoes
<1> QED  BY <1>1, DecoderInvariant, PTL DEF Spec, LimitIsExact
=============================================================================
