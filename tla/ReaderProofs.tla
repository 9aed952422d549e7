---------------------------- MODULE ReaderProofs ----------------------------
(***************************************************************************)
(* What ParseHeader makes of every file, whatever its chunks, their sizes  *)
(* and pads, and the byte at which its source ends or fails.               *)
(***************************************************************************)
EXTENDS HeaderReader, RiffLayoutProofs, WellFoundedInduction

-----------------------------------------------------------------------------
(* The inductive invariant.                                                *)

total == Len(file.chunks)

(* The chunks in front of chunk k of which at least n bytes are held.      *)
With(id, n, k) == {j \in 1 .. k - 1 : chunk(j).id = id /\ heldLen(chunk(j)) >= n}

IsLast(j, S) == j \in S /\ \A i \in S : i <= j
IsFirst(j, S) == j \in S /\ \A i \in S : j <= i

FmtTold(s, k) ==
    IF s.haveFmt
    THEN \E j \in 1 .. k - 1 : IsLast(j, With("fmt", 0, k)) /\ s.fmt = parseFmt(chunk(j).body)
    ELSE With("fmt", 0, k) = {}

DS64Told(s, k) ==
    IF s.haveDS64
    THEN \E j \in 1 .. k - 1 : IsLast(j, With("ds64", 0, k)) /\ s.ds64 = chunk(j).body
    ELSE With("ds64", 0, k) = {} /\ s.ds64 = NothingSeen.ds64

FactTold(s, k) ==
    \/ \E j \in 1 .. k - 1 : /\ IsLast(j, With("fact", factPayloadSize, k))
                             /\ s.factFrames = chunk(j).body.frames
    \/ With("fact", factPayloadSize, k) = {} /\ s.factFrames = 0

MetaTold(id, have, held, k) ==
    IF have
    THEN \E j \in 1 .. k - 1 : IsFirst(j, With(id, 0, k)) /\ held = Held(chunk(j))
    ELSE With(id, 0, k) = {} /\ held = NoBody

(* Nothing in front of chunk k is audio or beyond reading.                 *)
SoundTo(k) ==
    \A j \in 1 .. k - 1 :
        /\ chunk(j).id # "data"
        /\ chunk(j).id = "fmt" => fmtVerdict(chunk(j).body, heldLen(chunk(j))) = "ok"
        /\ chunk(j).id = "ds64" => heldLen(chunk(j)) >= 28

(* The locals s of ParseHeader are what the chunks in front of chunk k say. *)
SeenTo(s, k) ==
    /\ SoundTo(k)
    /\ FmtTold(s, k) /\ DS64Told(s, k) /\ FactTold(s, k)
    /\ MetaTold("bext", s.haveBext, s.bext, k)
    /\ MetaTold("iXML", s.haveIXML, s.ixml, k)

(* The source ended in front of the audio, if there is any.                *)
EndsEarly == /\ source.why = "eof"
             /\ \A d \in 1 .. total : chunk(d).id = "data" => source.at < file.at[d] + ChunkHeaderSize

(* The walk ran into that end.                                             *)
Lost == EndsEarly /\ Short(ChunkHeaderSize)

bodyAt(k) == file.at[k] + ChunkHeaderSize

(* Where the walk is, as long as skipPad dropped no error.                 *)
WalkInv ==
    ~swallowed =>
        /\ pc = "fileHeader" => pos = 0 /\ seen = NothingSeen
        /\ pc = "header" => \/ \E k \in 1 .. total + 1 : pos = file.at[k] /\ SeenTo(seen, k)
                            \/ Lost
        /\ pc = "body" => \E k \in 1 .. total : pos = bodyAt(k) /\ cur = chunk(k) /\ SeenTo(seen, k)
        /\ pc = "pad" => \/ \E k \in 1 .. total :
                               pos = bodyAt(k) + chunk(k).size /\ cur = chunk(k) /\ SeenTo(seen, k + 1)
                         \/ Lost
        /\ verdict = "ok" => \E k \in 1 .. total :
                               /\ pos = bodyAt(k) /\ cur = chunk(k) /\ SeenTo(seen, k)
                               /\ chunk(k).id = "data"
                               /\ seen.dataSize =
                                     resolveDataSize(headOf(seen, file.magic, cur.size))
        /\ verdict \in {"corrupt", "unsupported", "notRIFF"} => Damaged \/ EndsEarly

(* The values ParseHeader holds.                                           *)
SeenOK ==
    /\ seen = [fmt |-> seen.fmt, haveFmt |-> seen.haveFmt, ds64 |-> seen.ds64,
               haveDS64 |-> seen.haveDS64, factFrames |-> seen.factFrames,
               dataSize |-> seen.dataSize, haveData |-> seen.haveData,
               bext |-> seen.bext, haveBext |-> seen.haveBext,
               ixml |-> seen.ixml, haveIXML |-> seen.haveIXML]
    /\ {seen.haveFmt, seen.haveDS64, seen.haveData, seen.haveBext, seen.haveIXML} \subseteq BOOLEAN
    /\ seen.haveFmt => seen.fmt.rate \in Nat \ {0} /\ seen.fmt.blockAlign \in Nat
    /\ seen.ds64.dataSize \in Nat /\ seen.ds64.sampleCount \in Nat /\ seen.factFrames \in Nat

Magics == {"RIFF", "RF64", "BW64"}

RTypeOK ==
    /\ file \in Files
    /\ source \in [at : 0 .. length(file), why : {"eof", "error"}, once : BOOLEAN]
    /\ source.once => source.why = "error"
    /\ pos \in Nat
    /\ pc \in {"fileHeader", "header", "body", "pad", "done"}
    /\ Wellformed(cur)
    /\ SeenOK
    /\ verdict \in {"none", "ok", "corrupt", "unsupported", "notRIFF", "ioerror"}
    /\ swallowed \in BOOLEAN

(* The verdict against what was read.                                      *)
VerdictInv ==
    /\ verdict = "none" <=> pc # "done"
    /\ pc # "done" => ~seen.haveData
    /\ pc = "fileHeader" => ~swallowed
    /\ verdict = "ok" => /\ seen.haveFmt /\ cur.id = "data"
                         /\ Sized64(file.magic) => seen.haveDS64
    /\ pc \in {"header", "body", "pad"} \/ verdict \in {"ok", "corrupt", "unsupported"} =>
          file.magic \in Magics /\ source.at >= FileHeaderSize
    /\ verdict = "notRIFF" => file.magic \notin Magics \/ source.at < FileHeaderSize

RInv == RTypeOK /\ VerdictInv /\ WalkInv

-----------------------------------------------------------------------------
(* The file.                                                               *)

(* Chunks follow each other: the next one is behind the payload, or behind *)
(* one pad byte that follows an odd payload.                               *)
LEMMA Layout ==
    ASSUME file \in Files
    PROVE  /\ total \in Nat
           /\ length(file) = file.at[total + 1] /\ file.at[1] = FileHeaderSize
           /\ \A k \in 1 .. total + 1 : file.at[k] \in Nat /\ file.at[k] >= FileHeaderSize
                                        /\ file.at[k] <= length(file)
           /\ \A j, k \in 1 .. total + 1 : j < k => file.at[j] < file.at[k]
           /\ \A k \in 1 .. total :
                 /\ Wellformed(chunk(k)) /\ chunk(k).size \in Nat
                 /\ file.at[k + 1] = bodyAt(k) + chunk(k).size
                       + IF chunk(k).size % 2 = 1 /\ chunk(k).pad THEN 1 ELSE 0
<1>1. Contiguous(file) /\ \A k \in 1 .. total : Wellformed(chunk(k))
  BY ReaderAssumption DEF total, chunk
<1>2. /\ total \in Nat /\ length(file) = file.at[total + 1] /\ file.at[1] = FileHeaderSize
      /\ \A k \in 1 .. total + 1 : file.at[k] \in Nat
      /\ \A j, k \in 1 .. total + 1 : j < k => file.at[j] < file.at[k]
  BY <1>1 DEF Contiguous, total, length
<1>3. ASSUME NEW k \in 1 .. total + 1
      PROVE  file.at[k] >= FileHeaderSize /\ file.at[k] <= length(file)
  <2>1. 1 \in 1 .. total + 1 /\ total + 1 \in 1 .. total + 1
    BY <1>2
  <2>2. k = 1 \/ 1 < k
    OBVIOUS
  <2>3. k = total + 1 \/ k < total + 1
    BY <1>2
  <2> QED  BY <1>2, <2>1, <2>2, <2>3
<1>4. ASSUME NEW k \in 1 .. total
      PROVE  /\ Wellformed(chunk(k)) /\ chunk(k).size \in Nat
             /\ file.at[k + 1] = bodyAt(k) + chunk(k).size
                   + IF chunk(k).size % 2 = 1 /\ chunk(k).pad THEN 1 ELSE 0
  <2>1. Wellformed(chunk(k)) /\ chunk(k).size \in Nat
    BY <1>1 DEF Wellformed
  <2>2. file.at[k + 1] = file.at[k] + extent(chunk(k))
    BY <1>1 DEF Contiguous, total, chunk
  <2>3. file.at[k] \in Nat
    BY <1>2
  <2> QED  BY <2>1, <2>2, <2>3 DEF extent, bodyAt, ChunkHeaderSize
<1> QED  BY <1>2, <1>3, <1>4

(* A set of numbers that is not empty has a least element.                 *)
LEMMA Least ==
    ASSUME NEW S, S \subseteq Nat, S # {}
    PROVE  Min(S) \in S /\ \A y \in S : Min(S) <= y
<1>1. \E x \in S : \A y \in S : ~(<<y, x>> \in OpToRel(<, Nat))
  BY NatLessThanWellFounded, WFMin
<1>2. PICK x \in S : \A y \in S : ~(<<y, x>> \in OpToRel(<, Nat))
  BY <1>1
<1>3. ASSUME NEW y \in S PROVE x <= y
  <2>1. x \in Nat /\ y \in Nat
    OBVIOUS
  <2>2. ~(y < x)
    BY <1>2, <2>1 DEF OpToRel
  <2> QED  BY <2>1, <2>2
<1> QED  BY <1>3 DEF Min

LEMMA MinIs ==
    ASSUME NEW S, S \subseteq Nat, NEW x, IsFirst(x, S)
    PROVE  Min(S) = x
<1>1. Min(S) \in S /\ \A y \in S : Min(S) <= y
  BY Least DEF IsFirst
<1>2. x \in S /\ x <= Min(S) /\ Min(S) <= x
  BY <1>1 DEF IsFirst
<1>3. x \in Nat /\ Min(S) \in Nat
  BY <1>1, <1>2
<1> QED  BY <1>2, <1>3

LEMMA MaxIs ==
    ASSUME NEW S, S \subseteq Nat, NEW x, IsLast(x, S)
    PROVE  Max(S) = x
<1>1. x \in S /\ \A y \in S : x >= y
  BY DEF IsLast
<1>2. Max(S) \in S /\ \A y \in S : Max(S) >= y
  BY <1>1 DEF Max
<1>3. x \in Nat /\ Max(S) \in Nat /\ x >= Max(S) /\ Max(S) >= x
  BY <1>1, <1>2
<1> QED  BY <1>3

(* One chunk more.                                                         *)
LEMMA WithNext ==
    ASSUME NEW id, NEW n, NEW k \in Nat, k > 0
    PROVE  /\ chunk(k).id = id /\ heldLen(chunk(k)) >= n =>
                 /\ IsLast(k, With(id, n, k + 1))
                 /\ With(id, n, k) = {} => IsFirst(k, With(id, n, k + 1))
           /\ ~(chunk(k).id = id /\ heldLen(chunk(k)) >= n) => With(id, n, k + 1) = With(id, n, k)
           /\ \A j : IsFirst(j, With(id, n, k)) => IsFirst(j, With(id, n, k + 1))
<1>1. 1 .. (k + 1) - 1 = (1 .. k - 1) \cup {k}
  OBVIOUS
<1>2. \A j : j \in With(id, n, k + 1) <=>
            j \in With(id, n, k) \/ (j = k /\ chunk(k).id = id /\ heldLen(chunk(k)) >= n)
  BY <1>1 DEF With
<1>3. \A j \in With(id, n, k) : j \in Nat /\ j < k
  BY DEF With
<1>4. ASSUME chunk(k).id = id /\ heldLen(chunk(k)) >= n
      PROVE  /\ IsLast(k, With(id, n, k + 1))
             /\ With(id, n, k) = {} => IsFirst(k, With(id, n, k + 1))
  <2>1. k \in With(id, n, k + 1)
    BY <1>2, <1>4
  <2>2. \A j \in With(id, n, k + 1) : j \in With(id, n, k) \/ j = k
    BY <1>2
  <2>3. \A j \in With(id, n, k + 1) : j <= k
    BY <1>3, <2>2
  <2>4. With(id, n, k) = {} => \A j \in With(id, n, k + 1) : k <= j
    BY <2>2
  <2> QED  BY <2>1, <2>3, <2>4 DEF IsLast, IsFirst
<1>5. ~(chunk(k).id = id /\ heldLen(chunk(k)) >= n) => With(id, n, k + 1) = With(id, n, k)
  BY <1>2
<1>6. ASSUME NEW j, IsFirst(j, With(id, n, k))
      PROVE  IsFirst(j, With(id, n, k + 1))
  <2>1. j \in With(id, n, k) /\ \A i \in With(id, n, k) : j <= i
    BY <1>6 DEF IsFirst
  <2>2. j \in Nat /\ j < k
    BY <2>1 DEF With
  <2>3. \A i \in With(id, n, k + 1) : j <= i
    BY <1>2, <2>1, <2>2
  <2> QED  BY <1>2, <2>1, <2>3 DEF IsFirst
<1> QED  BY <1>4, <1>5, <1>6

(* The first data chunk, when nothing in front of chunk k is one.          *)
LEMMA FirstDataBounds ==
    ASSUME file \in Files
    PROVE  /\ FirstData \in 1 .. total + 1
           /\ HasData => chunk(FirstData).id = "data"
           /\ \A k \in 1 .. total + 1 : SoundTo(k) => k <= FirstData
           /\ \A k \in 1 .. total : SoundTo(k) /\ chunk(k).id = "data" => FirstData = k
<1> DEFINE S == {k \in 1 .. total : file.chunks[k].id = "data"} \cup {total + 1}
<1>1. total \in Nat
  BY Layout
<1>2. S \subseteq Nat /\ S # {} /\ FirstData = Min(S)
  BY <1>1 DEF FirstData, total
<1> HIDE DEF S
<1>3. FirstData \in S /\ \A y \in S : FirstData <= y
  BY <1>2, Least
<1>4. FirstData \in 1 .. total + 1
  BY <1>1, <1>3 DEF S
<1>5. HasData => chunk(FirstData).id = "data"
  BY <1>1, <1>3 DEF S, HasData, total, chunk
<1>6. ASSUME NEW k \in 1 .. total + 1, SoundTo(k)
      PROVE  k <= FirstData
  <2> SUFFICES ASSUME FirstData < k PROVE FALSE
    BY <1>1, <1>4
  <2>1. FirstData \in 1 .. k - 1 /\ FirstData <= total
    BY <1>1, <1>4
  <2>2. chunk(FirstData).id = "data"
    BY <2>1, <1>5 DEF HasData, total
  <2> QED  BY <1>6, <2>1, <2>2 DEF SoundTo
<1>7. ASSUME NEW k \in 1 .. total, SoundTo(k), chunk(k).id = "data"
      PROVE  FirstData = k
  <2>1. k <= FirstData
    BY <1>1, <1>6, <1>7
  <2>2. FirstData <= k
    BY <1>3, <1>7 DEF S, chunk
  <2> QED  BY <1>1, <1>4, <2>1, <2>2
<1> QED  BY <1>4, <1>5, <1>6, <1>7

(* A source that ends in front of every data chunk ends in front of the    *)
(* first one.                                                              *)
LEMMA EarlyEnd ==
    ASSUME file \in Files, EndsEarly, ~Damaged
    PROVE  source.why = "eof" /\ source.at < AudioStart
<1>1. HasData /\ FirstData \in 1 .. total + 1
  BY FirstDataBounds DEF Damaged
<1>2. FirstData \in 1 .. total /\ chunk(FirstData).id = "data"
  BY <1>1, FirstDataBounds, Layout DEF HasData, total
<1> QED  BY <1>2 DEF EndsEarly, AudioStart

(* A source that ends where only chunk k could begin, all in front of it   *)
(* having been read, ends early.                                           *)
LEMMA EndsInFront ==
    ASSUME RTypeOK, source.why = "eof", NEW k \in 1 .. total + 1,
           \A j \in 1 .. k - 1 : chunk(j).id # "data",
           source.at < file.at[k] + ChunkHeaderSize
    PROVE  EndsEarly
<1> SUFFICES ASSUME NEW d \in 1 .. total, chunk(d).id = "data"
             PROVE  source.at < file.at[d] + ChunkHeaderSize
  BY DEF EndsEarly
<1>1. /\ total \in Nat /\ \A i \in 1 .. total + 1 : file.at[i] \in Nat
      /\ \A i, j \in 1 .. total + 1 : i < j => file.at[i] < file.at[j]
      /\ source.at \in Int
  BY Layout DEF RTypeOK
<1>2. ~(d < k)
  BY <1>1
<1>3. file.at[k] <= file.at[d]
  BY <1>1, <1>2
<1> QED  BY <1>1, <1>3 DEF ChunkHeaderSize

-----------------------------------------------------------------------------
(* What has been seen, one chunk on.  In each lemma t are the locals after *)
(* the body of chunk k, s those before it.                                 *)

LEMMA FmtNext ==
    ASSUME NEW s, NEW t, NEW k \in Nat, k > 0, FmtTold(s, k), heldLen(chunk(k)) >= 0,
           s.haveFmt \in BOOLEAN, t.haveFmt \in BOOLEAN,
           IF chunk(k).id = "fmt"
           THEN t.haveFmt /\ t.fmt = parseFmt(chunk(k).body)
           ELSE t.haveFmt = s.haveFmt /\ t.fmt = s.fmt
    PROVE  FmtTold(t, k + 1)
<1>1. CASE chunk(k).id = "fmt"
  <2>1. IsLast(k, With("fmt", 0, k + 1))
    BY <1>1, WithNext
  <2>2. k \in 1 .. (k + 1) - 1
    OBVIOUS
  <2> QED  BY <1>1, <2>1, <2>2 DEF FmtTold
<1>2. CASE chunk(k).id # "fmt"
  <2>1. With("fmt", 0, k + 1) = With("fmt", 0, k)
    BY <1>2, WithNext
  <2>2. 1 .. k - 1 \subseteq 1 .. (k + 1) - 1
    OBVIOUS
  <2> QED  BY <1>2, <2>1, <2>2 DEF FmtTold
<1> QED  BY <1>1, <1>2

LEMMA DS64Next ==
    ASSUME NEW s, NEW t, NEW k \in Nat, k > 0, DS64Told(s, k), heldLen(chunk(k)) >= 0,
           s.haveDS64 \in BOOLEAN, t.haveDS64 \in BOOLEAN,
           IF chunk(k).id = "ds64"
           THEN t.haveDS64 /\ t.ds64 = chunk(k).body
           ELSE t.haveDS64 = s.haveDS64 /\ t.ds64 = s.ds64
    PROVE  DS64Told(t, k + 1)
<1>1. CASE chunk(k).id = "ds64"
  <2>1. IsLast(k, With("ds64", 0, k + 1))
    BY <1>1, WithNext
  <2>2. k \in 1 .. (k + 1) - 1
    OBVIOUS
  <2> QED  BY <1>1, <2>1, <2>2 DEF DS64Told
<1>2. CASE chunk(k).id # "ds64"
  <2>1. With("ds64", 0, k + 1) = With("ds64", 0, k)
    BY <1>2, WithNext
  <2>2. 1 .. k - 1 \subseteq 1 .. (k + 1) - 1
    OBVIOUS
  <2> QED  BY <1>2, <2>1, <2>2 DEF DS64Told
<1> QED  BY <1>1, <1>2

LEMMA FactNext ==
    ASSUME NEW s, NEW t, NEW k \in Nat, k > 0, FactTold(s, k),
           t.factFrames = IF chunk(k).id = "fact" /\ heldLen(chunk(k)) >= factPayloadSize
                          THEN chunk(k).body.frames ELSE s.factFrames
    PROVE  FactTold(t, k + 1)
<1>1. CASE chunk(k).id = "fact" /\ heldLen(chunk(k)) >= factPayloadSize
  <2>1. IsLast(k, With("fact", factPayloadSize, k + 1))
    BY <1>1, WithNext
  <2>2. k \in 1 .. (k + 1) - 1
    OBVIOUS
  <2> QED  BY <1>1, <2>1, <2>2 DEF FactTold
<1>2. CASE ~(chunk(k).id = "fact" /\ heldLen(chunk(k)) >= factPayloadSize)
  <2>1. With("fact", factPayloadSize, k + 1) = With("fact", factPayloadSize, k)
    BY <1>2, WithNext
  <2>2. 1 .. k - 1 \subseteq 1 .. (k + 1) - 1
    OBVIOUS
  <2> QED  BY <1>2, <2>1, <2>2 DEF FactTold
<1> QED  BY <1>1, <1>2

LEMMA MetaNext ==
    ASSUME NEW id, NEW have \in BOOLEAN, NEW held, NEW have2 \in BOOLEAN, NEW held2,
           NEW k \in Nat, k > 0, MetaTold(id, have, held, k), heldLen(chunk(k)) >= 0,
           IF chunk(k).id = id /\ ~have
           THEN have2 /\ held2 = Held(chunk(k))
           ELSE have2 = have /\ held2 = held
    PROVE  MetaTold(id, have2, held2, k + 1)
<1>0. k \in 1 .. (k + 1) - 1 /\ 1 .. k - 1 \subseteq 1 .. (k + 1) - 1
  OBVIOUS
<1>1. CASE have
  <2>1. PICK j \in 1 .. k - 1 : IsFirst(j, With(id, 0, k)) /\ held = Held(chunk(j))
    BY <1>1 DEF MetaTold
  <2>2. IsFirst(j, With(id, 0, k + 1))
    BY <2>1, WithNext
  <2> QED  BY <1>0, <1>1, <2>1, <2>2 DEF MetaTold
<1>2. CASE ~have /\ chunk(k).id = id
  <2>1. IsFirst(k, With(id, 0, k + 1))
    BY <1>2, WithNext DEF MetaTold
  <2> QED  BY <1>0, <1>2, <2>1 DEF MetaTold
<1>3. CASE ~have /\ chunk(k).id # id
  <2>1. With(id, 0, k + 1) = With(id, 0, k)
    BY <1>3, WithNext
  <2> QED  BY <1>3, <2>1 DEF MetaTold
<1> QED  BY <1>1, <1>2, <1>3

LEMMA SoundNext ==
    ASSUME NEW k \in Nat, k > 0, SoundTo(k), chunk(k).id # "data",
           chunk(k).id = "fmt" => fmtVerdict(chunk(k).body, heldLen(chunk(k))) = "ok",
           chunk(k).id = "ds64" => heldLen(chunk(k)) >= 28
    PROVE  SoundTo(k + 1)
<1>1. 1 .. (k + 1) - 1 = (1 .. k - 1) \cup {k}
  OBVIOUS
<1> QED  BY <1>1 DEF SoundTo

(* The file does not change, and so neither does what it says.             *)
LEMMA SameFile ==
    ASSUME file' = file
    PROVE  /\ total' = total /\ \A k : chunk(k)' = chunk(k) /\ bodyAt(k)' = bodyAt(k)
           /\ \A k : SoundTo(k)' <=> SoundTo(k)
           /\ \A k : SeenTo(seen, k)' <=> SeenTo(seen', k)
           /\ Damaged' <=> Damaged
           /\ length(file)' = length(file)
<1>1. /\ total' = total /\ \A k : chunk(k)' = chunk(k) /\ bodyAt(k)' = bodyAt(k)
      /\ length(file)' = length(file)
  BY DEF total, chunk, bodyAt, length
<1>2. \A id, n, k : With(id, n, k)' = With(id, n, k)
  BY <1>1 DEF With
<1>3. \A k : SoundTo(k)' <=> SoundTo(k)
  BY <1>1 DEF SoundTo
<1>4. \A k : SeenTo(seen, k)' <=> SeenTo(seen', k)
  BY <1>1, <1>2, <1>3 DEF SeenTo, FmtTold, DS64Told, FactTold, MetaTold
<1>5. Damaged' <=> Damaged
  BY DEF Damaged, HasData, FirstData, Before, LongEnough, chunk
<1> QED  BY <1>1, <1>3, <1>4, <1>5

-----------------------------------------------------------------------------
(* The body of a chunk.                                                    *)

(* The locals t are s and what the whole of chunk c adds to them.          *)
Takes(c, s, t) ==
    /\ c.id # "data"
    /\ IF c.id = "fmt"
       THEN t.haveFmt /\ t.fmt = parseFmt(c.body) /\ fmtVerdict(c.body, heldLen(c)) = "ok"
       ELSE t.haveFmt = s.haveFmt /\ t.fmt = s.fmt
    /\ IF c.id = "ds64"
       THEN t.haveDS64 /\ t.ds64 = c.body /\ heldLen(c) >= 28
       ELSE t.haveDS64 = s.haveDS64 /\ t.ds64 = s.ds64
    /\ t.factFrames = IF c.id = "fact" /\ heldLen(c) >= factPayloadSize
                      THEN c.body.frames ELSE s.factFrames
    /\ IF c.id = "bext" /\ ~s.haveBext
       THEN t.haveBext /\ t.bext = Held(c)
       ELSE t.haveBext = s.haveBext /\ t.bext = s.bext
    /\ IF c.id = "iXML" /\ ~s.haveIXML
       THEN t.haveIXML /\ t.ixml = Held(c)
       ELSE t.haveIXML = s.haveIXML /\ t.ixml = s.ixml

LEMMA HeldBounds ==
    ASSUME NEW c, c.size \in Nat
    PROVE  heldLen(c) \in Nat /\ heldLen(c) >= 0
  BY DEF heldLen

Flags(s) == {s.haveFmt, s.haveDS64, s.haveBext, s.haveIXML} \subseteq BOOLEAN

LEMMA Taken ==
    ASSUME NEW s, NEW t, Flags(s), Flags(t), NEW k \in Nat, k > 0, chunk(k).size \in Nat,
           SeenTo(s, k), Takes(chunk(k), s, t)
    PROVE  SeenTo(t, k + 1)
<1>1. heldLen(chunk(k)) >= 0
  BY HeldBounds
<1>2. SoundTo(k + 1)
  BY SoundNext DEF SeenTo, Takes
<1>3. FmtTold(t, k + 1)
  BY <1>1, FmtNext DEF SeenTo, Takes, Flags
<1>4. DS64Told(t, k + 1)
  BY <1>1, DS64Next DEF SeenTo, Takes, Flags
<1>5. FactTold(t, k + 1)
  BY FactNext DEF SeenTo, Takes
<1>6. MetaTold("bext", t.haveBext, t.bext, k + 1)
  BY <1>1, MetaNext DEF SeenTo, Takes, Flags
<1>7. MetaTold("iXML", t.haveIXML, t.ixml, k + 1)
  BY <1>1, MetaNext DEF SeenTo, Takes, Flags
<1> QED  BY <1>2, <1>3, <1>4, <1>5, <1>6, <1>7 DEF SeenTo

(* Where the walk is after a body that was read to its end or to the end   *)
(* of the source.                                                          *)
LEMMA BodyWalks ==
    ASSUME RInv, pc = "body", cur.id # "data", Consume, SeenOK',
           file' = file, source' = source, cur' = cur, swallowed' = swallowed,
           verdict' = verdict, pc' = "pad", ~Short(cur.size) => Takes(cur, seen, seen')
    PROVE  WalkInv' /\ pos' \in Nat
<1>1. RTypeOK /\ VerdictInv /\ WalkInv /\ source.at \in Nat /\ pos \in Nat
      /\ cur.size \in Nat /\ verdict = "none"
  <2>1. RTypeOK /\ VerdictInv /\ WalkInv
    BY DEF RInv
  <2>2. file \in Files /\ source.at \in 0 .. length(file) /\ pos \in Nat /\ Wellformed(cur)
    BY <2>1 DEF RTypeOK
  <2> QED  BY <2>1, <2>2 DEF Wellformed, VerdictInv
<1>2. pos' = IF Short(cur.size) THEN pos + (source.at - pos) ELSE pos + cur.size
  BY DEF Consume, Got
<1>3. pos' \in Nat /\ (Short(cur.size) => pos' = source.at)
  BY <1>1, <1>2
<1>4. ASSUME ~swallowed, NEW k \in 1 .. total,
             pos = bodyAt(k), cur = chunk(k), SeenTo(seen, k)
      PROVE  \/ pos' = bodyAt(k) + chunk(k).size /\ SeenTo(seen', k + 1)
             \/ EndsEarly /\ pos' + ChunkHeaderSize > source.at
  <2>1. total \in Nat /\ k \in Nat /\ k > 0 /\ k + 1 \in 1 .. total + 1
        /\ file.at[k] \in Nat /\ file.at[k + 1] \in Nat
        /\ file.at[k + 1] >= bodyAt(k) + chunk(k).size
    BY <1>1, Layout DEF RTypeOK, bodyAt, ChunkHeaderSize
  <2>2. CASE Short(cur.size)
    <3>1. source.why = "eof"
      BY <2>2 DEF Consume
    <3>2. \A j \in 1 .. (k + 1) - 1 : chunk(j).id # "data"
      BY <1>4 DEF SeenTo, SoundTo
    <3>3. source.at < file.at[k + 1] + ChunkHeaderSize
      BY <1>1, <1>4, <2>1, <2>2 DEF Short, bodyAt, ChunkHeaderSize
    <3>4. EndsEarly
      BY <1>1, <2>1, <3>1, <3>2, <3>3, EndsInFront
    <3> QED  BY <1>1, <1>3, <2>2, <3>4 DEF ChunkHeaderSize
  <2>3. CASE ~Short(cur.size)
    <3>1. Takes(chunk(k), seen, seen') /\ Flags(seen) /\ Flags(seen')
      BY <1>1, <1>4, <2>3 DEF RTypeOK, SeenOK, Flags
    <3>2. SeenTo(seen', k + 1)
      BY <1>1, <1>4, <2>1, <3>1, Taken
    <3> QED  BY <1>2, <1>4, <2>3, <3>2
  <2> QED  BY <2>2, <2>3
<1>5. ASSUME ~swallowed
      PROVE  \/ \E k \in 1 .. total' :
                    pos' = bodyAt(k)' + chunk(k)'.size /\ cur' = chunk(k)' /\ SeenTo(seen, k + 1)'
             \/ Lost'
  <2>1. PICK k \in 1 .. total : pos = bodyAt(k) /\ cur = chunk(k) /\ SeenTo(seen, k)
    BY <1>1, <1>5 DEF WalkInv
  <2>2. EndsEarly /\ pos' + ChunkHeaderSize > source.at => Lost'
    BY SameFile DEF EndsEarly, Lost, Short, total, chunk
  <2> QED  BY <1>4, <1>5, <2>1, <2>2, SameFile
<1>6. WalkInv'
  BY <1>1, <1>5 DEF WalkInv
<1> QED  BY <1>3, <1>6

(* A chunk no reader can use, whole or cut by the end of the source.       *)
LEMMA BodyRefuses ==
    ASSUME RInv, pc = "body", cur.id # "data", Consume,
           file' = file, source' = source, cur' = cur, swallowed' = swallowed,
           pc' = "done", verdict' \in {"corrupt", "unsupported"},
           ~Short(cur.size) =>
              \/ cur.id = "fmt" /\ fmtVerdict(cur.body, heldLen(cur)) # "ok"
              \/ cur.id = "ds64" /\ heldLen(cur) < 28
    PROVE  WalkInv'
<1> SUFFICES ASSUME ~swallowed PROVE Damaged' \/ EndsEarly'
  BY DEF WalkInv
<1>1. RTypeOK /\ VerdictInv /\ WalkInv /\ source.at \in Nat /\ cur.size \in Nat /\ file \in Files
  <2>1. RTypeOK /\ VerdictInv /\ WalkInv
    BY DEF RInv
  <2>2. file \in Files /\ source.at \in 0 .. length(file) /\ pos \in Nat /\ Wellformed(cur)
    BY <2>1 DEF RTypeOK
  <2> QED  BY <2>1, <2>2 DEF Wellformed, VerdictInv
<1>2. PICK k \in 1 .. total : pos = bodyAt(k) /\ cur = chunk(k) /\ SeenTo(seen, k)
  BY <1>1 DEF WalkInv
<1>3. total \in Nat /\ k \in Nat /\ k > 0 /\ k + 1 \in 1 .. total + 1
      /\ file.at[k] \in Nat /\ file.at[k + 1] \in Nat
      /\ file.at[k + 1] >= bodyAt(k) + chunk(k).size
  BY <1>1, Layout DEF bodyAt, ChunkHeaderSize
<1>4. CASE Short(cur.size)
  <2>1. source.why = "eof"
    BY <1>4 DEF Consume
  <2>2. \A j \in 1 .. (k + 1) - 1 : chunk(j).id # "data"
    BY <1>2 DEF SeenTo, SoundTo
  <2>3. source.at < file.at[k + 1] + ChunkHeaderSize
    BY <1>1, <1>2, <1>3, <1>4 DEF Short, bodyAt, ChunkHeaderSize
  <2>4. EndsEarly
    BY <1>1, <1>3, <2>1, <2>2, <2>3, EndsInFront
  <2> QED  BY <2>4, SameFile DEF EndsEarly, total, chunk
<1>5. CASE ~Short(cur.size)
  <2>1. \/ chunk(k).id = "fmt" /\ fmtVerdict(chunk(k).body, heldLen(chunk(k))) # "ok"
        \/ chunk(k).id = "ds64" /\ heldLen(chunk(k)) < 28
    BY <1>2, <1>5
  <2>2. SUFFICES ASSUME HasData PROVE Damaged
    BY SameFile DEF Damaged
  <2>3. SoundTo(k) /\ chunk(k).id # "data"
    BY <1>2 DEF SeenTo
  <2>4. FirstData \in Int /\ k <= FirstData /\ chunk(FirstData).id = "data"
    BY <1>1, <1>3, <2>2, <2>3, FirstDataBounds
  <2>5. k \in 1 .. FirstData - 1
    BY <1>3, <2>3, <2>4
  <2>6. CASE chunk(k).id = "fmt" /\ fmtVerdict(chunk(k).body, heldLen(chunk(k))) # "ok"
    <3>1. k \in Before("fmt")
      BY <2>5, <2>6 DEF Before, chunk
    <3> QED  BY <2>6, <3>1 DEF Damaged
  <2>7. CASE chunk(k).id = "ds64" /\ heldLen(chunk(k)) < 28
    <3>1. k \in Before("ds64") /\ heldLen(chunk(k)) \in Nat
      BY <1>1, <1>2, <2>5, <2>7, HeldBounds DEF Before, chunk
    <3>2. k \notin LongEnough("ds64", 28)
      BY <2>7, <3>1 DEF LongEnough
    <3> QED  BY <3>1, <3>2 DEF Damaged
  <2> QED  BY <2>1, <2>6, <2>7
<1> QED  BY <1>4, <1>5

-----------------------------------------------------------------------------
(* The steps.                                                              *)

LEMMA InitKeeps == Init => RInv
<1> SUFFICES ASSUME Init PROVE RInv
  OBVIOUS
<1>1. /\ file \in Files /\ source \in Sources(file) /\ pos = 0 /\ pc = "fileHeader"
      /\ cur = NoChunk /\ seen = NothingSeen /\ verdict = "none" /\ swallowed = FALSE
  BY DEF Init
<1>2. length(file) \in Nat
  BY <1>1, Layout
<1>3. /\ source \in [at : 0 .. length(file), why : {"eof", "error"}, once : BOOLEAN]
      /\ source.once => source.why = "error"
  <2>1. Whole(file) \in [at : 0 .. length(file), why : {"eof", "error"}, once : BOOLEAN]
        /\ ~Whole(file).once
    BY <1>2 DEF Whole
  <2>2. ASSUME NEW x \in [at : 0 .. length(file) - 1, why : {"eof"}, once : {FALSE}]
        PROVE  x \in [at : 0 .. length(file), why : {"eof", "error"}, once : BOOLEAN] /\ ~x.once
    <3>1. x.at \in 0 .. length(file) - 1 /\ x.why = "eof" /\ x.once = FALSE
          /\ x = [at |-> x.at, why |-> x.why, once |-> x.once]
      OBVIOUS
    <3>2. x.at \in 0 .. length(file)
      BY <1>2, <3>1
    <3> QED  BY <3>1, <3>2
  <2>3. ASSUME NEW x \in [at : 0 .. length(file) - 1, why : {"error"}, once : BOOLEAN]
        PROVE  x \in [at : 0 .. length(file), why : {"eof", "error"}, once : BOOLEAN]
               /\ x.why = "error"
    BY <1>2
  <2>4. \/ source = Whole(file)
        \/ source \in [at : 0 .. length(file) - 1, why : {"eof"}, once : {FALSE}]
        \/ source \in [at : 0 .. length(file) - 1, why : {"error"}, once : BOOLEAN]
    BY <1>1 DEF Sources
  <2> QED  BY <2>1, <2>2, <2>3, <2>4
<1>4. SeenOK
  BY <1>1 DEF SeenOK, NothingSeen
<1>5. Wellformed(cur)
  BY <1>1 DEF Wellformed, NoChunk
<1>6. RTypeOK
  BY <1>1, <1>3, <1>4, <1>5 DEF RTypeOK
<1>7. VerdictInv
  BY <1>1 DEF VerdictInv, NothingSeen
<1>8. WalkInv
  BY <1>1 DEF WalkInv
<1> QED  BY <1>6, <1>7, <1>8 DEF RInv

(* The parts of RInv an action needs.                                      *)
LEMMA Parts ==
    ASSUME RInv
    PROVE  /\ RTypeOK /\ VerdictInv /\ WalkInv /\ SeenOK /\ file \in Files
           /\ source \in [at : 0 .. length(file), why : {"eof", "error"}, once : BOOLEAN]
           /\ source.once => source.why = "error"
           /\ source.at \in Nat /\ source.at <= length(file) /\ length(file) \in Nat
           /\ pos \in Nat /\ Wellformed(cur) /\ cur.size \in Nat
           /\ pc # "done" => verdict = "none" /\ ~seen.haveData
<1>1. RTypeOK /\ VerdictInv /\ WalkInv
  BY DEF RInv
<1>2. /\ SeenOK /\ file \in Files /\ pos \in Nat /\ Wellformed(cur)
      /\ source \in [at : 0 .. length(file), why : {"eof", "error"}, once : BOOLEAN]
      /\ source.once => source.why = "error"
  BY <1>1 DEF RTypeOK
<1>3. length(file) \in Nat
  BY <1>2, Layout
<1>4. source.at \in 0 .. length(file)
  BY <1>2
<1>5. cur.size \in Nat
  BY <1>2 DEF Wellformed
<1> QED  BY <1>1, <1>2, <1>3, <1>4, <1>5 DEF VerdictInv

(* A source that failed once is whole.                                     *)
LEMMA AfterStopType ==
    ASSUME RInv
    PROVE  /\ AfterStop \in [at : 0 .. length(file), why : {"eof", "error"}, once : BOOLEAN]
           /\ AfterStop.once => AfterStop.why = "error"
           /\ AfterStop.at >= source.at /\ AfterStop.at \in Nat
           /\ source.why = "eof" => AfterStop = source
<1>1. Whole(file) \in [at : 0 .. length(file), why : {"eof", "error"}, once : BOOLEAN]
  BY Parts DEF Whole
<1> QED  BY <1>1, Parts DEF AfterStop, Whole

(* An error of the source ends the call as itself.                         *)
LEMMA ErrorKeeps ==
    ASSUME RInv, SourceError
    PROVE  RInv'
<1>1. /\ source' = AfterStop /\ pos' = source.at /\ pc' = "done" /\ verdict' = "ioerror"
      /\ file' = file /\ cur' = cur /\ seen' = seen /\ swallowed' = swallowed
  BY DEF SourceError, Return
<1>2. RTypeOK'
  BY <1>1, Parts, AfterStopType, SameFile DEF RTypeOK, SeenOK, Wellformed
<1>3. VerdictInv'
  BY <1>1 DEF VerdictInv
<1>4. WalkInv'
  BY <1>1 DEF WalkInv
<1> QED  BY <1>2, <1>3, <1>4 DEF RInv

LEMMA FileHeaderStep ==
    ASSUME RInv, readFileHeader
    PROVE  RInv'
<1>0. /\ pc = "fileHeader" /\ file \in Files /\ verdict = "none" /\ ~seen.haveData
      /\ ~swallowed /\ pos = 0 /\ seen = NothingSeen /\ source.at \in Nat
  BY Parts DEF readFileHeader, WalkInv, VerdictInv
<1>1. CASE SourceError
  BY <1>1, ErrorKeeps
<1>2. CASE /\ Short(FileHeaderSize) /\ source.why = "eof" /\ pos' = source.at
           /\ Return("notRIFF") /\ UNCHANGED <<file, source, cur, seen, swallowed>>
  <2>1. pc' = "done" /\ verdict' = "notRIFF" /\ source.at < FileHeaderSize
        /\ file' = file /\ source' = source /\ cur' = cur /\ seen' = seen /\ swallowed' = swallowed
    BY <1>0, <1>2 DEF Return, Short, FileHeaderSize
  <2>2. RTypeOK'
    BY <1>0, <1>2, <2>1, Parts, SameFile DEF RTypeOK, SeenOK, Wellformed
  <2>3. VerdictInv'
    BY <2>1 DEF VerdictInv
  <2>4. EndsEarly
    <3>1. 1 \in 1 .. total + 1 /\ file.at[1] = FileHeaderSize
      BY <1>0, Layout
    <3>2. \A j \in 1 .. 1 - 1 : chunk(j).id # "data"
      OBVIOUS
    <3>3. source.at < file.at[1] + ChunkHeaderSize
      BY <1>0, <2>1, <3>1 DEF ChunkHeaderSize, FileHeaderSize
    <3> QED  BY <1>2, <3>1, <3>2, <3>3, EndsInFront, Parts
  <2>5. WalkInv'
    BY <2>1, <2>4, SameFile DEF WalkInv, EndsEarly, total, chunk
  <2> QED  BY <2>2, <2>3, <2>5 DEF RInv
<1>3. CASE /\ ~Short(FileHeaderSize) /\ pos' = pos + FileHeaderSize
           /\ IF file.magic \in Magics THEN pc' = "header" /\ UNCHANGED verdict
              ELSE Return("notRIFF")
           /\ UNCHANGED <<file, source, cur, seen, swallowed>>
  <2>1. /\ file' = file /\ source' = source /\ cur' = cur /\ seen' = seen
        /\ swallowed' = swallowed /\ pos' = FileHeaderSize /\ source.at >= FileHeaderSize
        /\ \/ file.magic \in Magics /\ pc' = "header" /\ verdict' = "none"
           \/ file.magic \notin Magics /\ pc' = "done" /\ verdict' = "notRIFF"
    BY <1>0, <1>3 DEF Return, Short, FileHeaderSize
  <2>2. RTypeOK'
    BY <1>0, <2>1, Parts, SameFile DEF RTypeOK, SeenOK, Wellformed, FileHeaderSize
  <2>3. VerdictInv'
    BY <1>0, <2>1 DEF VerdictInv
  <2>4. 1 \in 1 .. total + 1 /\ file.at[1] = FileHeaderSize
    BY <1>0, Layout
  <2>5. SeenTo(seen, 1)
    BY <1>0 DEF SeenTo, SoundTo, FmtTold, DS64Told, FactTold, MetaTold, With, NothingSeen
  <2>6. file.magic \notin Magics => Damaged
    BY DEF Damaged, Magics
  <2>7. WalkInv'
    BY <1>0, <2>1, <2>4, <2>5, <2>6, SameFile DEF WalkInv
  <2> QED  BY <2>2, <2>3, <2>7 DEF RInv
<1> QED  BY <1>1, <1>2, <1>3 DEF readFileHeader, Magics


LEMMA ChunkHeaderStep ==
    ASSUME RInv, readChunkHeader
    PROVE  RInv'
<1>0. /\ pc = "header" /\ file \in Files /\ verdict = "none" /\ ~seen.haveData
      /\ source.at \in Nat /\ pos \in Nat /\ source.at <= length(file)
      /\ file.magic \in Magics /\ source.at >= FileHeaderSize
      /\ ~swallowed => \/ \E k \in 1 .. total + 1 : pos = file.at[k] /\ SeenTo(seen, k)
                       \/ Lost
  BY Parts DEF readChunkHeader, WalkInv, VerdictInv
<1>1. CASE SourceError
  BY <1>1, ErrorKeeps
<1>2. CASE /\ Short(ChunkHeaderSize) /\ source.why = "eof" /\ pos' = source.at
           /\ Return(finish(seen)) /\ UNCHANGED <<file, source, cur, seen, swallowed>>
  <2>1. /\ file' = file /\ source' = source /\ cur' = cur /\ seen' = seen
        /\ swallowed' = swallowed /\ pc' = "done" /\ verdict' = "corrupt"
    BY <1>0, <1>2 DEF Return, finish
  <2>2. RTypeOK'
    BY <1>0, <1>2, <2>1, Parts, SameFile DEF RTypeOK, SeenOK, Wellformed
  <2>3. VerdictInv'
    BY <1>0, <2>1 DEF VerdictInv
  <2>4. ASSUME ~swallowed PROVE EndsEarly
    <3>1. CASE Lost
      BY <3>1 DEF Lost
    <3>2. ASSUME NEW k \in 1 .. total + 1, pos = file.at[k], SeenTo(seen, k)
          PROVE  EndsEarly
      <4>1. \A j \in 1 .. k - 1 : chunk(j).id # "data"
        BY <3>2 DEF SeenTo, SoundTo
      <4>2. source.at < file.at[k] + ChunkHeaderSize
        BY <1>0, <1>2, <3>2 DEF Short, ChunkHeaderSize
      <4> QED  BY <1>2, <4>1, <4>2, EndsInFront, Parts
    <3> QED  BY <1>0, <2>4, <3>1, <3>2
  <2>5. WalkInv'
    BY <2>1, <2>4, SameFile DEF WalkInv, EndsEarly, total, chunk
  <2> QED  BY <2>2, <2>3, <2>5 DEF RInv
<1>3. CASE /\ ~Short(ChunkHeaderSize) /\ cur' \in HeadersAt(pos)
           /\ pos' = pos + ChunkHeaderSize /\ pc' = "body"
           /\ UNCHANGED <<file, source, seen, verdict, swallowed>>
  <2>1. /\ file' = file /\ source' = source /\ seen' = seen /\ verdict' = verdict
        /\ swallowed' = swallowed /\ pos' \in Nat /\ pos' = pos + ChunkHeaderSize
    BY <1>0, <1>3 DEF ChunkHeaderSize
  <2>2. Wellformed(cur')
    <3>1. CASE AtChunk(pos)
      <4>1. PICK j \in 1 .. total : cur' = file.chunks[j]
        BY <1>3, <3>1 DEF HeadersAt, total
      <4> QED  BY <1>0, <4>1, Layout DEF chunk
    <3>2. CASE ~AtChunk(pos)
      <4>1. Contiguous(file)
        BY <1>0, ReaderAssumption
      <4>2. PICK j \in DOMAIN file.at : /\ file.at[j] >= pos + ChunkHeaderSize
                                       /\ cur' = [NoChunk EXCEPT !.size = file.at[j] - pos - ChunkHeaderSize]
        BY <1>3, <3>2 DEF HeadersAt
      <4>3. file.at[j] \in Nat
        BY <4>1 DEF Contiguous
      <4>4. file.at[j] - pos - ChunkHeaderSize \in Nat
        BY <1>0, <4>2, <4>3 DEF ChunkHeaderSize
      <4>5. cur'.id = "none" /\ cur'.size = file.at[j] - pos - ChunkHeaderSize
        BY <4>2 DEF NoChunk
      <4> QED  BY <4>4, <4>5 DEF Wellformed
    <3> QED  BY <3>1, <3>2
  <2>3. RTypeOK'
    BY <1>0, <1>3, <2>1, <2>2, Parts, SameFile DEF RTypeOK, SeenOK, Wellformed
  <2>4. VerdictInv'
    BY <1>0, <1>3, <2>1 DEF VerdictInv
  <2>5. ASSUME ~swallowed
        PROVE  \E k \in 1 .. total : pos' = bodyAt(k) /\ cur' = chunk(k) /\ SeenTo(seen, k)
    <3>1. PICK k \in 1 .. total + 1 : pos = file.at[k] /\ SeenTo(seen, k)
      BY <1>0, <1>3, <2>5 DEF Lost
    <3>2. /\ total \in Nat /\ length(file) = file.at[total + 1]
          /\ \A i \in 1 .. total + 1 : file.at[i] \in Nat
          /\ \A i, j \in 1 .. total + 1 : i < j => file.at[i] < file.at[j]
      BY <1>0, Layout
    <3>3. k # total + 1
      BY <1>0, <1>3, <3>1, <3>2 DEF Short, ChunkHeaderSize
    <3>4. k \in 1 .. total
      BY <3>2, <3>3
    <3>5. AtChunk(pos)
      BY <3>1, <3>4 DEF AtChunk, total
    <3>6. PICK j \in 1 .. total : file.at[j] = pos /\ cur' = file.chunks[j]
      BY <1>3, <3>5 DEF HeadersAt, total
    <3>7. j = k
      BY <3>1, <3>2, <3>4, <3>6
    <3> QED  BY <2>1, <3>1, <3>4, <3>6, <3>7 DEF bodyAt, chunk
  <2>6. WalkInv'
    BY <1>0, <1>3, <2>1, <2>5, SameFile DEF WalkInv
  <2> QED  BY <2>3, <2>4, <2>6 DEF RInv
<1> QED  BY <1>1, <1>2, <1>3 DEF readChunkHeader

(* A body goes on to its pad.                                              *)
LEMMA BodyKeeps ==
    ASSUME RInv, pc = "body", cur.id # "data", Consume, SeenOK', ~seen'.haveData,
           file' = file, source' = source, cur' = cur, swallowed' = swallowed,
           verdict' = verdict, pc' = "pad", ~Short(cur.size) => Takes(cur, seen, seen')
    PROVE  RInv'
<1>1. WalkInv' /\ pos' \in Nat
  BY BodyWalks
<1>2. RTypeOK'
  BY <1>1, Parts, SameFile DEF RTypeOK, Wellformed
<1>3. VerdictInv'
  BY Parts DEF VerdictInv
<1> QED  BY <1>1, <1>2, <1>3 DEF RInv

LEMMA RefusalKeeps ==
    ASSUME RInv, pc = "body", cur.id # "data", Consume,
           file' = file, source' = source, cur' = cur, swallowed' = swallowed, seen' = seen,
           pc' = "done", verdict' \in {"corrupt", "unsupported"},
           ~Short(cur.size) =>
              \/ cur.id = "fmt" /\ fmtVerdict(cur.body, heldLen(cur)) # "ok"
              \/ cur.id = "ds64" /\ heldLen(cur) < 28
    PROVE  RInv'
<1>1. WalkInv'
  BY BodyRefuses
<1>2. pos' \in Nat
  BY Parts DEF Consume, Got
<1>3. RTypeOK'
  BY <1>2, Parts, SameFile DEF RTypeOK, Wellformed, SeenOK
<1>4. VerdictInv'
  BY Parts DEF VerdictInv
<1> QED  BY <1>1, <1>3, <1>4 DEF RInv

(* Of a payload that is there in full everything is handed on.             *)
LEMMA PayloadWhole ==
    ASSUME RInv
    PROVE  /\ ~Short(cur.size) => payloadLen = heldLen(cur)
           /\ kept <=> cur.size <= MaxChunkPayload
  BY Parts DEF payloadLen, heldLen, kept, Got

(* fmtVerdict accepts only one of three verdicts, and no rate of 0.        *)
LEMMA FmtVerdicts ==
    ASSUME NEW b, NEW len
    PROVE  /\ fmtVerdict(b, len) \in {"ok", "corrupt", "unsupported"}
           /\ fmtVerdict(b, len) = "ok" => b.rate # 0
  BY DEF fmtVerdict

LEMMA DS64Step ==
    ASSUME RInv, caseDS64
    PROVE  RInv'
<1>1. /\ pc = "body" /\ cur.id = "ds64" /\ Consume /\ file' = file /\ source' = source
      /\ cur' = cur /\ swallowed' = swallowed /\ SeenOK /\ ~seen.haveData /\ Wellformed(cur)
  BY Parts DEF caseDS64, InBody
<1>2. CASE payloadLen < 28
  <2>1. pc' = "done" /\ verdict' = "corrupt" /\ seen' = seen
    BY <1>2 DEF caseDS64, Return
  <2> QED  BY <1>1, <1>2, <2>1, PayloadWhole, RefusalKeeps
<1>3. CASE ~(payloadLen < 28)
  <2>1. /\ seen' = [seen EXCEPT !.ds64 = cur.body, !.haveDS64 = TRUE]
        /\ pc' = "pad" /\ verdict' = verdict
    BY <1>3 DEF caseDS64
  <2>2. /\ SeenOK' /\ ~seen'.haveData
        /\ seen'.ds64 = cur.body /\ seen'.haveDS64
        /\ seen'.fmt = seen.fmt /\ seen'.haveFmt = seen.haveFmt
        /\ seen'.factFrames = seen.factFrames
        /\ seen'.bext = seen.bext /\ seen'.haveBext = seen.haveBext
        /\ seen'.ixml = seen.ixml /\ seen'.haveIXML = seen.haveIXML
    BY <1>1, <2>1 DEF SeenOK, Wellformed
  <2>3. ~Short(cur.size) => Takes(cur, seen, seen')
    <3>1. cur.size \in Nat
      BY Parts
    <3> QED  BY <1>1, <1>3, <2>2, <3>1, PayloadWhole, HeldBounds DEF Takes
  <2> QED  BY <1>1, <2>1, <2>2, <2>3, BodyKeeps
<1> QED  BY <1>2, <1>3

LEMMA FmtStep ==
    ASSUME RInv, caseFmt
    PROVE  RInv'
<1> DEFINE v == fmtVerdict(cur.body, payloadLen)
<1>1. /\ pc = "body" /\ cur.id = "fmt" /\ Consume /\ file' = file /\ source' = source
      /\ cur' = cur /\ swallowed' = swallowed /\ SeenOK /\ ~seen.haveData /\ Wellformed(cur)
      /\ IF v # "ok" THEN Return(v) /\ seen' = seen
         ELSE /\ seen' = [seen EXCEPT !.fmt = parseFmt(cur.body), !.haveFmt = TRUE]
              /\ pc' = "pad" /\ verdict' = verdict
  BY Parts DEF caseFmt, InBody
<1>2. v \in {"ok", "corrupt", "unsupported"} /\ (v = "ok" => cur.body.rate # 0)
  BY FmtVerdicts
<1>3. ~Short(cur.size) => v = fmtVerdict(cur.body, heldLen(cur))
  BY PayloadWhole
<1> HIDE DEF v
<1>4. CASE v # "ok"
  <2>1. pc' = "done" /\ verdict' \in {"corrupt", "unsupported"} /\ seen' = seen
    BY <1>1, <1>2, <1>4 DEF Return
  <2> QED  BY <1>1, <1>3, <1>4, <2>1, RefusalKeeps
<1>5. CASE v = "ok"
  <2> DEFINE f == parseFmt(cur.body)
  <2>1. /\ seen' = [seen EXCEPT !.fmt = f, !.haveFmt = TRUE]
        /\ pc' = "pad" /\ verdict' = verdict
    BY <1>1, <1>5
  <2>2. f.rate \in Nat \ {0} /\ f.blockAlign \in Nat
    <3>1. /\ cur.body.rate \in Nat /\ cur.body.channels \in Nat /\ cur.body.bits \in Nat
          /\ cur.body.rate # 0
      BY <1>1, <1>2, <1>5 DEF Wellformed
    <3>2. BytesPerSample(cur.body.bits) \in Nat
      BY <3>1 DEF BytesPerSample
    <3>3. BytesPerSample(cur.body.bits) * cur.body.channels \in Nat
      BY <3>1, <3>2
    <3>4. f.rate = cur.body.rate /\ f.blockAlign = BytesPerSample(cur.body.bits) * cur.body.channels
      BY DEF parseFmt
    <3> QED  BY <3>1, <3>3, <3>4
  <2> HIDE DEF f
  <2>3. /\ SeenOK' /\ ~seen'.haveData
        /\ seen'.fmt = f /\ seen'.haveFmt
        /\ seen'.ds64 = seen.ds64 /\ seen'.haveDS64 = seen.haveDS64
        /\ seen'.factFrames = seen.factFrames
        /\ seen'.bext = seen.bext /\ seen'.haveBext = seen.haveBext
        /\ seen'.ixml = seen.ixml /\ seen'.haveIXML = seen.haveIXML
    BY <1>1, <2>1, <2>2 DEF SeenOK
  <2>4. ~Short(cur.size) => Takes(cur, seen, seen')
    BY <1>1, <1>3, <1>5, <2>3 DEF Takes, f
  <2> QED  BY <1>1, <2>1, <2>3, <2>4, BodyKeeps
<1> QED  BY <1>4, <1>5

LEMMA FactStep ==
    ASSUME RInv, caseFact
    PROVE  RInv'
<1>1. /\ pc = "body" /\ cur.id = "fact" /\ Consume /\ file' = file /\ source' = source
      /\ cur' = cur /\ swallowed' = swallowed /\ SeenOK /\ ~seen.haveData
      /\ pc' = "pad" /\ verdict' = verdict /\ cur.body.frames \in Nat
      /\ seen' = IF payloadLen >= factPayloadSize
                 THEN [seen EXCEPT !.factFrames = cur.body.frames] ELSE seen
  BY Parts DEF caseFact, InBody, Wellformed
<1>2. /\ SeenOK' /\ ~seen'.haveData
      /\ seen'.factFrames = IF payloadLen >= factPayloadSize
                            THEN cur.body.frames ELSE seen.factFrames
      /\ seen'.fmt = seen.fmt /\ seen'.haveFmt = seen.haveFmt
      /\ seen'.ds64 = seen.ds64 /\ seen'.haveDS64 = seen.haveDS64
      /\ seen'.bext = seen.bext /\ seen'.haveBext = seen.haveBext
      /\ seen'.ixml = seen.ixml /\ seen'.haveIXML = seen.haveIXML
  BY <1>1 DEF SeenOK
<1>3. ~Short(cur.size) => Takes(cur, seen, seen')
  BY <1>1, <1>2, PayloadWhole DEF Takes
<1> QED  BY <1>1, <1>2, <1>3, BodyKeeps

LEMMA MetaStep ==
    ASSUME RInv, caseMeta
    PROVE  RInv'
<1> DEFINE held == IF kept THEN [text |-> cur.body.text, len |-> payloadLen] ELSE NoBody
<1>1. /\ pc = "body" /\ cur.id \in {"bext", "iXML"} /\ Consume /\ file' = file /\ source' = source
      /\ cur' = cur /\ swallowed' = swallowed /\ SeenOK /\ ~seen.haveData
      /\ pc' = "pad" /\ verdict' = verdict
      /\ seen' = CASE cur.id = "bext" /\ ~seen.haveBext ->
                        [seen EXCEPT !.bext = held, !.haveBext = TRUE]
                   [] cur.id = "iXML" /\ ~seen.haveIXML ->
                        [seen EXCEPT !.ixml = held, !.haveIXML = TRUE]
                   [] OTHER -> seen
  BY Parts DEF caseMeta, InBody
<1>2. ~Short(cur.size) => held = Held(cur)
  BY PayloadWhole DEF Held, heldLen
<1> HIDE DEF held
<1>3. /\ SeenOK' /\ ~seen'.haveData
      /\ IF cur.id = "bext" /\ ~seen.haveBext
         THEN seen'.haveBext /\ seen'.bext = held
         ELSE seen'.haveBext = seen.haveBext /\ seen'.bext = seen.bext
      /\ IF cur.id = "iXML" /\ ~seen.haveIXML
         THEN seen'.haveIXML /\ seen'.ixml = held
         ELSE seen'.haveIXML = seen.haveIXML /\ seen'.ixml = seen.ixml
      /\ seen'.factFrames = seen.factFrames
      /\ seen'.fmt = seen.fmt /\ seen'.haveFmt = seen.haveFmt
      /\ seen'.ds64 = seen.ds64 /\ seen'.haveDS64 = seen.haveDS64
  BY <1>1 DEF SeenOK
<1>4. ~Short(cur.size) => Takes(cur, seen, seen')
  BY <1>1, <1>2, <1>3 DEF Takes
<1> QED  BY <1>1, <1>3, <1>4, BodyKeeps

LEMMA SkipStep ==
    ASSUME RInv, skipChunk
    PROVE  RInv'
<1>1. /\ pc = "body" /\ cur.id \notin {"ds64", "fmt", "fact", "bext", "iXML", "data"}
      /\ Consume /\ file' = file /\ source' = source
      /\ cur' = cur /\ swallowed' = swallowed /\ SeenOK /\ ~seen.haveData
      /\ pc' = "pad" /\ verdict' = verdict /\ seen' = seen
  BY Parts DEF skipChunk
<1>2. SeenOK' /\ ~seen'.haveData
  BY <1>1 DEF SeenOK
<1>3. Takes(cur, seen, seen')
  BY <1>1 DEF Takes
<1> QED  BY <1>1, <1>2, <1>3, BodyKeeps

LEMMA FailStep ==
    ASSUME RInv, BodyFails
    PROVE  RInv'
  BY ErrorKeeps DEF BodyFails


(* What the walk has seen up to the first data chunk is what the file says *)
(* in front of it.                                                         *)
LEMMA ToldIsSaid ==
    ASSUME file \in Files, NEW s, Flags(s), NEW k \in 1 .. total, SeenTo(s, k), chunk(k).id = "data"
    PROVE  /\ FirstData = k /\ HasData
           /\ \A id : Before(id) = With(id, 0, k)
           /\ \A id, n : LongEnough(id, n) = {j \in Before(id) : heldLen(chunk(j)) >= n}
           /\ LongEnough("fact", factPayloadSize) = With("fact", factPayloadSize, k)
           /\ s.haveFmt <=> Before("fmt") # {}
           /\ s.haveDS64 <=> Before("ds64") # {}
           /\ Before("ds64") = LongEnough("ds64", 28)
           /\ \A j \in Before("fmt") : fmtVerdict(chunk(j).body, heldLen(chunk(j))) = "ok"
<1>1. FirstData = k /\ k \in Nat /\ total \in Nat
  BY FirstDataBounds, Layout DEF SeenTo
<1>2. HasData
  BY <1>1 DEF HasData, total
<1>3. \A j \in 1 .. k - 1 : heldLen(chunk(j)) \in Nat
  <2> TAKE j \in 1 .. k - 1
  <2>1. j \in 1 .. total
    BY <1>1
  <2> QED  BY <2>1, Layout, HeldBounds
<1>4. ASSUME NEW id PROVE Before(id) = With(id, 0, k)
  BY <1>1, <1>3 DEF Before, With, chunk
<1>5. \A id, n : LongEnough(id, n) = {j \in Before(id) : heldLen(chunk(j)) >= n}
  BY DEF LongEnough
<1>6. LongEnough("fact", factPayloadSize) = With("fact", factPayloadSize, k)
  BY <1>1 DEF LongEnough, Before, With, chunk
<1>7. s.haveFmt <=> Before("fmt") # {}
  BY <1>4 DEF SeenTo, FmtTold, IsLast, Flags
<1>8. s.haveDS64 <=> Before("ds64") # {}
  BY <1>4 DEF SeenTo, DS64Told, IsLast, Flags
<1>9. Before("ds64") = LongEnough("ds64", 28)
  BY <1>1 DEF LongEnough, Before, SeenTo, SoundTo, chunk
<1>10. \A j \in Before("fmt") : fmtVerdict(chunk(j).body, heldLen(chunk(j))) = "ok"
  BY <1>1 DEF Before, SeenTo, SoundTo, chunk
<1> QED  BY <1>1, <1>2, <1>4, <1>5, <1>6, <1>7, <1>8, <1>9, <1>10

LEMMA DataStep ==
    ASSUME RInv, caseData
    PROVE  RInv'
<1> DEFINE size == resolveDataSize(headOf(seen, file.magic, cur.size))
           s == [seen EXCEPT !.haveData = TRUE, !.dataSize = size]
<1>1. /\ pc = "body" /\ cur.id = "data" /\ file' = file /\ source' = source /\ pos' = pos
      /\ cur' = cur /\ swallowed' = swallowed /\ SeenOK /\ seen' = s
      /\ pc' = "done" /\ verdict' = finish(s)
  BY Parts DEF caseData, InBody, Return
<1>2. file.magic \in Magics /\ source.at >= FileHeaderSize /\ WalkInv /\ file \in Files
  BY <1>1, Parts DEF VerdictInv
<1>3. headOf(seen', file.magic, cur.size) = headOf(seen, file.magic, cur.size)
  BY <1>1 DEF headOf, SeenOK
<1> HIDE DEF size
<1>4. /\ SeenOK' /\ seen'.haveData /\ seen'.dataSize = size
      /\ seen'.fmt = seen.fmt /\ seen'.haveFmt = seen.haveFmt
      /\ seen'.ds64 = seen.ds64 /\ seen'.haveDS64 = seen.haveDS64
      /\ seen'.factFrames = seen.factFrames
      /\ seen'.bext = seen.bext /\ seen'.haveBext = seen.haveBext
      /\ seen'.ixml = seen.ixml /\ seen'.haveIXML = seen.haveIXML
  BY <1>1 DEF SeenOK
<1>5. verdict' = IF ~seen.haveFmt \/ (Sized64(file.magic) /\ ~seen.haveDS64)
                 THEN "corrupt" ELSE "ok"
  BY <1>1, <1>4 DEF finish
<1>6. RTypeOK'
  BY <1>1, <1>4, <1>5, Parts, SameFile DEF RTypeOK, Wellformed
<1>7. VerdictInv'
  BY <1>1, <1>2, <1>4, <1>5 DEF VerdictInv, SeenOK
<1>8. ASSUME ~swallowed
      PROVE  /\ verdict' = "ok" => \E k \in 1 .. total :
                   /\ pos = bodyAt(k) /\ cur = chunk(k) /\ SeenTo(seen', k) /\ chunk(k).id = "data"
             /\ verdict' = "corrupt" => Damaged
  <2>1. PICK k \in 1 .. total : pos = bodyAt(k) /\ cur = chunk(k) /\ SeenTo(seen, k)
    BY <1>1, <1>2, <1>8 DEF WalkInv
  <2>2. SeenTo(seen', k)
    BY <1>4, <2>1 DEF SeenTo, FmtTold, DS64Told, FactTold, MetaTold
  <2>3. Flags(seen)
    BY <1>1 DEF SeenOK, Flags
  <2>4. /\ seen.haveFmt <=> Before("fmt") # {}
        /\ seen.haveDS64 <=> Before("ds64") # {}
    BY <1>1, <1>2, <2>1, <2>3, ToldIsSaid
  <2>5. verdict' = "corrupt" => Damaged
    BY <1>5, <2>4 DEF Damaged
  <2> QED  BY <1>1, <2>1, <2>2, <2>5
<1>9. WalkInv'
  <2>1. verdict' \in {"ok", "corrupt"}
    BY <1>5
  <2> QED  BY <1>1, <1>3, <1>4, <1>8, <2>1, SameFile DEF WalkInv, size
<1> QED  BY <1>6, <1>7, <1>9 DEF RInv

(* The pad, if there is one, is behind the chunk that was read: the look   *)
(* ahead tells it from the identifier of the next.                         *)
LEMMA PadStep ==
    ASSUME RInv, skipPad
    PROVE  RInv'
<1> DEFINE odd == cur.size % 2 = 1
<1>1. PICK omitted \in plausibleFourCC(pos) :
        pos' = IF odd /\ ~Short(4) /\ ~omitted THEN pos + 1 ELSE pos
  BY DEF skipPad
<1>2. /\ pc = "pad" /\ pc' = "header" /\ file' = file /\ cur' = cur /\ seen' = seen
      /\ verdict' = verdict /\ verdict = "none"
      /\ swallowed' = (swallowed \/ (odd /\ Short(4) /\ source.why = "error"))
      /\ source' = IF odd /\ Short(4) THEN AfterStop ELSE source
  BY Parts DEF skipPad
<1>3. /\ RTypeOK /\ WalkInv /\ file \in Files /\ pos \in Nat /\ cur.size \in Nat /\ pos' \in Nat
      /\ source.at \in Nat /\ source.at <= length(file) /\ swallowed \in BOOLEAN
      /\ source.why \in {"eof", "error"} /\ file.magic \in Magics /\ source.at >= FileHeaderSize
      /\ ~seen.haveData
  BY <1>1, <1>2, Parts DEF RTypeOK, VerdictInv
<1>4. /\ source' \in [at : 0 .. length(file), why : {"eof", "error"}, once : BOOLEAN]
      /\ source'.once => source'.why = "error"
      /\ source'.at >= FileHeaderSize
  BY <1>2, <1>3, Parts, AfterStopType DEF FileHeaderSize
<1>5. RTypeOK'
  BY <1>2, <1>3, <1>4, Parts, SameFile DEF RTypeOK, SeenOK, Wellformed
<1>6. VerdictInv'
  BY <1>2, <1>3, <1>4 DEF VerdictInv
<1>7. ASSUME ~swallowed'
      PROVE  /\ source' = source
             /\ \/ \E k \in 1 .. total + 1 : pos' = file.at[k] /\ SeenTo(seen, k)
                \/ EndsEarly /\ pos' + ChunkHeaderSize > source.at
  <2>1. ~swallowed /\ (odd /\ Short(4) => source.why = "eof")
    BY <1>2, <1>3, <1>7
  <2>2. source' = source
    BY <1>2, <2>1, AfterStopType
  <2>3. CASE Lost
    BY <1>1, <1>3, <2>2, <2>3 DEF Lost, Short, ChunkHeaderSize
  <2>4. ASSUME NEW k \in 1 .. total, pos = bodyAt(k) + chunk(k).size, cur = chunk(k),
               SeenTo(seen, k + 1)
        PROVE  \/ \E j \in 1 .. total + 1 : pos' = file.at[j] /\ SeenTo(seen, j)
               \/ EndsEarly /\ pos' + ChunkHeaderSize > source.at
    <3>1. /\ total \in Nat /\ k + 1 \in 1 .. total + 1 /\ total + 1 \in 1 .. total + 1
          /\ length(file) = file.at[total + 1]
          /\ \A i \in 1 .. total + 1 : file.at[i] \in Nat
          /\ \A i, j \in 1 .. total + 1 : i < j => file.at[i] < file.at[j]
          /\ file.at[k + 1] = pos + IF odd /\ chunk(k).pad THEN 1 ELSE 0
          /\ file.at[k] < pos
      BY <1>3, <2>4, Layout DEF bodyAt, ChunkHeaderSize
    <3>2. CASE ~odd
      <4>1. pos' = file.at[k + 1]
        BY <1>1, <1>3, <3>1, <3>2
      <4> QED  BY <2>4, <3>1, <4>1
    <3>3. CASE odd /\ Short(4)
      <4>1. pos' = pos /\ source.why = "eof" /\ source.at < pos + 4
        BY <1>1, <1>3, <2>1, <3>3 DEF Short
      <4>2. \A j \in 1 .. (k + 1) - 1 : chunk(j).id # "data"
        BY <2>4 DEF SeenTo, SoundTo
      <4>3. file.at[k + 1] \in Nat /\ file.at[k + 1] >= pos
        BY <1>3, <3>1
      <4>4. source.at < file.at[k + 1] + ChunkHeaderSize
        BY <1>3, <4>1, <4>3 DEF ChunkHeaderSize
      <4>5. EndsEarly
        BY <1>3, <3>1, <4>1, <4>2, <4>4, EndsInFront
      <4> QED  BY <1>3, <4>1, <4>5 DEF ChunkHeaderSize
    <3>4. CASE odd /\ ~Short(4)
      <4>1. pos + 4 <= file.at[total + 1]
        BY <1>3, <3>1, <3>4 DEF Short
      <4>2. k # total
        BY <1>3, <3>1, <4>1
      <4>3. k + 1 \in 1 .. total
        BY <3>1, <4>2
      <4>4. CASE chunk(k).pad
        <5>1. file.at[k + 1] = pos + 1
          BY <3>1, <3>4, <4>4
        <5>2. ~AtChunk(pos)
          <6> SUFFICES ASSUME NEW j \in 1 .. total, file.at[j] = pos PROVE FALSE
            BY DEF AtChunk, total
          <6>1. CASE j <= k
            BY <1>3, <3>1, <6>1
          <6>2. CASE j > k
            <7>1. j = k + 1 \/ k + 1 < j
              BY <6>2
            <7>2. file.at[k + 1] <= file.at[j]
              BY <3>1, <4>3, <7>1
            <7> QED  BY <1>3, <5>1, <7>2
          <6> QED  BY <6>1, <6>2
        <5>3. AtChunk(pos + 1)
          BY <4>3, <5>1 DEF AtChunk, total
        <5>4. pos' = pos + 1
          BY <1>1, <3>4, <5>2, <5>3 DEF plausibleFourCC
        <5> QED  BY <2>4, <3>1, <5>1, <5>4
      <4>5. CASE ~chunk(k).pad
        <5>1. file.at[k + 1] = pos
          BY <1>3, <3>1, <4>5
        <5>2. AtChunk(pos)
          BY <4>3, <5>1 DEF AtChunk, total
        <5>3. pos' = pos
          BY <1>1, <5>2 DEF plausibleFourCC
        <5> QED  BY <2>4, <3>1, <5>1, <5>3
      <4> QED  BY <4>4, <4>5
    <3> QED  BY <3>2, <3>3, <3>4
  <2> QED  BY <1>2, <1>3, <2>1, <2>2, <2>3, <2>4 DEF WalkInv
<1>8. WalkInv'
  <2>1. ASSUME ~swallowed'
        PROVE  \/ \E k \in 1 .. total + 1 : pos' = file.at[k] /\ SeenTo(seen, k)
               \/ Lost'
    <3>1. EndsEarly /\ pos' + ChunkHeaderSize > source.at => Lost'
      BY <1>2, <1>7, <2>1, SameFile DEF EndsEarly, Lost, Short, total, chunk
    <3> QED  BY <1>7, <2>1, <3>1
  <2> QED  BY <1>2, <2>1, SameFile DEF WalkInv
<1> QED  BY <1>5, <1>6, <1>8 DEF RInv

LEMMA StutterStep ==
    ASSUME RInv, UNCHANGED vars
    PROVE  RInv'
<1>1. /\ file' = file /\ source' = source /\ pos' = pos /\ pc' = pc /\ cur' = cur
      /\ seen' = seen /\ verdict' = verdict /\ swallowed' = swallowed
  BY DEF vars
<1>2. RTypeOK' /\ VerdictInv'
  BY <1>1, SameFile, Parts DEF RTypeOK, VerdictInv, SeenOK, Wellformed
<1>3. (Lost' <=> Lost) /\ (EndsEarly' <=> EndsEarly)
  BY <1>1, SameFile DEF Lost, EndsEarly, Short
<1>4. headOf(seen, file.magic, cur.size)' = headOf(seen, file.magic, cur.size)
  BY <1>1 DEF headOf
<1>5. resolveDataSize(headOf(seen, file.magic, cur.size))' =
        resolveDataSize(headOf(seen, file.magic, cur.size))
  BY <1>1 DEF headOf, resolveDataSize, haveDS64
<1>6. WalkInv'
  BY <1>1, <1>3, <1>5, SameFile, Parts DEF WalkInv
<1> QED  BY <1>2, <1>6 DEF RInv

LEMMA RStep == RInv /\ [Next]_vars => RInv'
<1> SUFFICES ASSUME RInv, [Next]_vars PROVE RInv'
  OBVIOUS
<1>1. CASE readFileHeader   BY <1>1, FileHeaderStep
<1>2. CASE readChunkHeader  BY <1>2, ChunkHeaderStep
<1>3. CASE BodyFails        BY <1>3, FailStep
<1>4. CASE caseDS64         BY <1>4, DS64Step
<1>5. CASE caseFmt          BY <1>5, FmtStep
<1>6. CASE caseFact         BY <1>6, FactStep
<1>7. CASE caseMeta         BY <1>7, MetaStep
<1>8. CASE skipChunk        BY <1>8, SkipStep
<1>9. CASE caseData         BY <1>9, DataStep
<1>10. CASE skipPad         BY <1>10, PadStep
<1>11. CASE UNCHANGED vars  BY <1>11, StutterStep
<1> QED  BY <1>1, <1>2, <1>3, <1>4, <1>5, <1>6, <1>7, <1>8, <1>9, <1>10, <1>11 DEF Next

LEMMA ReaderInvariant == Spec => []RInv
<1> QED  BY InitKeeps, RStep, PTL DEF Spec


-----------------------------------------------------------------------------
(* The theorems.                                                           *)

(* Theorem: over every file and every source, an accepted header is the    *)
(* one the whole file has, and the source is left at the first byte of     *)
(* audio (ParseHeader, reader.go:85-208).                                  *)
THEOREM AcceptedIsWhole == Spec => []AcceptedMeansWholeHeader
<1>1. RInv => AcceptedMeansWholeHeader
  <2> SUFFICES ASSUME RInv, verdict = "ok", ~swallowed
               PROVE  /\ ~Damaged
                      /\ pos = AudioStart
                      /\ seen.fmt = parseFmt(chunk(Max(Before("fmt"))).body)
                      /\ seen.dataSize = resolveDataSize(Said)
                      /\ TotalFrames = resolveFrames(Said)
    BY DEF AcceptedMeansWholeHeader
  <2>1. /\ file \in Files /\ file.magic \in Magics /\ seen.haveFmt /\ WalkInv /\ SeenOK
        /\ Sized64(file.magic) => seen.haveDS64
    BY Parts DEF VerdictInv
  <2>2. PICK k \in 1 .. total :
           /\ pos = bodyAt(k) /\ cur = chunk(k) /\ SeenTo(seen, k) /\ chunk(k).id = "data"
           /\ seen.dataSize = resolveDataSize(headOf(seen, file.magic, cur.size))
    BY <2>1 DEF WalkInv
  <2>3. Flags(seen)
    BY <2>1 DEF SeenOK, Flags
  <2>4. /\ FirstData = k /\ HasData
        /\ \A id : Before(id) = With(id, 0, k)
        /\ LongEnough("fact", factPayloadSize) = With("fact", factPayloadSize, k)
        /\ Before("fmt") # {} /\ (seen.haveDS64 <=> Before("ds64") # {})
        /\ Before("ds64") = LongEnough("ds64", 28)
        /\ \A j \in Before("fmt") : fmtVerdict(chunk(j).body, heldLen(chunk(j))) = "ok"
    BY <2>1, <2>2, <2>3, ToldIsSaid
  <2>5. ~Damaged
    BY <2>1, <2>4 DEF Damaged, Magics
  <2>6. pos = AudioStart
    BY <2>2, <2>4 DEF AudioStart, bodyAt
  <2>7. \A id, n : With(id, n, k) \subseteq Nat
    BY DEF With
  <2>8. seen.fmt = parseFmt(chunk(Max(Before("fmt"))).body)
    <3>1. PICK j \in 1 .. k - 1 : IsLast(j, With("fmt", 0, k)) /\ seen.fmt = parseFmt(chunk(j).body)
      BY <2>1, <2>2 DEF SeenTo, FmtTold
    <3>2. Max(Before("fmt")) = j
      BY <2>4, <2>7, <3>1, MaxIs
    <3> QED  BY <3>1, <3>2
  <2>9. /\ Said.ds64Id = IF seen.haveDS64 THEN "ds64" ELSE "none"
        /\ Said.ds64DataSize = seen.ds64.dataSize
        /\ Said.ds64SampleCount = seen.ds64.sampleCount
    <3>1. CASE seen.haveDS64
      <4>1. PICK j \in 1 .. k - 1 : IsLast(j, With("ds64", 0, k)) /\ seen.ds64 = chunk(j).body
        BY <2>2, <3>1 DEF SeenTo, DS64Told
      <4>2. Max(Before("ds64")) = j
        BY <2>4, <2>7, <4>1, MaxIs
      <4> QED  BY <2>4, <3>1, <4>1, <4>2 DEF Said
    <3>2. CASE ~seen.haveDS64
      <4>1. seen.ds64 = NothingSeen.ds64 /\ Before("ds64") = {}
        BY <2>2, <2>4, <3>2 DEF SeenTo, DS64Told
      <4> QED  BY <3>2, <4>1 DEF Said, NothingSeen
    <3> QED  BY <3>1, <3>2
  <2>10. Said.factFrames = seen.factFrames
    <3>1. CASE With("fact", factPayloadSize, k) = {} /\ seen.factFrames = 0
      BY <2>4, <3>1 DEF Said
    <3>2. CASE \E j \in 1 .. k - 1 : /\ IsLast(j, With("fact", factPayloadSize, k))
                                    /\ seen.factFrames = chunk(j).body.frames
      <4>1. PICK j \in 1 .. k - 1 : /\ IsLast(j, With("fact", factPayloadSize, k))
                                    /\ seen.factFrames = chunk(j).body.frames
        BY <3>2
      <4>2. Max(LongEnough("fact", factPayloadSize)) = j
            /\ LongEnough("fact", factPayloadSize) # {}
        BY <2>4, <2>7, <4>1, MaxIs DEF IsLast
      <4> QED  BY <4>1, <4>2 DEF Said
    <3> QED  BY <2>2, <3>1, <3>2 DEF SeenTo, FactTold
  <2>11. /\ Said.magic = file.magic /\ Said.blockAlign = seen.fmt.blockAlign
         /\ Said.dataSize = cur.size
    BY <2>2, <2>4, <2>8 DEF Said
  <2>12. Said = headOf(seen, file.magic, cur.size)
    BY <2>9, <2>10, <2>11 DEF Said, headOf
  <2> QED  BY <2>2, <2>5, <2>6, <2>8, <2>12 DEF TotalFrames
<1> QED  BY <1>1, ReaderInvariant, PTL

(* Theorem: the metadata handed on is that of the first bext and the first *)
(* iXML of the file, whatever follows them (reader.go:133-156).            *)
THEOREM FirstMetadataWins == Spec => []MetadataIsTheFirst
<1>1. RInv => MetadataIsTheFirst
  <2> SUFFICES ASSUME RInv, verdict = "ok", ~swallowed
               PROVE  seen.bext = FirstBody("bext") /\ seen.ixml = FirstBody("iXML")
    BY DEF MetadataIsTheFirst
  <2>1. file \in Files /\ WalkInv /\ SeenOK
    BY Parts
  <2>2. PICK k \in 1 .. total : SeenTo(seen, k) /\ chunk(k).id = "data"
    BY <2>1 DEF WalkInv
  <2>3. Flags(seen)
    BY <2>1 DEF SeenOK, Flags
  <2>4. \A id : Before(id) = With(id, 0, k)
    BY <2>1, <2>2, <2>3, ToldIsSaid
  <2>5. ASSUME NEW id, NEW have, NEW held, MetaTold(id, have, held, k)
        PROVE  held = FirstBody(id)
    <3>1. CASE have
      <4>1. PICK j \in 1 .. k - 1 : IsFirst(j, With(id, 0, k)) /\ held = Held(chunk(j))
        BY <2>5, <3>1 DEF MetaTold
      <4>2. With(id, 0, k) \subseteq Nat /\ With(id, 0, k) # {}
        BY <4>1 DEF With, IsFirst
      <4>3. Min(Before(id)) = j
        BY <2>4, <4>1, <4>2, MinIs
      <4> QED  BY <2>4, <4>1, <4>2, <4>3 DEF FirstBody
    <3>2. CASE ~have
      BY <2>4, <2>5, <3>2 DEF MetaTold, FirstBody
    <3> QED  BY <3>1, <3>2
  <2>6. /\ MetaTold("bext", seen.haveBext, seen.bext, k)
        /\ MetaTold("iXML", seen.haveIXML, seen.ixml, k)
    BY <2>2 DEF SeenTo
  <2> QED  BY <2>5, <2>6
<1> QED  BY <1>1, ReaderInvariant, PTL

(* Theorem: a sound file is refused only if its source ended in front of   *)
(* its audio; an I/O error is never called damage, and Sniff agrees on     *)
(* what is a WAVE file (reader.go:302-309, 331-342, 355-366, 408-420).     *)
THEOREM RefusalsAreJust == Spec => []ErrorsAreNotDamage
<1>1. RInv => ErrorsAreNotDamage
  <2> SUFFICES ASSUME RInv PROVE ErrorsAreNotDamage
    OBVIOUS
  <2>1. file \in Files /\ WalkInv /\ VerdictInv /\ RTypeOK /\ source.at \in Nat
    BY Parts
  <2>2. verdict \in {"corrupt", "unsupported", "notRIFF"} /\ ~Damaged /\ ~swallowed =>
           source.why = "eof" /\ source.at < AudioStart
    BY <2>1, EarlyEnd DEF WalkInv
  <2>3. verdict \notin {"none", "ioerror"} =>
           (verdict = "notRIFF" <=> SniffContainer(file.magic, source.at) = "none")
    <3>1. verdict \notin {"none", "ioerror"} =>
             verdict \in {"ok", "corrupt", "unsupported", "notRIFF"}
      BY <2>1 DEF RTypeOK
    <3>2. SniffContainer(file.magic, source.at) = "none" <=>
             file.magic \notin Magics \/ source.at < FileHeaderSize
      BY <2>1 DEF SniffContainer, Magics, FileHeaderSize
    <3>3. source.at \in Nat /\ FileHeaderSize = 12
      BY <2>1 DEF FileHeaderSize
    <3>4. verdict \in {"ok", "corrupt", "unsupported"} =>
             file.magic \in Magics /\ ~(source.at < FileHeaderSize)
      BY <2>1, <3>3 DEF VerdictInv
    <3>5. verdict = "notRIFF" => file.magic \notin Magics \/ source.at < FileHeaderSize
      BY <2>1 DEF VerdictInv
    <3>6. CASE verdict = "notRIFF"
      BY <3>2, <3>5, <3>6
    <3>7. CASE verdict \in {"ok", "corrupt", "unsupported"}
      BY <3>2, <3>4, <3>7
    <3> QED  BY <3>1, <3>6, <3>7
  <2> QED  BY <2>2, <2>3 DEF ErrorsAreNotDamage
<1> QED  BY <1>1, ReaderInvariant, PTL

-----------------------------------------------------------------------------
(* How long the stream is.                                                 *)

(* Division: the quotient and the remainder there is, and the only ones.   *)
LEMMA DivMod ==
    ASSUME NEW n \in Nat, NEW w \in Nat \ {0}
    PROVE  /\ n \div w \in Nat /\ n % w \in Nat
           /\ n % w < w /\ n = (n \div w) * w + (n % w)
<1>1. n \div w \in Int /\ n % w \in Nat /\ n % w < w /\ n = (n \div w) * w + (n % w)
  OBVIOUS
<1>2. n \div w >= 0
  <2> SUFFICES ASSUME n \div w <= -1 PROVE FALSE
    BY <1>1
  <2>1. (n \div w) * w <= -w
    BY <1>1
  <2> QED  BY <1>1, <2>1
<1> QED  BY <1>1, <1>2

LEMMA DivIs ==
    ASSUME NEW n \in Nat, NEW w \in Nat \ {0}, NEW q \in Nat, NEW r \in Nat,
           r < w, n = q * w + r
    PROVE  n \div w = q
<1> DEFINE d == n \div w
           m == n % w
<1>1. d \in Nat /\ m \in Nat /\ m < w /\ n = d * w + m
  BY DivMod
<1> HIDE DEF d, m
<1>2. (q - d) * w = m - r
  <2>1. (q - d) * w = q * w - d * w
    BY <1>1
  <2> QED  BY <1>1, <2>1
<1>3. q = d
  <2>1. CASE q - d >= 1
    <3>1. (q - d) * w >= w
      BY <1>1, <2>1
    <3> QED  BY <1>1, <1>2, <3>1
  <2>2. CASE q - d <= -1
    <3>1. (q - d) * w <= -w
      BY <1>1, <2>2
    <3> QED  BY <1>1, <1>2, <3>1
  <2> QED  BY <1>1, <2>1, <2>2
<1> QED  BY <1>3 DEF d

(* A quotient is at most m exactly when m + 1 divisors are too many.       *)
LEMMA QuotientAtMost ==
    ASSUME NEW n \in Nat, NEW w \in Nat \ {0}, NEW m \in Nat
    PROVE  /\ n \div w > m => m < n /\ (m + 1) * w <= n
           /\ n \div w <= n
<1> DEFINE d == n \div w
           r == n % w
<1>1. d \in Nat /\ r \in Nat /\ r < w /\ n = d * w + r
  BY DivMod
<1> HIDE DEF d, r
<1>2. d <= d * w
  <2>1. 1 <= w /\ d * 1 = d
    BY <1>1
  <2>2. d * (w - 1) >= 0 /\ d * (w - 1) = d * w - d
    BY <1>1, <2>1
  <2> QED  BY <1>1, <2>2
<1>3. ASSUME d > m PROVE m < n /\ (m + 1) * w <= n
  <2>1. (d - (m + 1)) * w >= 0 /\ (d - (m + 1)) * w = d * w - (m + 1) * w
    BY <1>1, <1>3
  <2>2. d * w \in Nat /\ (m + 1) * w \in Nat
    BY <1>1
  <2> QED  BY <1>1, <1>2, <1>3, <2>1, <2>2
<1> QED  BY <1>1, <1>2, <1>3 DEF d

(* Whole seconds first and then what is left make the same as one division *)
(* of the product (StreamInfo.Duration, wav.go:321-340).                   *)
LEMMA TwoTerms ==
    ASSUME NEW n \in Nat, NEW w \in Nat \ {0}, NEW s \in Nat
    PROVE  (n * s) \div w = (n \div w) * s + ((n % w) * s) \div w
<1> DEFINE d == n \div w
           r == n % w
           e == (r * s) \div w
           t == (r * s) % w
<1>1. d \in Nat /\ r \in Nat /\ r < w /\ n = d * w + r
  BY DivMod
<1>2. r * s \in Nat
  BY <1>1
<1>3. e \in Nat /\ t \in Nat /\ t < w /\ r * s = e * w + t
  BY <1>2, DivMod
<1> HIDE DEF d, r, e, t
<1>4. n * s = (d * s + e) * w + t
  <2>1. n * s = (d * w) * s + r * s
    BY <1>1
  <2>2. (d * s + e) * w = (d * s) * w + e * w
    BY <1>1, <1>3
  <2>3. (d * w) * s = (d * s) * w
    BY <1>1
  <2>4. (d * w) * s \in Nat /\ r * s \in Nat /\ e * w \in Nat
    BY <1>1, <1>3
  <2> QED  BY <1>3, <2>1, <2>2, <2>3, <2>4
<1>5. d * s + e \in Nat /\ n * s \in Nat
  BY <1>1, <1>3
<1>6. (n * s) \div w = d * s + e
  BY <1>3, <1>4, <1>5, DivIs
<1> QED  BY <1>6 DEF d, r, e

(* So Duration states the exact length, rounded down, when it can be       *)
(* stated, and 0 otherwise; no frames last no time.                        *)
LEMMA DurationExact ==
    ASSUME NEW n \in Nat, n <= MaxInt64, NEW w \in Nat \ {0}
    PROVE  LET exact == (n * nsPerSecond) \div w
           IN Duration(n, w) = IF w <= MaxInt64 \div nsPerSecond /\ exact <= MaxInt64
                               THEN exact ELSE 0
<1> DEFINE most == MaxInt64 \div nsPerSecond
           whole == n \div w
           ns == whole * nsPerSecond
           rem == n % w
           remNs == (rem * nsPerSecond) \div w
           exact == (n * nsPerSecond) \div w
<1>1. MaxInt64 \in Nat /\ nsPerSecond \in Nat \ {0}
  BY DurationAssumption
<1>2. exact = ns + remNs
  BY <1>1, TwoTerms
<1>3. whole \in Nat /\ rem \in Nat
  BY DivMod
<1>4. most \in Nat
  BY <1>1, DivMod
<1>5. ns \in Nat /\ rem * nsPerSecond \in Nat
  BY <1>1, <1>3
<1>6. remNs \in Nat
  BY <1>5, DivMod
<1>7. whole > most => ns > MaxInt64
  <2> SUFFICES ASSUME whole > most PROVE ns > MaxInt64
    OBVIOUS
  <2>1. MaxInt64 % nsPerSecond < nsPerSecond /\ MaxInt64 % nsPerSecond \in Nat
        /\ MaxInt64 = most * nsPerSecond + (MaxInt64 % nsPerSecond)
    BY <1>1, DivMod
  <2> HIDE DEF most, whole
  <2>2. (whole - (most + 1)) * nsPerSecond >= 0
    BY <1>1, <1>3, <1>4
  <2>3. (whole - (most + 1)) * nsPerSecond
           = whole * nsPerSecond - most * nsPerSecond - nsPerSecond
    BY <1>1, <1>3, <1>4
  <2>4. most * nsPerSecond \in Nat
    BY <1>1, <1>4
  <2> QED  BY <1>1, <1>5, <2>1, <2>2, <2>3, <2>4
<1>8. n = 0 => exact = 0
  <2>1. n = 0 => n * nsPerSecond = 0 /\ 0 = 0 * w + 0 /\ 0 < w
    BY <1>1
  <2>2. n = 0 => 0 \div w = 0
    BY <2>1, DivIs
  <2> QED  BY <2>1, <2>2
<1>9. Duration(n, w) = IF n = 0 \/ n > MaxInt64 \/ w <= 0 \/ w > most
                          \/ whole > most \/ ns > MaxInt64 - remNs
                       THEN 0 ELSE ns + remNs
  BY DEF Duration
<1> HIDE DEF most, whole, ns, rem, remNs, exact
<1>10. Duration(n, w) = IF w <= most /\ exact <= MaxInt64 THEN exact ELSE 0
  <2>1. CASE n = 0
    BY <1>1, <1>8, <1>9, <2>1
  <2>2. CASE n # 0 /\ w > most
    BY <1>4, <1>9, <2>2
  <2>3. CASE n # 0 /\ w <= most
    BY <1>1, <1>2, <1>3, <1>4, <1>5, <1>6, <1>7, <1>9, <2>3
  <2> QED  BY <1>4, <2>1, <2>2, <2>3
<1> QED  BY <1>10 DEF most, exact

(* The frame count of a header is a number a signed 64-bit size can hold.  *)
LEMMA FramesBounded ==
    ASSUME RInv, verdict = "ok"
    PROVE  TotalFrames \in Nat /\ TotalFrames <= MaxInt64
<1> DEFINE h == headOf(seen, file.magic, cur.size)
<1>1. /\ seen.fmt.blockAlign \in Nat /\ seen.ds64.dataSize \in Nat
      /\ seen.ds64.sampleCount \in Nat /\ seen.factFrames \in Nat /\ cur.size \in 0 .. MaxUint32
  BY Parts, SizeAssumption DEF SeenOK, Wellformed, VerdictInv
<1>2. /\ h.blockAlign \in Nat /\ h.ds64DataSize \in Nat /\ h.ds64SampleCount \in Nat
      /\ h.factFrames \in Nat /\ h.dataSize \in 0 .. MaxUint32
  BY <1>1 DEF headOf
<1>3. MaxUint32 \in Nat /\ MaxDataSize \in Nat /\ MaxUint32 <= MaxDataSize
      /\ MaxDataSize <= MaxInt64 /\ MaxInt64 \in Nat
  BY SizeAssumption, ReaderAssumption, DurationAssumption
<1> HIDE DEF h
<1>4. resolveDataSize(h) = sizeUnknown
      \/ (resolveDataSize(h) \in Nat /\ resolveDataSize(h) <= MaxDataSize)
  BY <1>2, <1>3 DEF resolveDataSize, sizeUnknown
<1>5. ASSUME NEW f \in Nat
      PROVE  boundedFrames(f, h.blockAlign) \in Nat
             /\ boundedFrames(f, h.blockAlign) <= MaxDataSize
  <2>1. h.blockAlign > 0 => MaxDataSize \div h.blockAlign \in Nat
                            /\ MaxDataSize \div h.blockAlign <= MaxDataSize
    BY <1>2, <1>3, DivMod, QuotientAtMost
  <2> QED  BY <1>2, <1>3, <2>1 DEF boundedFrames
<1>6. resolveDataSize(h) # sizeUnknown /\ h.blockAlign > 0 =>
         resolveDataSize(h) \div h.blockAlign \in Nat
         /\ resolveDataSize(h) \div h.blockAlign <= MaxDataSize
  <2> SUFFICES ASSUME resolveDataSize(h) # sizeUnknown, h.blockAlign > 0
               PROVE  resolveDataSize(h) \div h.blockAlign \in Nat
                      /\ resolveDataSize(h) \div h.blockAlign <= MaxDataSize
    OBVIOUS
  <2>1. resolveDataSize(h) \div h.blockAlign \in Nat
        /\ resolveDataSize(h) \div h.blockAlign <= resolveDataSize(h)
    BY <1>2, <1>4, DivMod, QuotientAtMost
  <2> QED  BY <1>3, <1>4, <2>1
<1>7. resolveFrames(h) \in Nat /\ resolveFrames(h) <= MaxDataSize
  BY <1>2, <1>3, <1>5, <1>6 DEF resolveFrames
<1> QED  BY <1>3, <1>7 DEF TotalFrames, h

(* Theorem: the duration stated of a stream is its frames over its rate to *)
(* the nanosecond below, and 0 exactly when that number cannot be stated.  *)
THEOREM DurationStated == Spec => []DurationIsExact
<1>1. RInv => DurationIsExact
  <2> SUFFICES ASSUME RInv, verdict = "ok" PROVE DurationIsExact
    BY DEF DurationIsExact
  <2>1. seen.haveFmt
    BY Parts DEF VerdictInv
  <2>2. seen.fmt.rate \in Nat \ {0}
    BY <2>1, Parts DEF SeenOK
  <2>3. TotalFrames \in Nat /\ TotalFrames <= MaxInt64
    BY FramesBounded
  <2> QED  BY <2>2, <2>3, DurationExact DEF DurationIsExact
<1> QED  BY <1>1, ReaderInvariant, PTL


-----------------------------------------------------------------------------
(* What BuildHeader writes.                                                *)

bit(b) == IF b THEN 1 ELSE 0
Opt(here, c) == IF here THEN <<c>> ELSE <<>>

(* The chunks of a written header, and where in it they are when present.  *)
withIXML(f) == f.ixml > 0
room(f) == f.lay.bytes.ds64Id # "none"
ds64Chunk(f) == [id |-> f.lay.bytes.ds64Id, size |-> 28, pad |-> TRUE,
                 body |-> [dataSize |-> f.lay.bytes.ds64DataSize,
                           sampleCount |-> f.lay.bytes.ds64SampleCount]]
fmtChunk(f) == [id |-> "fmt", size |-> appendFmt(f.format).len, pad |-> TRUE,
                body |-> appendFmt(f.format)]
bextChunk(f) == [id |-> "bext", size |-> serializedLen(f.bext), pad |-> TRUE,
                 body |-> [text |-> f.name]]
ixmlChunk(f) == [id |-> "iXML", size |-> f.ixml, pad |-> TRUE, body |-> [text |-> "x"]]
factChunk(f) == [id |-> "fact", size |-> factPayloadSize, pad |-> TRUE,
                 body |-> [frames |-> f.lay.bytes.factFrames]]
dataChunk(f) == [id |-> "data", size |-> f.lay.bytes.dataSize, pad |-> TRUE,
                 body |-> [text |-> "audio"]]

atFmt(f) == bit(room(f)) + 1
atBext(f) == atFmt(f) + bit(f.name # "none")
atIXML(f) == atBext(f) + bit(withIXML(f))
atFact(f) == atIXML(f) + bit(f.lay.hasFact)
atData(f) == atFact(f) + 1

LEMMA OptHere ==
    ASSUME NEW S, NEW s \in Seq(S), NEW c \in S
    PROVE  LET t == s \o <<c>>
           IN /\ t \in Seq(S) /\ Len(t) = Len(s) + 1 /\ t[Len(s) + 1] = c
              /\ \A i \in 1 .. Len(s) : t[i] = s[i]
  OBVIOUS

LEMMA OptAbsent ==
    ASSUME NEW S, NEW s \in Seq(S)
    PROVE  s \o <<>> = s
  OBVIOUS

LEMMA HeaderChunks ==
    ASSUME NEW f, f.lay.hasFact \in BOOLEAN
    PROVE  LET chunks == headerChunks(f)
           IN /\ Len(chunks) = atData(f)
              /\ room(f) => chunks[1] = ds64Chunk(f)
              /\ chunks[atFmt(f)] = fmtChunk(f)
              /\ f.name # "none" => chunks[atBext(f)] = bextChunk(f)
              /\ withIXML(f) => chunks[atIXML(f)] = ixmlChunk(f)
              /\ f.lay.hasFact => chunks[atFact(f)] = factChunk(f)
              /\ chunks[atData(f)] = dataChunk(f)
<1> DEFINE S == {ds64Chunk(f), fmtChunk(f), bextChunk(f), ixmlChunk(f), factChunk(f), dataChunk(f)}
           s1 == <<>> \o Opt(room(f), ds64Chunk(f))
           s2 == s1 \o Opt(TRUE, fmtChunk(f))
           s3 == s2 \o Opt(f.name # "none", bextChunk(f))
           s4 == s3 \o Opt(withIXML(f), ixmlChunk(f))
           s5 == s4 \o Opt(f.lay.hasFact, factChunk(f))
           s6 == s5 \o Opt(TRUE, dataChunk(f))
<1>1. headerChunks(f) = s6
  <2>1. <<>> \o Opt(room(f), ds64Chunk(f)) = Opt(room(f), ds64Chunk(f))
    BY DEF Opt
  <2> QED  BY <2>1 DEF headerChunks, Opt, room, withIXML, ds64Chunk, fmtChunk, bextChunk, ixmlChunk,
                      factChunk, dataChunk
<1>2. /\ room(f) \in BOOLEAN /\ (f.name # "none") \in BOOLEAN /\ (withIXML(f)) \in BOOLEAN
      /\ <<>> \in Seq(S) /\ Len(<<>>) = 0
      /\ ds64Chunk(f) \in S /\ fmtChunk(f) \in S /\ bextChunk(f) \in S
      /\ ixmlChunk(f) \in S /\ factChunk(f) \in S /\ dataChunk(f) \in S
  BY DEF room, withIXML
<1> HIDE DEF S
<1>3. /\ s1 \in Seq(S) /\ Len(s1) = bit(room(f))
      /\ room(f) => s1[1] = ds64Chunk(f)
  BY <1>2, OptHere, OptAbsent DEF Opt, bit
<1> HIDE DEF s1
<1>4. /\ s2 \in Seq(S) /\ Len(s2) = Len(s1) + 1
      /\ \A i \in 1 .. Len(s1) : s2[i] = s1[i]
      /\ s2[Len(s1) + 1] = fmtChunk(f)
  BY <1>2, <1>3, OptHere, OptAbsent DEF Opt, bit
<1> HIDE DEF s2
<1>5. /\ s3 \in Seq(S) /\ Len(s3) = Len(s2) + bit(f.name # "none")
      /\ \A i \in 1 .. Len(s2) : s3[i] = s2[i]
      /\ f.name # "none" => s3[Len(s2) + 1] = bextChunk(f)
  BY <1>2, <1>4, OptHere, OptAbsent DEF Opt, bit
<1> HIDE DEF s3
<1>6. /\ s4 \in Seq(S) /\ Len(s4) = Len(s3) + bit(withIXML(f))
      /\ \A i \in 1 .. Len(s3) : s4[i] = s3[i]
      /\ withIXML(f) => s4[Len(s3) + 1] = ixmlChunk(f)
  <2>1. s3 \in Seq(S) /\ ixmlChunk(f) \in S
    BY <1>2, <1>5
  <2>2. CASE withIXML(f)
    BY <2>1, <2>2, OptHere DEF Opt, bit
  <2>3. CASE ~(withIXML(f))
    <3>1. s4 = s3
      BY <2>1, <2>3, OptAbsent DEF Opt
    <3>2. bit(withIXML(f)) = 0
      BY <2>3 DEF bit
    <3> QED  BY <2>1, <2>3, <3>1, <3>2
  <2> QED  BY <1>2, <2>2, <2>3
<1> HIDE DEF s4
<1>7. /\ s5 \in Seq(S) /\ Len(s5) = Len(s4) + bit(f.lay.hasFact)
      /\ \A i \in 1 .. Len(s4) : s5[i] = s4[i]
      /\ f.lay.hasFact => s5[Len(s4) + 1] = factChunk(f)
  <2>1. s4 \in Seq(S) /\ factChunk(f) \in S
    BY <1>2, <1>6
  <2>2. CASE f.lay.hasFact
    BY <2>1, <2>2, OptHere DEF Opt, bit
  <2>3. CASE ~(f.lay.hasFact)
    <3>1. s5 = s4
      BY <2>1, <2>3, OptAbsent DEF Opt
    <3> QED  BY <2>1, <2>3, <3>1 DEF bit
  <2> QED  BY <1>2, <2>2, <2>3
<1> HIDE DEF s5
<1>8. /\ s6 \in Seq(S) /\ Len(s6) = Len(s5) + 1
      /\ \A i \in 1 .. Len(s5) : s6[i] = s5[i]
      /\ s6[Len(s5) + 1] = dataChunk(f)
  BY <1>2, <1>7, OptHere, OptAbsent DEF Opt, bit
<1> HIDE DEF s6
<1>9. /\ Len(s1) = bit(room(f)) /\ Len(s2) = atFmt(f) /\ Len(s3) = atBext(f)
      /\ Len(s4) = atIXML(f) /\ Len(s5) = atFact(f) /\ Len(s6) = atData(f)
  BY <1>3, <1>4, <1>5, <1>6, <1>7, <1>8 DEF atFmt, atBext, atIXML, atFact, atData
<1>10. /\ room(f) => 1 <= Len(s1)
       /\ \A b : bit(b) \in 0 .. 1
  BY <1>3 DEF bit
<1>11. /\ Len(s1) \in Nat /\ Len(s2) \in Nat /\ Len(s3) \in Nat /\ Len(s4) \in Nat
       /\ Len(s5) \in Nat
  BY <1>3, <1>4, <1>5, <1>6, <1>7
<1>12. \A i \in 1 .. Len(s4) : s6[i] = s4[i]
  BY <1>7, <1>8, <1>10, <1>11
<1>13. \A i \in 1 .. Len(s3) : s6[i] = s3[i]
  BY <1>6, <1>10, <1>11, <1>12
<1>14. \A i \in 1 .. Len(s2) : s6[i] = s2[i]
  BY <1>5, <1>10, <1>11, <1>13
<1>15. room(f) => s6[1] = ds64Chunk(f)
  BY <1>3, <1>4, <1>10, <1>11, <1>14 DEF bit
<1>16. s6[atFmt(f)] = fmtChunk(f)
  BY <1>4, <1>9, <1>11, <1>14
<1>17. f.name # "none" => s6[atBext(f)] = bextChunk(f)
  BY <1>5, <1>9, <1>11, <1>13 DEF bit
<1>18. withIXML(f) => s6[atIXML(f)] = ixmlChunk(f)
  BY <1>6, <1>9, <1>11, <1>12 DEF bit
<1>19. f.lay.hasFact => s6[atFact(f)] = factChunk(f)
  BY <1>7, <1>8, <1>9, <1>11 DEF bit
<1>20. s6[atData(f)] = dataChunk(f)
  BY <1>8, <1>9
<1> QED  BY <1>1, <1>9, <1>15, <1>16, <1>17, <1>18, <1>19, <1>20

(* A format the writer accepts: what it derives, and what the reader makes *)
(* of the chunk it writes.                                                 *)
LEMMA WrittenFormat ==
    ASSUME NEW f, CanWriteFmt(f), {f.channels, f.rate, f.validBits} \subseteq Nat,
           f.extensible \in BOOLEAN
    PROVE  /\ f.format \in {"PCM", "Float"} /\ f.bits \in {8, 16, 24, 32, 64}
           /\ BytesPerSample(f.bits) \in 1 .. 8
           /\ blockAlignOf(f) \in Nat \ {0}
           /\ appendFmt(f).len \in {16, 18, 40}
           /\ fmtVerdict(appendFmt(f), appendFmt(f).len) = "ok"
<1>1. f.format \in {"PCM", "Float"} /\ f.bits \in {8, 16, 24, 32, 64}
  BY DEF CanWriteFmt, validateDepth, Companded
<1>2. BytesPerSample(f.bits) \in 1 .. 8
  BY <1>1 DEF BytesPerSample
<1>3. f.channels \in Nat \ {0} /\ f.rate \in Nat \ {0} /\ f.rate <= MaxSampleRate
      /\ validateDepth(f.format, f.bits)
  BY DEF CanWriteFmt
<1>4. blockAlignOf(f) \in Nat \ {0}
  BY <1>2, <1>3 DEF blockAlignOf
<1> DEFINE b == appendFmt(f)
<1>5. b.len = IF needsExtensible(f) THEN 40 ELSE IF f.format # "PCM" THEN 18 ELSE 16
  BY DEF appendFmt, fmtPayloadLen, headerConfig
<1>6. /\ b.channels = f.channels /\ b.rate = f.rate /\ b.bits = f.bits
      /\ b.tag = IF needsExtensible(f) THEN "Extensible" ELSE f.format
      /\ needsExtensible(f) => b.guid = f.format
  BY DEF appendFmt
<1> HIDE DEF b
<1>7. encodingOf(b) = f.format
  BY <1>1, <1>6 DEF encodingOf
<1>8. fmtVerdict(b, b.len) = "ok"
  BY <1>1, <1>3, <1>5, <1>6, <1>7, FmtAssumption DEF fmtVerdict, fmtSizePCM, fmtSizeExtensible, Encodings
<1> QED  BY <1>1, <1>2, <1>4, <1>5, <1>8 DEF b

(* What the header of a written file says.                                 *)
bextLen(f) == IF f.name = "none" THEN 0 ELSE serializedLen(f.bext)
configOf(f) == headerConfig(f.format, bextLen(f), f.ixml)
sizeOf(f) == f.frames * blockAlignOf(f.format)

LEMMA WrittenLayout ==
    ASSUME NEW f, Written(f)
    PROVE  LET head == f.lay.bytes
           IN /\ HasLayout(configOf(f)) /\ bextLen(f) \in Nat /\ f.ixml \in Nat
              /\ f.name # "none" => bextLen(f) > 0
              /\ sizeOf(f) \in Nat /\ f.frames \in Nat /\ (sizeOf(f) = 0 <=> f.frames = 0)
              /\ room(f) \in BOOLEAN /\ f.lay.hasFact = (f.format.format # "PCM")
              /\ f.lay.dataOffset = HeaderLen(configOf(f), room(f))
              /\ head.ds64Id \in {"none", "JUNK", "ds64"}
              /\ head.ds64Id = "ds64" <=> head.magic = "RF64"
              /\ head.blockAlign = blockAlignOf(f.format)
              /\ ~f.lay.hasFact => head.factFrames = 0
              /\ f.frames = 0 => head.factFrames = 0
              /\ head.factFrames \in Nat
              /\ head.magic = "RF64" => /\ head.dataSize = sentinel32
                                        /\ head.ds64DataSize = sizeOf(f)
                                        /\ head.ds64SampleCount = f.frames
              /\ head.magic = "RIFF" => /\ head.dataSize = sizeOf(f)
                                        /\ sizeOf(f) < MaxUint32
<1> DEFINE magic == f.lay.bytes.magic
           reserve == f.lay.bytes.ds64Id = "JUNK"
           c == configOf(f)
           blank == blankLayout(c, magic, reserve)
<1>1. /\ {f.format.channels, f.format.rate, f.format.validBits, f.ixml, f.frames} \subseteq Nat
      /\ f.format.extensible \in BOOLEAN /\ CanWriteFmt(f.format)
      /\ f.name # "none" => f.bext \in BextType
      /\ magic \in Containers
      /\ CanBuild(c, magic, reserve, sizeOf(f))
      /\ f.lay = BuildHeader(c, magic, reserve, sizeOf(f), f.frames)
  BY DEF Written, configOf, bextLen, sizeOf
<1>2. blockAlignOf(f.format) \in Nat \ {0}
  BY <1>1, WrittenFormat
<1>3. sizeOf(f) \in Nat /\ (sizeOf(f) = 0 <=> f.frames = 0)
  <2>1. f.frames \in Nat
    BY <1>1
  <2> QED  BY <1>2, <2>1 DEF sizeOf
<1>4. bextLen(f) \in Nat /\ (f.name # "none" => bextLen(f) > 0)
  <2>1. ASSUME f.bext \in BextType PROVE f.bext.codingHistory \in Seq(Chars)
    BY <2>1 DEF BextType
  <2>2. f.name # "none" => Len(f.bext.codingHistory) \in Nat
    BY <1>1, <2>1
  <2> QED  BY <2>2, BextAssumption DEF bextLen, serializedLen
<1>5. HasLayout(c) /\ c.frame = blockAlignOf(f.format) /\ c.float = (f.format.format # "PCM")
  BY <1>1, <1>2, <1>4 DEF HasLayout, configOf, headerConfig, needsExtensible
<1>6. /\ blank.dataOffset = HeaderLen(c, blank.hasDS64)
      /\ blank.hasDS64 = (Sized64(magic) \/ reserve)
      /\ blank.hasFact = c.float
      /\ blank.bytes.magic = magic
      /\ blank.bytes.ds64Id = IF Sized64(magic) THEN "ds64" ELSE IF reserve THEN "JUNK" ELSE "none"
      /\ blank.bytes.blockAlign = c.frame
      /\ blank.bytes.factFrames = 0
  BY DEF blankLayout, blankHeader, NoHeader
<1>7. CanStamp(blank, magic, sizeOf(f))
  BY <1>1 DEF CanBuild
<1>8. /\ f.lay.dataOffset = blank.dataOffset /\ f.lay.hasFact = blank.hasFact
      /\ f.lay.bytes = writeSizesInto(blank, blank.bytes, magic, sizeOf(f), f.frames)
  BY <1>1 DEF BuildHeader, blankLayout
<1>9. blank.bytes = [magic |-> blank.bytes.magic, riffSize |-> blank.bytes.riffSize,
                     ds64Id |-> blank.bytes.ds64Id, ds64RiffSize |-> blank.bytes.ds64RiffSize,
                     ds64DataSize |-> blank.bytes.ds64DataSize,
                     ds64SampleCount |-> blank.bytes.ds64SampleCount,
                     blockAlign |-> blank.bytes.blockAlign, factFrames |-> blank.bytes.factFrames,
                     dataSize |-> blank.bytes.dataSize]
  BY DEF blankLayout, blankHeader, NoHeader
<1>10. magic \in {"RIFF", "RF64"} /\ (Sized64(magic) <=> magic = "RF64")
  BY <1>1 DEF Containers, Sized64
<1> HIDE DEF c, blank
<1>11. LET head == f.lay.bytes
           fact == IF blank.hasFact THEN IF f.frames > MaxUint32 THEN sentinel32 ELSE f.frames
                   ELSE 0
       IN /\ head.ds64Id = blank.bytes.ds64Id /\ head.blockAlign = c.frame
          /\ head.factFrames = fact
          /\ Sized64(magic) => /\ head.dataSize = sentinel32
                               /\ head.ds64DataSize = sizeOf(f)
                               /\ head.ds64SampleCount = f.frames
          /\ ~Sized64(magic) => head.dataSize = sizeOf(f)
  BY <1>6, <1>8, <1>9 DEF writeSizesInto
<1>12. room(f) = (Sized64(magic) \/ reserve)
  BY <1>6, <1>10, <1>11 DEF room
<1>13. f.lay.dataOffset = HeaderLen(c, room(f)) /\ room(f) \in BOOLEAN
  BY <1>6, <1>8, <1>12
<1>14. magic = "RIFF" => sizeOf(f) < MaxUint32
  <2> SUFFICES ASSUME magic = "RIFF" PROVE sizeOf(f) < MaxUint32
    OBVIOUS
  <2>1. riffSizeFor(blank, sizeOf(f)) <= MaxUint32
    BY <1>7, <1>10 DEF CanStamp
  <2>2. HeaderLen(c, room(f)) \in Nat /\ HeaderLen(c, room(f)) >= 44
    BY <1>5, <1>13, HeaderLenBounds
  <2>3. padded(sizeOf(f)) \in Nat /\ sizeOf(f) <= padded(sizeOf(f))
    BY <1>3, PaddedBounds
  <2>4. HeaderLen(c, room(f)) + padded(sizeOf(f)) - 8 <= MaxUint32
    BY <1>8, <1>13, <2>1 DEF riffSizeFor, riffSizeForLen
  <2> QED  BY <1>3, <2>2, <2>3, <2>4, SizeAssumption
<1>15. /\ ~f.lay.hasFact => f.lay.bytes.factFrames = 0
       /\ f.frames = 0 => f.lay.bytes.factFrames = 0
       /\ f.lay.bytes.factFrames \in Nat
  <2>1. f.frames \in Nat /\ MaxUint32 \in Nat
    BY <1>1, SizeAssumption
  <2> QED  BY <1>8, <1>11, <2>1 DEF sentinel32
<1> QED
  BY <1>1, <1>3, <1>4, <1>5, <1>6, <1>8, <1>10, <1>11, <1>13, <1>14, <1>15 DEF c

(* Each chunk of a written file is one of six, in this order.              *)
LEMMA WrittenWhere ==
    ASSUME NEW f, room(f) \in BOOLEAN, f.lay.hasFact \in BOOLEAN
    PROVE  /\ 1 <= atFmt(f) /\ atFmt(f) <= atBext(f) /\ atBext(f) <= atIXML(f)
           /\ atIXML(f) <= atFact(f) /\ atFact(f) < atData(f)
           /\ {atFmt(f), atBext(f), atIXML(f), atFact(f), atData(f)} \subseteq Nat
           /\ f.name # "none" => atFmt(f) < atBext(f)
           /\ withIXML(f) => atBext(f) < atIXML(f)
           /\ f.lay.hasFact => atIXML(f) < atFact(f)
           /\ \A k \in 1 .. atData(f) :
                 \/ k < atFmt(f) /\ k = 1 /\ room(f)
                 \/ k = atFmt(f)
                 \/ k = atBext(f) /\ f.name # "none"
                 \/ k = atIXML(f) /\ withIXML(f)
                 \/ k = atFact(f) /\ f.lay.hasFact
                 \/ k = atData(f)
<1>1. \A b : bit(b) \in 0 .. 1 /\ (bit(b) = 1 <=> b)
  BY DEF bit
<1>2. atFmt(f) \in 1 .. 2 /\ (atFmt(f) = 2 => room(f))
  BY <1>1 DEF atFmt, bit
<1>3. atBext(f) \in atFmt(f) .. atFmt(f) + 1 /\ (atBext(f) > atFmt(f) <=> f.name # "none")
  BY <1>1, <1>2 DEF atBext, bit
<1>4. atIXML(f) \in atBext(f) .. atBext(f) + 1 /\ (atIXML(f) > atBext(f) <=> withIXML(f))
  BY <1>1, <1>2, <1>3 DEF atIXML, bit
<1>5. atFact(f) \in atIXML(f) .. atIXML(f) + 1 /\ (atFact(f) > atIXML(f) <=> f.lay.hasFact)
  BY <1>1, <1>2, <1>3, <1>4 DEF atFact, bit
<1>6. atData(f) = atFact(f) + 1
  BY DEF atData
<1> QED  BY <1>2, <1>3, <1>4, <1>5, <1>6

(* So the audio begins where the layout says.                              *)
LEMMA WrittenOffsets ==
    ASSUME file \in Files, Written(file)
    PROVE  total = atData(file)
           /\ file.at[atData(file)] = file.lay.dataOffset - ChunkHeaderSize
<1> DEFINE f == file
           c == configOf(f)
<1>1. /\ HasLayout(c) /\ bextLen(f) \in Nat /\ f.ixml \in Nat
      /\ f.name # "none" => bextLen(f) > 0
      /\ room(f) \in BOOLEAN /\ f.lay.hasFact = (f.format.format # "PCM")
      /\ f.lay.dataOffset = HeaderLen(c, room(f))
  BY WrittenLayout
<1>2. f.chunks = headerChunks(f) /\ CanWriteFmt(f.format)
      /\ {f.format.channels, f.format.rate, f.format.validBits} \subseteq Nat
      /\ f.format.extensible \in BOOLEAN
  BY DEF Written
<1>3. room(f) \in BOOLEAN /\ f.lay.hasFact \in BOOLEAN
  BY <1>1
<1>4. /\ total = atData(f)
      /\ room(f) => chunk(1) = ds64Chunk(f)
      /\ chunk(atFmt(f)) = fmtChunk(f)
      /\ f.name # "none" => chunk(atBext(f)) = bextChunk(f)
      /\ withIXML(f) => chunk(atIXML(f)) = ixmlChunk(f)
      /\ f.lay.hasFact => chunk(atFact(f)) = factChunk(f)
  BY <1>2, <1>3, HeaderChunks DEF total, chunk
<1>5. /\ 1 <= atFmt(f) /\ atFmt(f) <= atBext(f) /\ atBext(f) <= atIXML(f)
      /\ atIXML(f) <= atFact(f) /\ atFact(f) < atData(f)
      /\ {atFmt(f), atBext(f), atIXML(f), atFact(f), atData(f)} \subseteq Nat
  <2>1. \A g : room(g) \in BOOLEAN /\ g.lay.hasFact \in BOOLEAN =>
           /\ 1 <= atFmt(g) /\ atFmt(g) <= atBext(g) /\ atBext(g) <= atIXML(g)
           /\ atIXML(g) <= atFact(g) /\ atFact(g) < atData(g)
           /\ {atFmt(g), atBext(g), atIXML(g), atFact(g), atData(g)} \subseteq Nat
    BY WrittenWhere
  <2> QED  BY <1>3, <2>1
<1>6. /\ f.at[1] = FileHeaderSize
      /\ \A k \in 1 .. total : f.at[k + 1] = f.at[k] + extent(chunk(k))
      /\ \A k \in 1 .. total + 1 : f.at[k] \in Nat
  BY ReaderAssumption DEF Contiguous, total, chunk
<1>7. ASSUME NEW n \in Nat, NEW k, k.size = n, k.pad
      PROVE  extent(k) = ChunkHeaderSize + padded(n)
  BY <1>7 DEF extent, padded, ChunkHeaderSize
<1> HIDE DEF f, c
<1>8. f.at[atFmt(f)] = FileHeaderSize + IF room(f) THEN DS64ChunkSize ELSE 0
  <2>1. CASE room(f)
    <3>1. extent(ds64Chunk(f)) = 36
      BY <1>7 DEF ds64Chunk, padded, ChunkHeaderSize
    <3>2. atFmt(f) = 1 + 1 /\ 1 \in 1 .. total
      BY <1>4, <1>5, <2>1 DEF atFmt, bit
    <3> QED  BY <1>4, <1>6, <2>1, <3>1, <3>2 DEF DS64ChunkSize, ChunkHeaderSize, FileHeaderSize
  <2>2. CASE ~room(f)
    BY <1>6, <2>2 DEF atFmt, bit, FileHeaderSize
  <2> QED  BY <2>1, <2>2
<1>9. f.at[atFmt(f) + 1] = f.at[atFmt(f)] + ChunkHeaderSize + fmtPayloadLen(c)
  <2>1. appendFmt(f.format).len = fmtPayloadLen(c) /\ fmtPayloadLen(c) \in {16, 18, 40}
    BY DEF c, appendFmt, configOf, fmtPayloadLen, headerConfig
  <2>2. padded(fmtPayloadLen(c)) = fmtPayloadLen(c) /\ fmtPayloadLen(c) \in Nat
    BY <2>1 DEF padded
  <2>3. extent(fmtChunk(f)) = ChunkHeaderSize + fmtPayloadLen(c)
    BY <1>7, <2>1, <2>2 DEF fmtChunk
  <2>4. atFmt(f) \in 1 .. total /\ f.at[atFmt(f)] \in Nat
    BY <1>4, <1>5, <1>6
  <2> QED  BY <1>4, <1>6, <2>2, <2>3, <2>4 DEF ChunkHeaderSize
<1>10. f.at[atBext(f) + 1] = f.at[atFmt(f) + 1] + metaLen(bextLen(f))
  <2>1. CASE f.name # "none"
    <3>1. extent(bextChunk(f)) = metaLen(bextLen(f))
      BY <1>1, <1>7, <2>1 DEF bextChunk, metaLen, bextLen
    <3>2. atBext(f) = atFmt(f) + 1 /\ atBext(f) \in 1 .. total
      BY <1>4, <1>5, <2>1 DEF atBext, bit
    <3> QED  BY <1>4, <1>6, <2>1, <3>1, <3>2
  <2>2. CASE f.name = "none"
    <3>1. atBext(f) = atFmt(f) /\ f.at[atFmt(f) + 1] \in Nat
      BY <1>4, <1>5, <1>6, <2>2 DEF atBext, bit
    <3>2. metaLen(bextLen(f)) = 0
      BY <2>2 DEF bextLen, metaLen
    <3> QED  BY <3>1, <3>2
  <2> QED  BY <2>1, <2>2
<1>11. f.at[atIXML(f) + 1] = f.at[atBext(f) + 1] + metaLen(f.ixml)
  <2>1. CASE withIXML(f)
    <3>1. extent(ixmlChunk(f)) = metaLen(f.ixml)
      BY <1>1, <1>7, <2>1 DEF ixmlChunk, metaLen, withIXML
    <3>2. atIXML(f) = atBext(f) + 1 /\ atIXML(f) \in 1 .. total
      BY <1>4, <1>5, <2>1 DEF atIXML, bit
    <3> QED  BY <1>4, <1>6, <2>1, <3>1, <3>2
  <2>2. CASE ~withIXML(f)
    <3>1. atIXML(f) = atBext(f) /\ f.at[atBext(f) + 1] \in Nat
      BY <1>4, <1>5, <1>6, <2>2 DEF atIXML, bit
    <3>2. metaLen(f.ixml) = 0
      BY <2>2 DEF withIXML, metaLen
    <3> QED  BY <3>1, <3>2
  <2> QED  BY <2>1, <2>2
<1>12. f.at[atFact(f) + 1]
          = f.at[atIXML(f) + 1] + IF f.lay.hasFact THEN ChunkHeaderSize + factPayloadSize ELSE 0
  <2>1. CASE f.lay.hasFact
    <3>1. padded(factPayloadSize) = factPayloadSize /\ factPayloadSize \in Nat
      BY DEF padded, factPayloadSize
    <3>2. extent(factChunk(f)) = ChunkHeaderSize + factPayloadSize
      BY <1>7, <3>1 DEF factChunk
    <3>3. atFact(f) = atIXML(f) + 1 /\ atFact(f) \in 1 .. total
      BY <1>4, <1>5, <2>1 DEF atFact, bit
    <3> QED  BY <1>4, <1>6, <2>1, <3>2, <3>3
  <2>2. CASE ~f.lay.hasFact
    <3>1. atFact(f) = atIXML(f) /\ f.at[atIXML(f) + 1] \in Nat
      BY <1>4, <1>5, <1>6, <2>2 DEF atFact, bit
    <3> QED  BY <2>2, <3>1
  <2> QED  BY <1>3, <2>1, <2>2 DEF f
<1>13. f.at[atData(f)] = HeaderLen(c, room(f)) - ChunkHeaderSize
  <2>1. metaLen(bextLen(f)) \in Nat /\ metaLen(f.ixml) \in Nat
    BY <1>1, PaddedBounds DEF metaLen, ChunkHeaderSize, f
  <2>2. /\ c.bext = bextLen(f) /\ c.ixml = f.ixml /\ c.float = f.lay.hasFact
    BY <1>1 DEF c, configOf, headerConfig, f
  <2>3. fmtPayloadLen(c) \in Nat
    BY DEF fmtPayloadLen
  <2>4. f.at[atData(f)] = f.at[atFact(f) + 1]
    BY DEF atData
  <2> QED
    BY <1>8, <1>9, <1>10, <1>11, <1>12, <2>1, <2>2, <2>3, <2>4
       DEF HeaderLen, FileHeaderSize, DS64ChunkSize, ChunkHeaderSize, factPayloadSize
<1> QED  BY <1>1, <1>4, <1>13 DEF f, c

(* What its chunk list says, then, is what was asked for.                  *)
LEMMA WrittenSays ==
    ASSUME file \in Files, Written(file)
    PROVE  /\ ~Damaged /\ AudioStart = file.lay.dataOffset
           /\ parseFmt(chunk(Max(Before("fmt"))).body) = parseFmt(appendFmt(file.format))
           /\ \A k \in Before("bext") : chunk(k) = bextChunk(file) /\ file.name # "none"
           /\ resolveDataSize(Said) = IF file.frames = 0 THEN sizeUnknown ELSE sizeOf(file)
           /\ resolveFrames(Said) = file.frames
<1> DEFINE f == file
           head == f.lay.bytes
           isFmt(k) == k = atFmt(f)
           isDS64(k) == k = 1 /\ k < atFmt(f) /\ head.ds64Id = "ds64"
           isBext(k) == k = atBext(f) /\ f.name # "none"
           isFact(k) == k = atFact(f) /\ f.lay.hasFact
<1>1. /\ sizeOf(f) \in Nat /\ f.frames \in Nat /\ (sizeOf(f) = 0 <=> f.frames = 0)
      /\ room(f) \in BOOLEAN /\ f.lay.hasFact = (f.format.format # "PCM")
      /\ head.ds64Id \in {"none", "JUNK", "ds64"}
      /\ head.ds64Id = "ds64" <=> head.magic = "RF64"
      /\ ~f.lay.hasFact => head.factFrames = 0
      /\ f.frames = 0 => head.factFrames = 0
      /\ head.factFrames \in Nat
      /\ head.magic = "RF64" => /\ head.dataSize = sentinel32
                                /\ head.ds64DataSize = sizeOf(f)
                                /\ head.ds64SampleCount = f.frames
      /\ head.magic = "RIFF" => head.dataSize = sizeOf(f) /\ sizeOf(f) < MaxUint32
  BY WrittenLayout
<1>2. /\ f.chunks = headerChunks(f) /\ CanWriteFmt(f.format)
      /\ {f.format.channels, f.format.rate, f.format.validBits} \subseteq Nat
      /\ f.format.extensible \in BOOLEAN
      /\ f.magic = head.magic /\ head.magic \in {"RIFF", "RF64"} /\ sizeOf(f) <= MaxDataSize
  BY DEF Written, Containers, sizeOf
<1>3. /\ blockAlignOf(f.format) \in Nat \ {0} /\ appendFmt(f.format).len \in {16, 18, 40}
      /\ fmtVerdict(appendFmt(f.format), appendFmt(f.format).len) = "ok"
  BY <1>2, WrittenFormat
<1>4. room(f) \in BOOLEAN /\ f.lay.hasFact \in BOOLEAN
  BY <1>1
<1>5. /\ total = atData(f)
      /\ room(f) => chunk(1) = ds64Chunk(f)
      /\ chunk(atFmt(f)) = fmtChunk(f)
      /\ f.name # "none" => chunk(atBext(f)) = bextChunk(f)
      /\ withIXML(f) => chunk(atIXML(f)) = ixmlChunk(f)
      /\ f.lay.hasFact => chunk(atFact(f)) = factChunk(f)
      /\ chunk(atData(f)) = dataChunk(f)
  BY <1>2, <1>4, HeaderChunks DEF total, chunk
<1>6. /\ 1 <= atFmt(f) /\ atFmt(f) <= atBext(f) /\ atBext(f) <= atIXML(f)
      /\ atIXML(f) <= atFact(f) /\ atFact(f) < atData(f)
      /\ {atFmt(f), atBext(f), atIXML(f), atFact(f), atData(f)} \subseteq Nat
      /\ f.name # "none" => atFmt(f) < atBext(f)
      /\ withIXML(f) => atBext(f) < atIXML(f)
      /\ f.lay.hasFact => atIXML(f) < atFact(f)
  <2>1. \A g : room(g) \in BOOLEAN /\ g.lay.hasFact \in BOOLEAN =>
           /\ 1 <= atFmt(g) /\ atFmt(g) <= atBext(g) /\ atBext(g) <= atIXML(g)
           /\ atIXML(g) <= atFact(g) /\ atFact(g) < atData(g)
           /\ {atFmt(g), atBext(g), atIXML(g), atFact(g), atData(g)} \subseteq Nat
           /\ g.name # "none" => atFmt(g) < atBext(g)
           /\ withIXML(g) => atBext(g) < atIXML(g)
           /\ g.lay.hasFact => atIXML(g) < atFact(g)
    BY WrittenWhere
  <2> QED  BY <1>4, <2>1
<1>7. \A k \in 1 .. atData(f) :
         \/ k < atFmt(f) /\ k = 1 /\ room(f)
         \/ k = atFmt(f)
         \/ k = atBext(f) /\ f.name # "none"
         \/ k = atIXML(f) /\ withIXML(f)
         \/ k = atFact(f) /\ f.lay.hasFact
         \/ k = atData(f)
  <2>1. \A g : room(g) \in BOOLEAN /\ g.lay.hasFact \in BOOLEAN =>
         \A k \in 1 .. atData(g) :
            \/ k < atFmt(g) /\ k = 1 /\ room(g)
            \/ k = atFmt(g)
            \/ k = atBext(g) /\ g.name # "none"
            \/ k = atIXML(g) /\ withIXML(g)
            \/ k = atFact(g) /\ g.lay.hasFact
            \/ k = atData(g)
    BY WrittenWhere
  <2> QED  BY <1>4, <2>1
<1>8. /\ ds64Chunk(f).id = head.ds64Id /\ fmtChunk(f).id = "fmt" /\ bextChunk(f).id = "bext"
      /\ ixmlChunk(f).id = "iXML" /\ factChunk(f).id = "fact" /\ dataChunk(f).id = "data"
  BY DEF ds64Chunk, fmtChunk, bextChunk, ixmlChunk, factChunk, dataChunk
<1> HIDE DEF f
<1>9. ASSUME NEW k \in 1 .. atData(f)
      PROVE  /\ chunk(k).id = "data" <=> k = atData(f)
             /\ k < atData(f) => /\ chunk(k).id = "fmt" <=> isFmt(k)
                                 /\ chunk(k).id = "ds64" <=> isDS64(k)
                                 /\ chunk(k).id = "bext" <=> isBext(k)
                                 /\ chunk(k).id = "fact" <=> isFact(k)
  <2>1. CASE k < atFmt(f) /\ k = 1 /\ room(f)
    BY <1>1, <1>5, <1>6, <1>8, <2>1 DEF f
  <2>2. CASE k = atFmt(f)
    BY <1>5, <1>6, <1>8, <2>2
  <2>3. CASE k = atBext(f) /\ f.name # "none"
    BY <1>5, <1>6, <1>8, <2>3
  <2>4. CASE k = atIXML(f) /\ withIXML(f)
    BY <1>5, <1>6, <1>8, <2>4
  <2>5. CASE k = atFact(f) /\ f.lay.hasFact
    BY <1>5, <1>6, <1>8, <2>5
  <2>6. CASE k = atData(f)
    BY <1>5, <1>6, <1>8, <2>6
  <2> QED  BY <1>7, <2>1, <2>2, <2>3, <2>4, <2>5, <2>6
<1>10. /\ heldLen(fmtChunk(f)) = appendFmt(f.format).len /\ fmtChunk(f).body = appendFmt(f.format)
       /\ heldLen(ds64Chunk(f)) = 28 /\ heldLen(factChunk(f)) = factPayloadSize
  BY <1>3, ReaderAssumption
     DEF heldLen, fmtChunk, ds64Chunk, factChunk, fmtSizeExtensible, factPayloadSize, f
<1>11. SoundTo(atData(f))
  <2> SUFFICES ASSUME NEW j \in 1 .. atData(f) - 1
               PROVE  /\ chunk(j).id # "data"
                      /\ chunk(j).id = "fmt" => fmtVerdict(chunk(j).body, heldLen(chunk(j))) = "ok"
                      /\ chunk(j).id = "ds64" => heldLen(chunk(j)) >= 28
    BY DEF SoundTo
  <2>1. j \in 1 .. atData(f) /\ j < atData(f)
    BY <1>6
  <2>2. chunk(j).id # "data" /\ (chunk(j).id = "fmt" => j = atFmt(f))
        /\ (chunk(j).id = "ds64" => j = 1 /\ head.ds64Id = "ds64")
    BY <1>6, <1>9, <2>1
  <2>3. head.ds64Id = "ds64" => room(f)
    BY DEF room
  <2> QED  BY <1>3, <1>5, <1>10, <2>2, <2>3 DEF f
<1>12. FirstData = atData(f) /\ HasData
  <2>1. atData(f) \in 1 .. total /\ chunk(atData(f)).id = "data"
    BY <1>5, <1>6, <1>8
  <2>2. FirstData = atData(f)
    BY <1>11, <2>1, FirstDataBounds
  <2> QED  BY <1>5, <1>6, <2>2 DEF HasData, total
<1>13. \A id : Before(id) = {k \in 1 .. atData(f) - 1 : chunk(k).id = id}
  BY <1>12 DEF Before, chunk
<1>14. \A k \in 1 .. atData(f) - 1 : k \in 1 .. atData(f) /\ k < atData(f)
  BY <1>6
<1>15. Before("fmt") = {atFmt(f)}
  <2>1. atFmt(f) \in 1 .. atData(f) - 1
    BY <1>6
  <2> QED  BY <1>9, <1>13, <1>14, <2>1
<1>16. Before("ds64") = IF head.ds64Id = "ds64" THEN {1} ELSE {}
  <2>1. head.ds64Id = "ds64" => 1 \in 1 .. atData(f) - 1 /\ 1 < atFmt(f)
    <3>1. head.ds64Id = "ds64" => room(f)
      BY DEF room
    <3> QED  BY <1>6, <3>1 DEF atFmt, bit
  <2> QED  BY <1>9, <1>13, <1>14, <2>1
<1>17. \A k \in Before("bext") : chunk(k) = bextChunk(f) /\ f.name # "none"
  BY <1>5, <1>9, <1>13, <1>14
<1>18. LongEnough("fact", factPayloadSize) = IF f.lay.hasFact THEN {atFact(f)} ELSE {}
  <2>1. f.lay.hasFact => atFact(f) \in 1 .. atData(f) - 1
    BY <1>6
  <2>2. Before("fact") = IF f.lay.hasFact THEN {atFact(f)} ELSE {}
    BY <1>4, <1>9, <1>13, <1>14, <2>1
  <2>3. factPayloadSize >= factPayloadSize
    BY DEF factPayloadSize
  <2> QED  BY <1>5, <1>10, <2>2, <2>3 DEF LongEnough
<1>19. \A x : Max({x}) = x /\ Min({x}) = x
  BY DEF Max, Min
<1>20. ~Damaged
  <2>1. file.magic = head.magic /\ head.magic \in {"RIFF", "RF64"}
    BY <1>2 DEF f
  <2>2. Sized64(file.magic) => Before("ds64") # {}
    BY <1>1, <1>16, <2>1 DEF Sized64
  <2>3. Before("ds64") = LongEnough("ds64", 28)
    <3>1. head.ds64Id = "ds64" => chunk(1) = ds64Chunk(f)
      BY <1>5 DEF room
    <3> QED  BY <1>10, <1>16, <3>1 DEF LongEnough
  <2>4. \A k \in Before("fmt") : fmtVerdict(chunk(k).body, heldLen(chunk(k))) = "ok"
    BY <1>3, <1>5, <1>10, <1>15
  <2> QED  BY <1>12, <1>15, <2>1, <2>2, <2>3, <2>4 DEF Damaged
<1>21. AudioStart = file.lay.dataOffset
  <2>1. file.at[atData(f)] = file.lay.dataOffset - ChunkHeaderSize
    BY WrittenOffsets DEF f
  <2>2. file.lay.dataOffset \in Nat
    BY WrittenLayout, HeaderLenBounds
  <2> QED  BY <1>12, <2>1, <2>2 DEF AudioStart, ChunkHeaderSize
<1>22. chunk(Max(Before("fmt"))).body = appendFmt(f.format)
  BY <1>5, <1>10, <1>15, <1>19
<1>23. /\ Said.magic = head.magic /\ Said.blockAlign = blockAlignOf(f.format)
       /\ Said.dataSize = head.dataSize
       /\ Said.factFrames = head.factFrames
       /\ Said.ds64Id = IF head.ds64Id = "ds64" THEN "ds64" ELSE "none"
       /\ head.ds64Id = "ds64" => /\ Said.ds64DataSize = head.ds64DataSize
                                  /\ Said.ds64SampleCount = head.ds64SampleCount
  <2>1. parseFmt(appendFmt(f.format)).blockAlign = blockAlignOf(f.format)
    BY DEF parseFmt, appendFmt, blockAlignOf
  <2>2. f.lay.hasFact => chunk(atFact(f)).body.frames = head.factFrames
    BY <1>5 DEF factChunk
  <2>3. head.ds64Id = "ds64" => chunk(1).body.dataSize = head.ds64DataSize
                                /\ chunk(1).body.sampleCount = head.ds64SampleCount
    BY <1>5 DEF room, ds64Chunk
  <2>4. chunk(FirstData).size = head.dataSize
    BY <1>5, <1>12 DEF dataChunk
  <2>5. file.magic = head.magic /\ (~f.lay.hasFact => head.factFrames = 0)
    BY <1>1, <1>2 DEF f
  <2>6. Said.factFrames = head.factFrames
    BY <1>4, <1>18, <1>19, <2>2, <2>5 DEF Said
  <2>7. head.ds64Id = "ds64" => Said.ds64DataSize = chunk(1).body.dataSize
                                /\ Said.ds64SampleCount = chunk(1).body.sampleCount
    BY <1>16, <1>19 DEF Said
  <2>8. Said.ds64Id = IF head.ds64Id = "ds64" THEN "ds64" ELSE "none"
    BY <1>16 DEF Said
  <2> QED  BY <1>22, <2>1, <2>3, <2>4, <2>5, <2>6, <2>7, <2>8 DEF Said
<1> DEFINE said == Said
<1> HIDE DEF said
<1>24. resolveDataSize(said) = IF f.frames = 0 THEN sizeUnknown ELSE sizeOf(f)
  <2>1. CASE head.magic = "RF64"
    BY <1>1, <1>2, <1>23, <2>1, SizeAssumption
       DEF resolveDataSize, haveDS64, Sized64, said, f
  <2>2. CASE head.magic = "RIFF"
    BY <1>1, <1>2, <1>23, <2>2, SizeAssumption
       DEF resolveDataSize, haveDS64, Sized64, sentinel32, said, f
  <2> QED  BY <1>2, <2>1, <2>2 DEF f
<1>25. resolveFrames(said) = f.frames
  <2>1. CASE f.frames = 0
    <3>1. boundedFrames(0, said.blockAlign) = 0
      <4>1. boundedFrames(0, said.blockAlign) \in {0}
        BY DEF boundedFrames
      <4> QED  BY <4>1
    <3>2. haveDS64(said) => said.ds64SampleCount = 0
      BY <1>1, <1>23, <2>1 DEF haveDS64, said, f
    <3>3. said.factFrames = 0
      BY <1>1, <1>23, <2>1 DEF said, f
    <3> QED  BY <1>24, <2>1, <3>1, <3>2, <3>3 DEF resolveFrames
  <2>2. CASE f.frames # 0
    <3>1. resolveDataSize(said) = sizeOf(f) /\ sizeOf(f) # sizeUnknown
          /\ said.blockAlign = blockAlignOf(f.format)
      BY <1>1, <1>23, <1>24, <2>2 DEF sizeUnknown, said, f
    <3>2. sizeOf(f) = f.frames * blockAlignOf(f.format) + 0
      BY <1>1, <1>3 DEF sizeOf, f
    <3>3. sizeOf(f) \div blockAlignOf(f.format) = f.frames
      BY <1>1, <1>3, <3>2, DivIs DEF f
    <3> QED  BY <1>3, <3>1, <3>3 DEF resolveFrames, f
  <2> QED  BY <2>1, <2>2
<1> QED  BY <1>17, <1>20, <1>21, <1>22, <1>24, <1>25 DEF said, f

(* The format comes back with its defaults filled in.                      *)
LEMMA FormatReadsBack ==
    ASSUME NEW f, CanWriteFmt(f), {f.channels, f.rate, f.validBits} \subseteq Nat,
           f.extensible \in BOOLEAN
    PROVE  LET r == parseFmt(appendFmt(f))
           IN /\ \A field \in {"rate", "channels", "bits", "format"} : r[field] = f[field]
              /\ r.blockAlign = blockAlignOf(f)
              /\ r.extensible = needsExtensible(f)
              /\ needsExtensible(f) =>
                    /\ r.validBits \in 1 .. f.bits
                    /\ f.validBits \in 1 .. f.bits => r.validBits = f.validBits
                    /\ r.mask = IF f.mask = {} THEN ConventionalChannelMask(f.channels) ELSE f.mask
<1> DEFINE b == appendFmt(f)
           r == parseFmt(b)
<1>1. f.format \in {"PCM", "Float"} /\ f.bits \in {8, 16, 24, 32, 64} /\ f.validBits \in Nat
  BY WrittenFormat
<1>2. /\ b.channels = f.channels /\ b.rate = f.rate /\ b.bits = f.bits
      /\ b.tag = IF needsExtensible(f) THEN "Extensible" ELSE f.format
      /\ needsExtensible(f) =>
            /\ b.guid = f.format
            /\ b.validBits = IF f.validBits > 0 /\ f.validBits <= f.bits THEN f.validBits ELSE f.bits
            /\ b.mask = IF f.mask = {} THEN ConventionalChannelMask(f.channels) ELSE f.mask
  BY DEF appendFmt
<1> HIDE DEF b
<1>3. b.tag = "Extensible" <=> needsExtensible(f)
  BY <1>1, <1>2
<1>4. encodingOf(b) = f.format
  BY <1>2, <1>3 DEF encodingOf
<1>5. /\ r.rate = f.rate /\ r.channels = f.channels /\ r.bits = f.bits /\ r.format = f.format
      /\ r.blockAlign = blockAlignOf(f)
      /\ r.extensible = (b.tag = "Extensible")
  BY <1>2, <1>4 DEF parseFmt, blockAlignOf
<1>6. r.extensible = needsExtensible(f)
  <2>1. needsExtensible(f) \in BOOLEAN
    BY DEF needsExtensible
  <2> QED  BY <1>3, <1>5, <2>1
<1>7. ASSUME needsExtensible(f)
      PROVE  /\ r.validBits \in 1 .. f.bits
             /\ f.validBits \in 1 .. f.bits => r.validBits = f.validBits
             /\ r.mask = IF f.mask = {} THEN ConventionalChannelMask(f.channels) ELSE f.mask
  <2>1. r.validBits = b.validBits
    BY <1>1, <1>2, <1>3, <1>7 DEF parseFmt
  <2>2. r.mask = b.mask
    BY <1>3, <1>7 DEF parseFmt
  <2> QED  BY <1>1, <1>2, <1>7, <2>1, <2>2
<1> QED  BY <1>5, <1>6, <1>7 DEF b

(* Theorem: whatever Config the writer accepts, its header is accepted     *)
(* when all of it can be read, with the format that was asked for, the     *)
(* length that was stamped and the audio where the layout has it           *)
(* (BuildHeader, writer.go:79-211, against ParseHeader, reader.go:65-209). *)
THEOREM HeadersReadBack == Spec => []WrittenHeadersReadBack
<1>1. RInv /\ AcceptedMeansWholeHeader /\ ErrorsAreNotDamage => WrittenHeadersReadBack
  <2> DEFINE f == file.format
             extensible == needsExtensible(f)
  <2> SUFFICES ASSUME RInv, AcceptedMeansWholeHeader, ErrorsAreNotDamage,
                      file.lay # NoLayout, verdict \notin {"none", "ioerror"},
                      source.at >= file.lay.dataOffset, ~swallowed
               PROVE  /\ verdict = "ok"
                      /\ pos = file.lay.dataOffset
                      /\ \A field \in {"rate", "channels", "bits", "format"} :
                            seen.fmt[field] = f[field]
                      /\ seen.fmt.blockAlign = file.lay.bytes.blockAlign
                      /\ seen.fmt.extensible = extensible
                      /\ extensible =>
                            /\ seen.fmt.validBits \in 1 .. f.bits
                            /\ f.validBits \in 1 .. f.bits => seen.fmt.validBits = f.validBits
                            /\ seen.fmt.mask = IF f.mask = {}
                                               THEN ConventionalChannelMask(f.channels) ELSE f.mask
                      /\ seen.dataSize = IF file.frames = 0 THEN sizeUnknown
                                         ELSE file.frames * seen.fmt.blockAlign
                      /\ TotalFrames = file.frames
    BY DEF WrittenHeadersReadBack
  <2>1. file \in Files /\ RTypeOK /\ source.at \in Nat
    BY Parts
  <2>2. Written(file)
    BY <2>1, ReaderAssumption
  <2>3. /\ ~Damaged /\ AudioStart = file.lay.dataOffset
        /\ parseFmt(chunk(Max(Before("fmt"))).body) = parseFmt(appendFmt(f))
        /\ resolveDataSize(Said) = IF file.frames = 0 THEN sizeUnknown ELSE sizeOf(file)
        /\ resolveFrames(Said) = file.frames
    BY <2>1, <2>2, WrittenSays
  <2>4. verdict = "ok"
    <3>1. file.lay.dataOffset \in Nat
      BY <2>2, WrittenLayout, HeaderLenBounds
    <3>2. ~(source.at < AudioStart)
      BY <2>1, <2>3, <3>1
    <3>3. verdict \notin {"corrupt", "unsupported", "notRIFF"}
      BY <2>3, <3>2 DEF ErrorsAreNotDamage
    <3> QED  BY <2>1, <3>3 DEF RTypeOK
  <2>5. /\ pos = AudioStart
        /\ seen.fmt = parseFmt(chunk(Max(Before("fmt"))).body)
        /\ seen.dataSize = resolveDataSize(Said)
        /\ TotalFrames = resolveFrames(Said)
    BY <2>4 DEF AcceptedMeansWholeHeader
  <2>6. /\ CanWriteFmt(f) /\ {f.channels, f.rate, f.validBits} \subseteq Nat
        /\ f.extensible \in BOOLEAN
    BY <2>2 DEF Written
  <2>7. seen.fmt = parseFmt(appendFmt(f))
    BY <2>3, <2>5
  <2>8. /\ \A field \in {"rate", "channels", "bits", "format"} : seen.fmt[field] = f[field]
        /\ seen.fmt.blockAlign = blockAlignOf(f)
        /\ seen.fmt.extensible = needsExtensible(f)
        /\ needsExtensible(f) =>
              /\ seen.fmt.validBits \in 1 .. f.bits
              /\ f.validBits \in 1 .. f.bits => seen.fmt.validBits = f.validBits
              /\ seen.fmt.mask = IF f.mask = {} THEN ConventionalChannelMask(f.channels) ELSE f.mask
    BY <2>6, <2>7, FormatReadsBack
  <2>9. file.lay.bytes.blockAlign = blockAlignOf(f)
    BY <2>2, WrittenLayout
  <2> QED  BY <2>3, <2>4, <2>5, <2>8, <2>9 DEF sizeOf
<1> QED  BY <1>1, ReaderInvariant, AcceptedIsWhole, RefusalsAreJust, PTL


-----------------------------------------------------------------------------
(* Descriptions.                                                           *)

(* A text is cut at its first NUL.                                         *)
LEMMA FirstNUL ==
    ASSUME NEW s \in Seq(Chars), "NUL" \in Range(s)
    PROVE  LET n == SelectInSeq(s, LAMBDA c : c = "NUL")
           IN n \in 1 .. Len(s) /\ s[n] = "NUL" /\ \A i \in 1 .. n - 1 : s[i] # "NUL"
<1> DEFINE I == {i \in 1 .. Len(s) : s[i] = "NUL"}
<1>1. SelectInSeq(s, LAMBDA c : c = "NUL") = IF I # {} THEN Min(I) ELSE 0
  BY DEF SelectInSeq
<1>2. I \subseteq Nat /\ I # {}
  BY DEF Range
<1>3. Min(I) \in I /\ \A y \in I : Min(I) <= y
  BY <1>2, Least
<1>4. \A i \in 1 .. Min(I) - 1 : i \notin I
  BY <1>2, <1>3
<1> QED  BY <1>1, <1>2, <1>3, <1>4

LEMMA CutIs ==
    ASSUME NEW s \in Seq(Chars)
    PROVE  /\ cutAtNUL(s) \in Seq(Chars) /\ Len(cutAtNUL(s)) <= Len(s)
           /\ "NUL" \notin Range(cutAtNUL(s)) /\ Range(cutAtNUL(s)) \subseteq Range(s)
           /\ "NUL" \notin Range(s) => cutAtNUL(s) = s
<1> DEFINE n == IF "NUL" \in Range(s) THEN SelectInSeq(s, LAMBDA c : c = "NUL") - 1 ELSE Len(s)
<1>1. n \in 0 .. Len(s) /\ \A i \in 1 .. n : s[i] # "NUL"
  BY FirstNUL DEF Range
<1>2. cutAtNUL(s) = SubSeq(s, 1, n)
  BY DEF cutAtNUL
<1> HIDE DEF n
<1>3. cutAtNUL(s) \in Seq(Chars) /\ Len(cutAtNUL(s)) = n /\ \A i \in 1 .. n : cutAtNUL(s)[i] = s[i]
  BY <1>1, <1>2
<1>4. "NUL" \notin Range(cutAtNUL(s)) /\ Range(cutAtNUL(s)) \subseteq Range(s)
  BY <1>1, <1>3 DEF Range
<1>5. "NUL" \notin Range(s) => n = Len(s)
  BY DEF n
<1> QED  BY <1>1, <1>3, <1>4, <1>5

(* So the padding of a field is cut off again, and nothing else.           *)
LEMMA CutPadded ==
    ASSUME NEW t \in Seq(Chars), "NUL" \notin Range(t), NEW w \in Nat
    PROVE  cutAtNUL(appendPadded(t, w)) = fitting(t, w)
<1> DEFINE s == fitting(t, w)
           pad == [i \in 1 .. w - Len(s) |-> "NUL"]
           p == appendPadded(t, w)
<1>0. s \in Seq(Chars) /\ Len(s) <= w /\ "NUL" \notin Range(s)
  <2>1. CASE Len(t) <= w
    BY <2>1 DEF fitting
  <2>2. CASE Len(t) > w
    <3>1. s = SubSeq(t, 1, w) /\ \A i \in 1 .. w : t[i] # "NUL"
      BY <2>2 DEF fitting, Range
    <3>2. s \in Seq(Chars) /\ Len(s) = w /\ \A i \in 1 .. w : s[i] = t[i]
      BY <2>2, <3>1
    <3> QED  BY <3>1, <3>2 DEF Range
  <2> QED  BY <2>1, <2>2
<1>2. p = s \o pad
  BY DEF appendPadded
<1> HIDE DEF s
<1>1. pad \in Seq(Chars) /\ Len(pad) = w - Len(s)
  BY <1>0 DEF Chars
<1>3. /\ p \in Seq(Chars) /\ Len(p) = w
      /\ \A i \in 1 .. Len(s) : p[i] = s[i] /\ p[i] # "NUL"
      /\ \A i \in Len(s) + 1 .. w : p[i] = "NUL"
  <2>1. p \in Seq(Chars) /\ Len(p) = w
    BY <1>0, <1>1, <1>2
  <2>2. \A i \in 1 .. Len(s) : p[i] = s[i] /\ s[i] # "NUL"
    BY <1>0, <1>1, <1>2 DEF Range
  <2>3. ASSUME NEW i \in Len(s) + 1 .. w PROVE p[i] = "NUL"
    <3>1. i - Len(s) \in 1 .. w - Len(s) /\ p[i] = pad[i - Len(s)]
      BY <1>0, <1>1, <1>2
    <3> QED  BY <3>1
  <2> QED  BY <2>1, <2>2, <2>3
<1> HIDE DEF p, pad
<1>4. CASE Len(s) = w
  <2>1. p = s
    BY <1>0, <1>3, <1>4
  <2> QED  BY <1>0, <2>1, CutIs DEF p, s
<1>5. CASE Len(s) < w
  <2> DEFINE n == SelectInSeq(p, LAMBDA c : c = "NUL")
  <2>1. Len(s) + 1 \in 1 .. w /\ p[Len(s) + 1] = "NUL"
    BY <1>0, <1>3, <1>5
  <2>2. "NUL" \in Range(p)
    BY <1>3, <2>1 DEF Range
  <2>3. n \in 1 .. w /\ p[n] = "NUL" /\ \A i \in 1 .. n - 1 : p[i] # "NUL"
    BY <1>3, <2>2, FirstNUL
  <2> HIDE DEF n
  <2>4. n = Len(s) + 1
    BY <1>0, <1>3, <2>1, <2>3
  <2>5. cutAtNUL(p) = SubSeq(p, 1, Len(s))
    BY <2>2, <2>4 DEF cutAtNUL, n
  <2>6. SubSeq(p, 1, Len(s)) = s
    BY <1>0, <1>3, <1>5
  <2> QED  BY <2>5, <2>6 DEF p, s
<1> QED  BY <1>0, <1>4, <1>5

(* Two words hold the time reference.                                      *)
LEMMA TwoWords ==
    ASSUME NEW t \in Uint64
    PROVE  (t % WordSize) + ((t \div WordSize) % WordSize) * WordSize = t
<1> DEFINE d == t \div WordSize
           r == t % WordSize
<1>1. WordSize \in Nat \ {0}
  BY BextAssumption
<1>2. t \in Nat /\ t < WordSize * WordSize
  BY <1>1 DEF Uint64
<1>3. d \in Nat /\ r \in Nat /\ r < WordSize /\ t = d * WordSize + r
  BY <1>1, <1>2, DivMod
<1> HIDE DEF d, r
<1>4. d < WordSize
  <2> SUFFICES ASSUME d >= WordSize PROVE FALSE
    BY <1>1, <1>3
  <2>1. (d - WordSize) * WordSize >= 0
        /\ (d - WordSize) * WordSize = d * WordSize - WordSize * WordSize
    BY <1>1, <1>3
  <2>2. d * WordSize \in Nat /\ WordSize * WordSize \in Nat
    BY <1>1, <1>3
  <2> QED  BY <1>2, <1>3, <2>1, <2>2
<1>5. d % WordSize = d
  BY <1>1, <1>3, <1>4
<1>6. d * WordSize \in Nat
  BY <1>1, <1>3
<1> QED  BY <1>3, <1>5, <1>6 DEF d, r

(* A negative level is stored as its two's complement.                     *)
LEMMA SignKept ==
    ASSUME NEW l, l \in Int16
    PROVE  getInt16LE(putInt16LE(l)) = l
<1>1. l \in Int /\ 0 - 32768 <= l /\ l <= 32767
  BY DEF Int16
<1>2. CASE l >= 0
  <2>1. l % 65536 = l /\ l < 32768
    BY <1>1, <1>2
  <2> QED  BY <1>1, <2>1 DEF getInt16LE, putInt16LE
<1>3. CASE l < 0
  <2>1. l % 65536 = l + 65536 /\ l + 65536 >= 32768
    BY <1>1, <1>3
  <2> QED  BY <1>1, <2>1 DEF getInt16LE, putInt16LE
<1> QED  BY <1>1, <1>2, <1>3

(* What the writer accepts as a text holds no NUL and, unless it is a      *)
(* time, fits its field.                                                   *)
LEMMA AcceptedTexts ==
    ASSUME NEW b \in BextType, validate(b), NEW f \in Texts
    PROVE  /\ "NUL" \notin Range(b.texts[f])
           /\ f # "OriginationTime" => Len(b.texts[f]) <= width[f]
<1>1. b.texts[f] \in Seq(Chars)
  BY DEF BextType
<1>2. CASE f \in FreeTexts
  <2>1. checkTextWidth(b.texts[f], width[f])
    BY <1>2 DEF validate
  <2> QED  BY <2>1 DEF checkTextWidth, checkText, Printable
<1>3. CASE b.texts[f] = <<>>
  <2>1. width[f] \in Nat
    BY BextAssumption
  <2> QED  BY <1>3, <2>1 DEF Range
<1>4. CASE f = "OriginationDate" /\ b.texts[f] # <<>>
  <2>1. b.texts[f] = <<"date">> /\ width[f] = 1
    BY <1>4, BextAssumption DEF validate, checkDateTime, DateOnly, Dates
  <2> QED  BY <2>1 DEF Range
<1>5. CASE f = "OriginationTime" /\ b.texts[f] # <<>>
  <2>1. TimeOnly(b.texts[f])
    BY <1>5 DEF validate, checkDateTime, Dates
  <2> DEFINE t == b.texts[f]
  <2>2. PICK i \in 1 .. 2 :
            /\ i <= Len(t) /\ t[i] = "clock" /\ (i = 2 => t[1] = "digit")
            /\ Len(t) > i => /\ Len(t) >= i + 2 /\ t[i + 1] = "point"
                             /\ \A j \in i + 2 .. Len(t) : t[j] = "digit"
    BY <2>1 DEF TimeOnly
  <2>3. t \in Seq(Chars)
    BY <1>1
  <2> HIDE DEF t
  <2>4. ASSUME NEW j \in 1 .. Len(t) PROVE t[j] # "NUL"
    <3>1. j < i => i = 2 /\ j = 1
      BY <2>3
    <3>2. j > i => j = i + 1 \/ j \in i + 2 .. Len(t)
      BY <2>3
    <3>3. j < i \/ j = i \/ j > i
      BY <2>3
    <3>4. j > i => Len(t) > i
      BY <2>3
    <3> QED  BY <2>2, <3>1, <3>2, <3>3, <3>4
  <2> QED  BY <1>5, <2>3, <2>4 DEF Range, t
<1> QED  BY <1>2, <1>3, <1>4, <1>5 DEF Texts, Dates

LEMMA OnlyTheTime ==
    ASSUME NEW b \in BextType, NEW v
    PROVE  [b EXCEPT !.texts["OriginationTime"] = v]
             = [texts |-> [f \in Texts |-> IF f = "OriginationTime" THEN v ELSE b.texts[f]],
                timeReference |-> b.timeReference, version |-> b.version, umid |-> b.umid,
                loudness |-> b.loudness, codingHistory |-> b.codingHistory]
<1> DEFINE T == [b.texts EXCEPT !["OriginationTime"] = v]
<1>1. b.texts \in [Texts -> Seq(Chars)]
  BY DEF BextType
<1>2. T = [f \in Texts |-> IF f = "OriginationTime" THEN v ELSE b.texts[f]]
  BY <1>1
<1> HIDE DEF T
<1>3. [b EXCEPT !.texts = T]
        = [texts |-> T, timeReference |-> b.timeReference, version |-> b.version,
           umid |-> b.umid, loudness |-> b.loudness, codingHistory |-> b.codingHistory]
  BY DEF BextType
<1> QED  BY <1>2, <1>3 DEF T

(* A description the writer accepts reads back as it was, its time as far  *)
(* as it fits.                                                             *)
LEMMA BextReadsBack ==
    ASSUME NEW b \in BextType, validate(b)
    PROVE  parseBext(serialize(b), serializedLen(b))
             = [b EXCEPT !.texts["OriginationTime"] = fitting(@, width["OriginationTime"])]
<1> DEFINE s == serialize(b)
           r == parseBext(s, serializedLen(b))
           time == fitting(b.texts["OriginationTime"], width["OriginationTime"])
           asKept == [b EXCEPT !.texts["OriginationTime"] = time]
<1>0. asKept = [texts |-> [f \in Texts |-> IF f = "OriginationTime" THEN time ELSE b.texts[f]],
                timeReference |-> b.timeReference, version |-> b.version, umid |-> b.umid,
                loudness |-> b.loudness, codingHistory |-> b.codingHistory]
  <2> HIDE DEF time
  <2> QED  BY OnlyTheTime, Zenon
<1>1. /\ b = [texts |-> b.texts, timeReference |-> b.timeReference, version |-> b.version,
              umid |-> b.umid, loudness |-> b.loudness, codingHistory |-> b.codingHistory]
      /\ b.texts \in [Texts -> Seq(Chars)] /\ b.timeReference \in Uint64 /\ b.version \in Nat
      /\ b.umid \in Nat /\ b.loudness \in Int16 /\ b.codingHistory \in Seq(Chars)
  BY DEF BextType
<1>2. width \in [Texts -> Nat \ {0}] /\ bextFixedSize \in Nat
  BY BextAssumption
<1>3. ASSUME NEW f \in Texts
      PROVE  cutAtNUL(s.fields[f])
               = IF f = "OriginationTime" THEN fitting(b.texts[f], width[f]) ELSE b.texts[f]
  <2>1. b.texts[f] \in Seq(Chars) /\ width[f] \in Nat
    BY <1>1, <1>2
  <2>2. s.fields[f] = appendPadded(b.texts[f], width[f])
    BY DEF serialize
  <2>3. cutAtNUL(s.fields[f]) = fitting(b.texts[f], width[f])
    BY <2>1, <2>2, AcceptedTexts, CutPadded
  <2>4. f # "OriginationTime" => fitting(b.texts[f], width[f]) = b.texts[f]
    BY AcceptedTexts DEF fitting
  <2> QED  BY <2>3, <2>4
<1>4. r.texts = asKept.texts
  <2>1. r.texts = [f \in Texts |-> cutAtNUL(s.fields[f])]
    BY DEF parseBext
  <2>2. asKept.texts = [f \in Texts |-> IF f = "OriginationTime" THEN time ELSE b.texts[f]]
    <3> HIDE DEF asKept, time
    <3> QED  BY <1>0
  <2> HIDE DEF r, asKept, s
  <2> QED  BY <1>3, <2>1, <2>2
<1>5. r.timeReference = b.timeReference
  <2>1. WordSize \in Nat \ {0} /\ b.timeReference \in Nat
    BY <1>1, BextAssumption DEF Uint64
  <2>2. s.low + s.high * WordSize = b.timeReference
    BY <1>1, TwoWords DEF serialize
  <2> QED  BY <2>2 DEF parseBext
<1>6. r.version = b.version /\ r.umid = b.umid
  BY <1>1 DEF parseBext, serialize, validate
<1>7. r.loudness = b.loudness
  <2>1. getInt16LE(putInt16LE(b.loudness)) = b.loudness
    BY <1>1, SignKept
  <2>2. s.loudness = putInt16LE(b.loudness) /\ s.version = b.version
    BY DEF serialize
  <2>3. r.loudness = IF b.version >= 2 THEN b.loudness ELSE 0
    BY <2>1, <2>2 DEF parseBext
  <2> QED  BY <1>1, <2>3 DEF validate
<1>8. r.codingHistory = b.codingHistory
  <2>1. r.codingHistory
           = cutAtNUL(SubSeq(b.codingHistory, 1, serializedLen(b) - bextFixedSize))
    BY DEF parseBext, serialize
  <2>2. serializedLen(b) - bextFixedSize = Len(b.codingHistory)
    BY <1>1, <1>2 DEF serializedLen
  <2>3. SubSeq(b.codingHistory, 1, Len(b.codingHistory)) = b.codingHistory
    BY <1>1
  <2>4. "NUL" \notin Range(b.codingHistory)
    BY DEF validate, checkText, Printable
  <2> QED  BY <1>1, <2>1, <2>2, <2>3, <2>4, CutIs
<1>9. r = [texts |-> r.texts, timeReference |-> r.timeReference, version |-> r.version,
           umid |-> r.umid, loudness |-> r.loudness, codingHistory |-> r.codingHistory]
  BY DEF parseBext
<1>10. asKept = [texts |-> asKept.texts, timeReference |-> b.timeReference, version |-> b.version,
                 umid |-> b.umid, loudness |-> b.loudness, codingHistory |-> b.codingHistory]
  <2> HIDE DEF asKept, time
  <2> QED  BY <1>0
<1> HIDE DEF r, asKept
<1>11. r = asKept
  BY <1>4, <1>5, <1>6, <1>7, <1>8, <1>9, <1>10
<1> QED  BY <1>11 DEF r, asKept

(* The description of another program that can be written again: the cut   *)
(* leaves no NUL in a text, and what its version does not admit is 0.      *)
LEMMA ForeignBext ==
    ASSUME NEW body, NEW len \in Nat, IsBody(body, len), len >= bextFixedSize,
           \A f \in FreeTexts : "other" \notin Range(parseBext(body, len).texts[f]),
           \A f \in Dates : checkDateTime(f, parseBext(body, len).texts[f]),
           "other" \notin Range(parseBext(body, len).codingHistory)
    PROVE  validate(parseBext(body, len))
<1> DEFINE r == parseBext(body, len)
<1>1. /\ body.fields \in [Texts -> Seq(Chars)] /\ body.tail \in Seq(Chars)
      /\ \A f \in Texts : Len(body.fields[f]) = width[f]
      /\ Len(body.tail) = len - bextFixedSize
  BY DEF IsBody
<1>2. bextFixedSize \in Nat
  BY BextAssumption
<1>3. ASSUME NEW f \in FreeTexts
      PROVE  /\ r.texts[f] \in Seq(Chars) /\ Len(r.texts[f]) <= width[f]
             /\ Range(r.texts[f]) \subseteq Range(body.fields[f])
             /\ Range(r.texts[f]) \cap {"NUL", "other"} = {}
  <2>1. r.texts[f] = cutAtNUL(body.fields[f])
    BY DEF parseBext, Texts
  <2>2. body.fields[f] \in Seq(Chars) /\ Len(body.fields[f]) = width[f]
    BY <1>1 DEF Texts
  <2>3. "other" \notin Range(r.texts[f])
    OBVIOUS
  <2> HIDE DEF r
  <2> QED  BY <2>1, <2>2, <2>3, CutIs
<1>4. r.codingHistory \in Seq(Chars) /\ Range(r.codingHistory) \cap {"NUL", "other"} = {}
  <2>1. r.codingHistory = cutAtNUL(SubSeq(body.tail, 1, len - bextFixedSize))
    BY DEF parseBext
  <2>2. SubSeq(body.tail, 1, len - bextFixedSize) = body.tail
    BY <1>1
  <2>3. "other" \notin Range(r.codingHistory)
    OBVIOUS
  <2> HIDE DEF r
  <2>4. r.codingHistory = cutAtNUL(body.tail) /\ body.tail \in Seq(Chars)
    BY <1>1, <2>1, <2>2
  <2> QED  BY <2>3, <2>4, CutIs
<1>5. r.umid # 0 => r.version >= 1
  BY DEF parseBext
<1>6. r.loudness # 0 => r.version >= 2
  BY DEF parseBext
<1>9. \A f \in Dates : checkDateTime(f, r.texts[f])
  OBVIOUS
<1> HIDE DEF r
<1>7. ASSUME NEW s \in Seq(Chars), Range(s) \cap {"NUL", "other"} = {} PROVE checkText(s)
  BY <1>7 DEF checkText, Chars, Printable, Range
<1>8. ASSUME NEW f \in FreeTexts PROVE checkTextWidth(r.texts[f], width[f])
  BY <1>3, <1>7 DEF checkTextWidth
<1>10. checkText(r.codingHistory)
  BY <1>4, <1>7
<1>11. validate(r)
  BY <1>5, <1>6, <1>8, <1>9, <1>10 DEF validate
<1> QED  BY <1>11 DEF r

(* Over every file: the description the library wrote comes back as the    *)
(* caller gave it, but for the fraction of a time that its field has no    *)
(* room for, and one of another program whose texts and coding history     *)
(* hold only text, whose date is a date and whose time is a time can be    *)
(* written again (parseBext, validate and serialize, bext.go:145-195,      *)
(* 259-303, 331-377).                                                      *)
THEOREM DescriptionsReadBack == Spec => []BextRoundTrips
<1>1. RInv /\ MetadataIsTheFirst => BextRoundTrips
  <2> SUFFICES ASSUME RInv, MetadataIsTheFirst, verdict = "ok", ~swallowed, HasBext, ~BextCorrupt
               PROVE  IF file.lay # NoLayout
                      THEN BextOf = [file.bext EXCEPT !.texts["OriginationTime"] =
                                         fitting(@, width["OriginationTime"])]
                      ELSE /\ \A f \in FreeTexts : "other" \notin Range(BextOf.texts[f])
                           /\ \A f \in Dates : checkDateTime(f, BextOf.texts[f])
                           /\ "other" \notin Range(BextOf.codingHistory)
                           => validate(BextOf)
    BY DEF BextRoundTrips
  <2>1. file \in Files
    BY Parts
  <2>2. seen.bext = FirstBody("bext") /\ seen.bext # NoBody
    BY DEF MetadataIsTheFirst, HasBext
  <2> DEFINE k == Min(Before("bext"))
             c == chunk(k)
  <2>3. Before("bext") # {}
    BY <2>2 DEF FirstBody
  <2>4. Before("bext") \subseteq 1 .. Len(file.chunks)
    <3>1. FirstData \in Nat /\ FirstData <= Len(file.chunks) + 1 /\ Len(file.chunks) \in Nat
      BY <2>1, FirstDataBounds, Layout DEF total
    <3> QED  BY <3>1 DEF Before
  <2>5. k \in Before("bext") /\ k \in 1 .. Len(file.chunks) /\ c.id = "bext"
    <3>1. Before("bext") \subseteq Nat
      BY <2>4
    <3>2. k \in Before("bext")
      BY <2>3, <3>1, Least
    <3> QED  BY <2>4, <3>2 DEF Before, chunk
  <2>6. seen.bext = [text |-> c.body.text, len |-> c.size]
    BY <2>2, <2>3 DEF FirstBody, Held
  <2> HIDE DEF k
  <2>7. c.size \in Nat /\ IsBody(Stored[c.body.text], c.size)
    BY <2>1, <2>5, ReaderAssumption DEF Wellformed, chunk
  <2>8. BextOf = parseBext(Stored[c.body.text], c.size)
    BY <2>6 DEF BextOf
  <2>9. bextFixedSize \in Nat /\ c.size >= bextFixedSize
    BY <2>6, <2>7, BextAssumption DEF BextCorrupt
  <2>10. CASE file.lay # NoLayout
    <3>1. Written(file)
      BY <2>1, <2>10, ReaderAssumption
    <3>2. c = bextChunk(file) /\ file.name # "none"
      BY <2>1, <2>5, <3>1, WrittenSays
    <3>3. c.size = serializedLen(file.bext) /\ c.body.text = file.name
      BY <3>2 DEF bextChunk
    <3>4. /\ file.bext \in BextType /\ validate(file.bext)
          /\ Stored[file.name] = serialize(file.bext)
      BY <3>1, <3>2 DEF Written, CanWriteMetadata
    <3>5. BextOf = [file.bext EXCEPT !.texts["OriginationTime"] =
                        fitting(@, width["OriginationTime"])]
      BY <2>8, <3>3, <3>4, BextReadsBack
    <3> QED  BY <2>10, <3>5
  <2>11. CASE file.lay = NoLayout
    <3>1. ASSUME \A f \in FreeTexts : "other" \notin Range(BextOf.texts[f]),
                 \A f \in Dates : checkDateTime(f, BextOf.texts[f]),
                 "other" \notin Range(BextOf.codingHistory)
          PROVE  validate(BextOf)
      BY <2>7, <2>8, <2>9, <3>1, ForeignBext
    <3> QED  BY <2>11, <3>1
  <2> QED  BY <2>10, <2>11
<1> QED  BY <1>1, ReaderInvariant, FirstMetadataWins, PTL
=============================================================================
