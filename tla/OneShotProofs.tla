---------------------------- MODULE OneShotProofs ----------------------------
(***************************************************************************)
(* Isolation of concurrent one-shot calls, for every number of callers,    *)
(* calls and pooled objects.                                               *)
(***************************************************************************)
EXTENDS OneShot, SequenceTheorems, TLAPS

-----------------------------------------------------------------------------
(* Types.                                                                  *)

EncoderPCs == {"getEncoder", "reset", "write", "close", "patch", "deferred", "put"}
DecoderPCs == {"getDecoder", "parse", "slice", "release", "store"}
Errors == {"nil", "refused", "sink", "panic", "corrupt"}
Owners == Calls \cup {Nobody, Discard}

Piece == [what : {"header", "audio", "pad", "sizes"}, of : Owners, full : BOOLEAN]
EncoderType == [w : Owners, cfg : Owners, seeks : BOOLEAN, odd : BOOLEAN,
                err : Errors, closed : BOOLEAN]
DecoderType == [r : Owners, hdr : Owners, info : Owners, remaining : Owners,
                convert : BOOLEAN, err : Errors]
ResultType == [audio : Owners, info : Owners, converted : BOOLEAN]
CallType == [n : 0 .. MaxCalls, job : EncodeJobs \cup DecodeJobs \cup {Nobody},
             pc : EncoderPCs \cup DecoderPCs \cup {"idle"},
             obj : Encoders \cup Decoders \cup {Nobody}, err : Errors, res : ResultType]

TypeInv ==
    /\ encoderPool \subseteq Encoders /\ encoder \in [Encoders -> EncoderType]
    /\ decoderPool \subseteq Decoders /\ decoder \in [Decoders -> DecoderType]
    /\ call \in [Callers -> CallType]
    /\ sink \in [Calls -> Seq(Piece)]

-----------------------------------------------------------------------------
(* The inductive invariant.                                                *)

HoldsEncoder(c) == call[c].pc \in EncoderPCs \ {"getEncoder"}
HoldsDecoder(c) == call[c].pc \in DecoderPCs \ {"getDecoder"}

(* Who has what: an object is in the pool or in at most one call's hands.  *)
Ownership(c) ==
    /\ call[c].n > 0 => call[c].job # Nobody
    /\ call[c].pc \in EncoderPCs => call[c].job \in EncodeJobs
    /\ call[c].pc \in DecoderPCs => call[c].job \in DecodeJobs
    /\ call[c].pc \in {"getEncoder", "getDecoder"} => call[c].obj = Nobody
    /\ HoldsEncoder(c) => call[c].obj \in Encoders \ encoderPool
    /\ HoldsDecoder(c) => call[c].obj \in Decoders \ decoderPool

Exclusive ==
    \A b, c \in Callers : b # c =>
        /\ HoldsEncoder(b) /\ HoldsEncoder(c) => call[b].obj # call[c].obj
        /\ HoldsDecoder(b) /\ HoldsDecoder(c) => call[b].obj # call[c].obj

PoolsClean ==
    /\ \A e \in encoderPool : encoder[e].w \notin Calls /\ encoder[e].err = "nil"
    /\ \A d \in decoderPool : decoder[d].r = Nobody /\ decoder[d].hdr = Nobody

(* What the encoder in a call's hands holds is the call's own.             *)
EncoderInv(c) ==
    LET e == encoder[call[c].obj]
    IN /\ call[c].pc \in {"write", "close", "patch"} =>
             /\ call[c].err = "nil"
             /\ e.err = "nil" /\ e.w = Me(c) /\ e.cfg = Me(c) /\ e.seeks = call[c].job.seeks
       /\ call[c].pc \in {"write", "close"} => ~e.closed
       /\ call[c].pc = "write" => ~e.odd
       /\ call[c].pc = "close" => e.odd = call[c].job.odd
       /\ call[c].pc = "put" => e.w \notin Calls /\ e.err = "nil"
       /\ call[c].pc \in {"getEncoder", "reset"} => call[c].err = "nil"

DecoderInv(c) ==
    LET d == decoder[call[c].obj]
    IN /\ call[c].pc \in {"getDecoder", "parse", "slice"} => call[c].err = "nil"
       /\ call[c].pc = "slice" =>
             /\ d.remaining = Me(c) /\ d.info = Me(c)
             /\ d.convert = call[c].job.converts
       /\ call[c].pc = "store" => d.r = Nobody /\ d.hdr = Nobody
       /\ call[c].job \in DecodeJobs /\ call[c].pc \in {"release", "store", "idle"} =>
             /\ call[c].err \in {"nil", "corrupt"}
             /\ call[c].err = "corrupt" => ~call[c].job.sound
             /\ call[c].err = "nil" =>
                   call[c].res = [audio |-> Me(c), info |-> Me(c),
                                  converted |-> call[c].job.converts]

(* What the sink of a call has been handed.                                *)
Owed(c) == Stream(Me(c), call[c].job)

(* The pieces before the sizes: an odd audio is padded, an empty one not.  *)
Body(job) == IF job.empty THEN 1 ELSE IF job.odd THEN 3 ELSE 2

Handed(c) ==
    CASE call[c].pc = "write" -> 1
      [] call[c].pc = "close" -> IF call[c].job.empty THEN 1 ELSE 2
      [] call[c].pc = "patch" -> Body(call[c].job)
      [] OTHER -> 0

Has(c, m) == Len(sink[Me(c)]) = m /\ \A i \in 1 .. m : sink[Me(c)][i] = Owed(c)[i]

IsCut(c) ==
    \E m \in 1 .. Len(Owed(c)) :
        /\ Len(sink[Me(c)]) = m
        /\ \A i \in 1 .. m - 1 : sink[Me(c)][i] = Owed(c)[i]
        /\ sink[Me(c)][m] = [Owed(c)[m] EXCEPT !.full = FALSE]

(* What the sink of an encode that is over has been handed.                *)
Ended(c) ==
    /\ call[c].err \in {"nil", "refused", "sink", "panic"}
    /\ call[c].err = "nil" => Has(c, Len(Owed(c)))
    /\ call[c].err = "refused" =>
          /\ Has(c, 0)
          /\ ~(call[c].job.valid /\ call[c].job.whole /\ call[c].job.fits)
    /\ call[c].err \in {"sink", "panic"} => IsCut(c)

SinkInv(c) ==
    /\ \A i \in 0 .. MaxCalls : i > call[c].n => sink[<<c, i>>] = <<>>
    /\ call[c].pc \in EncoderPCs \ {"deferred", "put"} => Has(c, Handed(c))
    /\ call[c].job \in EncodeJobs /\ call[c].pc \in {"deferred", "put", "idle"} => Ended(c)

CallerInv(c) == Ownership(c) /\ EncoderInv(c) /\ DecoderInv(c) /\ SinkInv(c)

IInv == TypeInv /\ Exclusive /\ PoolsClean /\ \A c \in Callers : CallerInv(c)

-----------------------------------------------------------------------------
(* How many pieces come before the sizes.                                  *)
LEMMA BodySize ==
    ASSUME NEW job \in EncodeJobs
    PROVE  /\ Body(job) \in 1 .. 3
           /\ job.empty => Body(job) = 1
           /\ ~job.empty => Body(job) >= 2
           /\ job.odd => Body(job) = 3 /\ ~job.empty
           /\ ~job.odd => Body(job) = IF job.empty THEN 1 ELSE 2
<1>1. job.empty => ~job.odd
  BY OneShotAssumption
<1>2. CASE job.empty
  BY <1>1, <1>2 DEF Body
<1>3. CASE ~job.empty /\ job.odd
  BY <1>3 DEF Body
<1>4. CASE ~job.empty /\ ~job.odd
  BY <1>4 DEF Body
<1> QED
  BY <1>2, <1>3, <1>4

(* The shape of what a sink is owed: the header first, the audio unless    *)
(* there is none, the pad byte after an odd audio, the sizes last.         *)
LEMMA StreamShape ==
    ASSUME NEW k \in Calls, NEW job \in EncodeJobs
    PROVE  LET s == Stream(k, job)
               piece(what) == [what |-> what, of |-> k, full |-> TRUE]
           IN /\ s \in Seq(Piece)
              /\ Len(s) = IF job.seeks THEN Body(job) + 1 ELSE Body(job)
              /\ s[1] = piece("header")
              /\ ~job.empty => s[2] = piece("audio")
              /\ job.odd => s[3] = piece("pad")
              /\ job.seeks => s[Body(job) + 1] = piece("sizes")
<1> DEFINE piece(what) == [what |-> what, of |-> k, full |-> TRUE]
<1> DEFINE h == <<piece("header")>>
<1> DEFINE a == IF job.empty THEN <<>> ELSE <<piece("audio")>>
<1> DEFINE p == IF job.odd THEN <<piece("pad")>> ELSE <<>>
<1> DEFINE z == IF job.seeks THEN <<piece("sizes")>> ELSE <<>>
<1>1. /\ job.empty \in BOOLEAN /\ job.odd \in BOOLEAN /\ job.seeks \in BOOLEAN
      /\ job.empty => ~job.odd
  BY OneShotAssumption
<1>2. \A what \in {"header", "audio", "pad", "sizes"} : piece(what) \in Piece
  BY DEF Piece, Owners
<1>3. /\ h \in Seq(Piece) /\ Len(h) = 1 /\ h[1] = piece("header")
      /\ a \in Seq(Piece) /\ Len(a) = (IF job.empty THEN 0 ELSE 1)
      /\ ~job.empty => a[1] = piece("audio")
      /\ p \in Seq(Piece) /\ Len(p) = (IF job.odd THEN 1 ELSE 0)
      /\ job.odd => p[1] = piece("pad")
      /\ z \in Seq(Piece) /\ Len(z) = (IF job.seeks THEN 1 ELSE 0)
      /\ job.seeks => z[1] = piece("sizes")
  BY <1>1, <1>2
<1> HIDE DEF h, a, p, z
<1>4. /\ h \o a \in Seq(Piece) /\ Len(h \o a) = IF job.empty THEN 1 ELSE 2
      /\ (h \o a)[1] = piece("header")
      /\ ~job.empty => (h \o a)[2] = piece("audio")
  <2>1. /\ h \o a \in Seq(Piece) /\ Len(h \o a) = Len(h) + Len(a)
        /\ \A i \in 1 .. Len(h) + Len(a) :
              (h \o a)[i] = IF i <= Len(h) THEN h[i] ELSE a[i - Len(h)]
    BY <1>3, ConcatProperties
  <2> HIDE DEF piece
  <2> QED
    BY <2>1, <1>3, <1>1
<1>5. /\ h \o a \o p \in Seq(Piece)
      /\ Len(h \o a \o p) = Body(job)
      /\ (h \o a \o p)[1] = piece("header")
      /\ ~job.empty => (h \o a \o p)[2] = piece("audio")
      /\ job.odd => (h \o a \o p)[3] = piece("pad")
  BY <1>3, <1>4, <1>1, ConcatProperties DEF Body
<1>6. /\ h \o a \o p \o z \in Seq(Piece)
      /\ Len(h \o a \o p \o z) = IF job.seeks THEN Body(job) + 1 ELSE Body(job)
      /\ (h \o a \o p \o z)[1] = piece("header")
      /\ ~job.empty => (h \o a \o p \o z)[2] = piece("audio")
      /\ job.odd => (h \o a \o p \o z)[3] = piece("pad")
      /\ job.seeks => (h \o a \o p \o z)[Body(job) + 1] = piece("sizes")
  <2> HIDE DEF piece
  <2>1. Body(job) \in 1 .. 3 /\ (~job.empty => Body(job) >= 2) /\ (job.odd => Body(job) = 3)
    BY BodySize
  <2> DEFINE w == h \o a \o p
  <2>2. w \in Seq(Piece) /\ Len(w) = Body(job)
    BY <1>5
  <2> HIDE DEF w
  <2>3. /\ w \o z \in Seq(Piece) /\ Len(w \o z) = Len(w) + Len(z)
        /\ \A i \in 1 .. Len(w) + Len(z) :
              (w \o z)[i] = IF i <= Len(w) THEN w[i] ELSE z[i - Len(w)]
    BY <1>3, <2>2, ConcatProperties
  <2>4. Len(w \o z) = IF job.seeks THEN Body(job) + 1 ELSE Body(job)
    BY <1>1, <1>3, <2>1, <2>2, <2>3
  <2>5. \A i \in 1 .. Body(job) : (w \o z)[i] = w[i]
    BY <1>1, <1>3, <2>1, <2>2, <2>3
  <2>6. job.seeks => (w \o z)[Body(job) + 1] = piece("sizes")
    BY <1>1, <1>3, <2>1, <2>2, <2>3
  <2>7. /\ 1 \in 1 .. Body(job) /\ (~job.empty => 2 \in 1 .. Body(job))
        /\ (job.odd => 3 \in 1 .. Body(job))
    BY <2>1
  <2> QED
    BY <1>5, <2>3, <2>4, <2>5, <2>6, <2>7 DEF w
<1>7. Stream(k, job) = h \o a \o p \o z
  BY DEF Stream, h, a, p, z
<1> QED
  BY <1>6, <1>7

-----------------------------------------------------------------------------
(* Steps of one call, and what they leave of the others.                   *)

(* The identity of a caller's call is one of Calls.                        *)
LEMMA MeIsACall ==
    ASSUME TypeInv, NEW c \in Callers
    PROVE  Me(c) \in Calls /\ Me(c) = <<c, call[c].n>> /\ call[c].n \in 0 .. MaxCalls
BY DEF TypeInv, CallType, Me, Calls

(* A call whose record, object and sinks a step leaves alone is as before. *)
LEMMA OthersStay ==
    ASSUME NEW b \in Callers, CallerInv(b),
           call'[b] = call[b],
           HoldsEncoder(b) => /\ encoder'[call[b].obj] = encoder[call[b].obj]
                              /\ call[b].obj \notin encoderPool',
           HoldsDecoder(b) => /\ decoder'[call[b].obj] = decoder[call[b].obj]
                              /\ call[b].obj \notin decoderPool',
           \A i \in 0 .. MaxCalls : sink'[<<b, i>>] = sink[<<b, i>>],
           call[b].n \in 0 .. MaxCalls
    PROVE  CallerInv(b)'
<1>1. Me(b)' = Me(b) /\ Owed(b)' = Owed(b) /\ sink'[Me(b)] = sink[Me(b)]
  BY DEF Me, Owed, Stream
<1>2. Ownership(b)'
  BY DEF CallerInv, Ownership, HoldsEncoder, HoldsDecoder
<1>3. EncoderInv(b)'
  BY <1>1 DEF CallerInv, EncoderInv, HoldsEncoder, EncoderPCs
<1>4. DecoderInv(b)'
  BY <1>1 DEF CallerInv, DecoderInv, HoldsDecoder, DecoderPCs
<1>5. SinkInv(b)'
  <2>1. \A m : Has(b, m)' <=> Has(b, m)
    BY <1>1 DEF Has
  <2>2. IsCut(b)' <=> IsCut(b)
    BY <1>1 DEF IsCut
  <2>3. Handed(b)' = Handed(b)
    BY DEF Handed
  <2> QED
    BY <1>1, <2>1, <2>2, <2>3 DEF CallerInv, SinkInv, Ended
<1> QED
  BY <1>2, <1>3, <1>4, <1>5 DEF CallerInv

(* What an ended encode has to show for it does not change.                *)
LEMMA EndedStays ==
    ASSUME NEW c \in Callers, Ended(c), UNCHANGED sink, call'[c].n = call[c].n,
           call'[c].job = call[c].job, call'[c].err = call[c].err
    PROVE  Ended(c)'
<1>1. Me(c)' = Me(c) /\ Owed(c)' = Owed(c)
  BY DEF Me, Owed, Stream
<1>2. /\ Has(c, 0)' <=> Has(c, 0)
      /\ Has(c, Len(Owed(c)))' <=> Has(c, Len(Owed(c)))
      /\ IsCut(c)' <=> IsCut(c)
  BY <1>1 DEF Has, IsCut
<1> QED
  BY <1>2 DEF Ended

(* Objects stay exclusive when the one a call now has is no other's.       *)
LEMMA StillExclusive ==
    ASSUME Exclusive, NEW c \in Callers,
           \A b \in Callers : b # c => call'[b] = call[b],
           \A b \in Callers : b # c =>
              /\ HoldsEncoder(c)' /\ HoldsEncoder(b) => call[b].obj # call'[c].obj
              /\ HoldsDecoder(c)' /\ HoldsDecoder(b) => call[b].obj # call'[c].obj
    PROVE  Exclusive'
<1> SUFFICES ASSUME NEW a \in Callers, NEW b \in Callers, a # b
             PROVE  /\ HoldsEncoder(a)' /\ HoldsEncoder(b)' => call'[a].obj # call'[b].obj
                    /\ HoldsDecoder(a)' /\ HoldsDecoder(b)' => call'[a].obj # call'[b].obj
  BY DEF Exclusive
<1>1. CASE a = c
  BY <1>1 DEF HoldsEncoder, HoldsDecoder
<1>2. CASE b = c
  BY <1>2 DEF HoldsEncoder, HoldsDecoder
<1>3. CASE a # c /\ b # c
  BY <1>3 DEF Exclusive, HoldsEncoder, HoldsDecoder
<1> QED
  BY <1>1, <1>2, <1>3

(* A piece of which only a part was taken is the same piece, not full.     *)
LEMMA CutPiece ==
    ASSUME NEW k \in Owners, NEW what \in {"header", "audio", "pad", "sizes"}
    PROVE  [[what |-> what, of |-> k, full |-> TRUE] EXCEPT !.full = FALSE]
              = [what |-> what, of |-> k, full |-> FALSE]
<1> DEFINE piece == [what |-> what, of |-> k, full |-> TRUE]
<1> DEFINE cut == [piece EXCEPT !.full = FALSE]
<1> DEFINE part == [what |-> what, of |-> k, full |-> FALSE]
<1> SUFFICES cut = part
  OBVIOUS
<1>1. piece \in Piece /\ part \in Piece
  BY DEF Piece
<1>2. cut \in Piece /\ cut.what = part.what /\ cut.of = part.of /\ cut.full = part.full
  BY <1>1 DEF Piece
<1> HIDE DEF cut, part
<1>3. \A x, y \in Piece : x.what = y.what /\ x.of = y.of /\ x.full = y.full => x = y
  BY DEF Piece
<1> QED
  BY <1>1, <1>2, <1>3

(* The next piece of the stream, taken whole, extends what the sink has by *)
(* one; taken in part it is where the stream is cut.                       *)
LEMMA HandsNext ==
    ASSUME TypeInv, NEW c \in Callers, call[c].job \in EncodeJobs,
           Has(c, Handed(c)), Handed(c) \in Nat,
           NEW n \in 1 .. Len(Owed(c)), n = Handed(c) + 1,
           NEW what \in {"header", "audio", "pad", "sizes"}, NEW outcome \in Outcomes,
           Owed(c)[n] = [what |-> what, of |-> Me(c), full |-> TRUE],
           sink' = [sink EXCEPT ![Me(c)] =
                       Append(@, [what |-> what, of |-> Me(c), full |-> outcome = "nil"])],
           call'[c].n = call[c].n, call'[c].job = call[c].job
    PROVE  /\ outcome = "nil" /\ Handed(c)' = n => Has(c, Handed(c))'
           /\ outcome = "nil" /\ Len(Owed(c)) = n => Has(c, Len(Owed(c)))'
           /\ outcome # "nil" => IsCut(c)'
           /\ sink' \in [Calls -> Seq(Piece)]
           /\ \A b \in Callers : b # c =>
                 \A i \in 0 .. MaxCalls : sink'[<<b, i>>] = sink[<<b, i>>]
           /\ \A i \in 0 .. MaxCalls : i > call[c].n => sink'[<<c, i>>] = sink[<<c, i>>]
<1> DEFINE piece == [what |-> what, of |-> Me(c), full |-> outcome = "nil"]
<1> DEFINE got == sink[Me(c)]
<1> DEFINE m == Handed(c)
<1> HIDE DEF m
<1>1. Me(c) \in Calls /\ Me(c) = <<c, call[c].n>> /\ call[c].n \in 0 .. MaxCalls
  BY MeIsACall
<1>2. Me(c)' = Me(c) /\ Owed(c)' = Owed(c)
  BY DEF Me, Owed, Stream
<1>3. got \in Seq(Piece) /\ piece \in Piece
  BY <1>1 DEF TypeInv, Piece, Owners
<1>4. sink'[Me(c)] = Append(got, piece)
  BY <1>1 DEF TypeInv
<1>5. /\ m \in Nat /\ n = m + 1
      /\ Len(got) = m /\ \A i \in 1 .. m : got[i] = Owed(c)[i]
  BY DEF Has, m
<1>6. /\ Append(got, piece) \in Seq(Piece) /\ Len(Append(got, piece)) = n
      /\ \A i \in 1 .. m : Append(got, piece)[i] = Owed(c)[i]
      /\ Append(got, piece)[n] = piece
  <2> HIDE DEF piece, got
  <2> QED
    BY <1>3, <1>5, AppendProperties
<1>7. outcome = "nil" => /\ Len(sink'[Me(c)']) = n
                         /\ \A i \in 1 .. n : sink'[Me(c)'][i] = Owed(c)'[i]
  <2> SUFFICES ASSUME outcome = "nil"
               PROVE  /\ Len(sink'[Me(c)']) = n
                      /\ \A i \in 1 .. n : sink'[Me(c)'][i] = Owed(c)'[i]
    OBVIOUS
  <2>1. piece = Owed(c)[n]
    OBVIOUS
  <2> HIDE DEF piece, got
  <2>2. \A i \in 1 .. n : i \in 1 .. m \/ i = n
    BY <1>5
  <2> QED
    BY <2>1, <2>2, <1>2, <1>4, <1>6
<1>8. outcome # "nil" => IsCut(c)'
  <2> SUFFICES ASSUME outcome # "nil" PROVE IsCut(c)'
    OBVIOUS
  <2>1. piece = [Owed(c)[n] EXCEPT !.full = FALSE]
    <3>1. (outcome = "nil") = FALSE
      OBVIOUS
    <3>2. piece = [what |-> what, of |-> Me(c), full |-> FALSE]
      BY <3>1
    <3>3. [[what |-> what, of |-> Me(c), full |-> TRUE] EXCEPT !.full = FALSE]
             = [what |-> what, of |-> Me(c), full |-> FALSE]
      BY <1>1, CutPiece DEF Owners
    <3> HIDE DEF piece
    <3> QED
      BY <3>2, <3>3
  <2>2. 1 .. n - 1 = 1 .. m
    BY <1>5
  <2> HIDE DEF piece, got
  <2>3. /\ Len(sink'[Me(c)]) = n
        /\ \A i \in 1 .. n - 1 : sink'[Me(c)][i] = Owed(c)[i]
        /\ sink'[Me(c)][n] = [Owed(c)[n] EXCEPT !.full = FALSE]
    BY <2>1, <2>2, <1>4, <1>6
  <2> QED
    BY <2>3, <1>2 DEF IsCut
<1>9. sink' \in [Calls -> Seq(Piece)]
  BY <1>1, <1>6 DEF TypeInv
<1>10. /\ outcome = "nil" /\ Handed(c)' = n => Has(c, Handed(c))'
       /\ outcome = "nil" /\ Len(Owed(c)) = n => Has(c, Len(Owed(c)))'
  BY <1>2, <1>7 DEF Has
<1> QED
  BY <1>1, <1>8, <1>9, <1>10 DEF TypeInv, Calls

(* A call that moves on changes its program counter and perhaps its error. *)
LEMMA Leaves ==
    ASSUME TypeInv, NEW c \in Callers, NEW pc \in EncoderPCs \cup DecoderPCs \cup {"idle"},
           NEW err \in Errors, LeaveWith(c, pc, err)
    PROVE  /\ call' \in [Callers -> CallType]
           /\ \A b \in Callers : b # c => call'[b] = call[b]
           /\ call'[c].n = call[c].n /\ call'[c].job = call[c].job
           /\ call'[c].obj = call[c].obj /\ call'[c].res = call[c].res
           /\ call'[c].pc = pc /\ call'[c].err = err
<1>1. call[c] \in CallType /\ call \in [Callers -> CallType]
  BY DEF TypeInv
<1>2. /\ call'[c] = [call[c] EXCEPT !.pc = pc, !.err = err]
      /\ \A b \in Callers : b # c => call'[b] = call[b]
      /\ call' \in [Callers -> CallType]
  BY <1>1 DEF LeaveWith, CallType
<1> QED
  BY <1>1, <1>2 DEF CallType

(* The same when the error stays.                                          *)
LEMMA Goes ==
    ASSUME TypeInv, NEW c \in Callers, NEW pc \in EncoderPCs \cup DecoderPCs \cup {"idle"},
           Goto(c, pc)
    PROVE  /\ call' \in [Callers -> CallType]
           /\ \A b \in Callers : b # c => call'[b] = call[b]
           /\ call'[c].n = call[c].n /\ call'[c].job = call[c].job
           /\ call'[c].obj = call[c].obj /\ call'[c].res = call[c].res
           /\ call'[c].pc = pc /\ call'[c].err = call[c].err
<1>1. call[c] \in CallType /\ call \in [Callers -> CallType]
  BY DEF TypeInv
<1>2. /\ call'[c] = [call[c] EXCEPT !.pc = pc]
      /\ \A b \in Callers : b # c => call'[b] = call[b]
      /\ call' \in [Callers -> CallType]
  BY <1>1 DEF Goto, CallType
<1> QED
  BY <1>1, <1>2 DEF CallType

(* A step of an encode on the encoder it holds disturbs no other call.     *)
LEMMA EncoderStep ==
    ASSUME IInv, NEW c \in Callers, HoldsEncoder(c), HoldsEncoder(c)',
           call' \in [Callers -> CallType], \A b \in Callers : b # c => call'[b] = call[b],
           call'[c].obj = call[c].obj, call'[c].job = call[c].job, call'[c].n = call[c].n,
           encoder' \in [Encoders -> EncoderType],
           \A e \in Encoders : e # call[c].obj => encoder'[e] = encoder[e],
           sink' \in [Calls -> Seq(Piece)],
           \A b \in Callers : b # c =>
              \A i \in 0 .. MaxCalls : sink'[<<b, i>>] = sink[<<b, i>>],
           UNCHANGED <<encoderPool, decoderPool, decoder>>,
           EncoderInv(c)', SinkInv(c)'
    PROVE  IInv'
<1>1. TypeInv /\ TypeInv' /\ Ownership(c)
  BY DEF IInv, TypeInv, CallerInv
<1>2. call[c].obj \in Encoders \ encoderPool /\ call[c].job \in EncodeJobs
  BY <1>1 DEF Ownership, HoldsEncoder
<1>3. Exclusive'
  <2>1. \A b \in Callers : b # c /\ HoldsEncoder(b) => call[b].obj # call[c].obj
    BY DEF IInv, Exclusive
  <2>2. ~HoldsDecoder(c)'
    BY DEF HoldsEncoder, HoldsDecoder, EncoderPCs, DecoderPCs
  <2> QED
    BY <2>1, <2>2, StillExclusive DEF IInv
<1>4. PoolsClean'
  BY <1>1, <1>2 DEF IInv, PoolsClean, TypeInv
<1>5. \A b \in Callers : b # c => CallerInv(b)'
  <2> SUFFICES ASSUME NEW b \in Callers, b # c PROVE CallerInv(b)'
    OBVIOUS
  <2>1. CallerInv(b) /\ Ownership(b) /\ call[b].n \in 0 .. MaxCalls
    BY <1>1 DEF IInv, CallerInv, TypeInv, CallType
  <2>2. HoldsEncoder(b) => /\ encoder'[call[b].obj] = encoder[call[b].obj]
                           /\ call[b].obj \notin encoderPool'
    BY <2>1 DEF IInv, Exclusive, Ownership
  <2>3. HoldsDecoder(b) => /\ decoder'[call[b].obj] = decoder[call[b].obj]
                           /\ call[b].obj \notin decoderPool'
    BY <2>1 DEF Ownership
  <2> QED
    BY <2>1, <2>2, <2>3, OthersStay
<1>6. Ownership(c)' /\ DecoderInv(c)'
  BY <1>1, <1>2, OneShotAssumption
     DEF Ownership, DecoderInv, HoldsEncoder, HoldsDecoder, EncoderPCs, DecoderPCs
<1> QED
  BY <1>1, <1>3, <1>4, <1>5, <1>6 DEF IInv, CallerInv

(* What a running encode is owed, and who it is.                           *)
LEMMA OwedShape ==
    ASSUME TypeInv, NEW c \in Callers, call[c].job \in EncodeJobs
    PROVE  /\ Me(c) \in Calls /\ Me(c) # Nobody
           /\ Len(Owed(c)) = IF call[c].job.seeks THEN Body(call[c].job) + 1 ELSE Body(call[c].job)
           /\ Len(Owed(c)) \in Nat /\ Len(Owed(c)) >= Body(call[c].job)
           /\ Owed(c)[1] = [what |-> "header", of |-> Me(c), full |-> TRUE]
           /\ ~call[c].job.empty =>
                 Owed(c)[2] = [what |-> "audio", of |-> Me(c), full |-> TRUE]
           /\ call[c].job.odd =>
                 Owed(c)[3] = [what |-> "pad", of |-> Me(c), full |-> TRUE]
           /\ call[c].job.seeks =>
                 Owed(c)[Body(call[c].job) + 1] = [what |-> "sizes", of |-> Me(c), full |-> TRUE]
<1> DEFINE job == call[c].job
<1>1. Me(c) \in Calls /\ Me(c) # Nobody
  BY MeIsACall, OneShotAssumption
<1>2. Len(Owed(c)) = IF job.seeks THEN Body(job) + 1 ELSE Body(job)
  BY <1>1, StreamShape DEF Owed
<1>3. Body(job) \in 1 .. 3
  BY BodySize
<1>4. Len(Owed(c)) \in Nat /\ Len(Owed(c)) >= Body(job)
  BY <1>2, <1>3
<1> QED
  BY <1>1, <1>2, <1>4, StreamShape DEF Owed

(* Where each piece is due.                                                *)
LEMMA PieceIsOwed ==
    ASSUME TypeInv, NEW c \in Callers, call[c].job \in EncodeJobs
    PROVE  /\ 1 \in 1 .. Len(Owed(c))
           /\ ~call[c].job.empty => 2 \in 1 .. Len(Owed(c))
           /\ call[c].job.odd => 3 \in 1 .. Len(Owed(c)) /\ Body(call[c].job) = 3
           /\ ~call[c].job.seeks => Len(Owed(c)) = Body(call[c].job)
           /\ call[c].job.seeks => /\ Body(call[c].job) + 1 \in 1 .. Len(Owed(c))
                                  /\ Len(Owed(c)) = Body(call[c].job) + 1
           /\ Owed(c)[1] = [what |-> "header", of |-> Me(c), full |-> TRUE]
           /\ ~call[c].job.empty =>
                 Owed(c)[2] = [what |-> "audio", of |-> Me(c), full |-> TRUE]
           /\ call[c].job.odd =>
                 Owed(c)[3] = [what |-> "pad", of |-> Me(c), full |-> TRUE]
           /\ call[c].job.seeks =>
                 Owed(c)[Body(call[c].job) + 1] = [what |-> "sizes", of |-> Me(c), full |-> TRUE]
<1> DEFINE L == Len(Owed(c))
<1> DEFINE B == Body(call[c].job)
<1>1. L \in Nat /\ L >= B /\ L = IF call[c].job.seeks THEN B + 1 ELSE B
  BY OwedShape
<1>2. B \in 1 .. 3 /\ (~call[c].job.empty => B >= 2) /\ (call[c].job.odd => B = 3)
  BY BodySize
<1>3. /\ 1 \in 1 .. L /\ (~call[c].job.empty => 2 \in 1 .. L)
      /\ call[c].job.odd => 3 \in 1 .. L /\ B = 3
      /\ ~call[c].job.seeks => L = B
      /\ call[c].job.seeks => B + 1 \in 1 .. L /\ L = B + 1
  <2> HIDE DEF L, B
  <2> QED
    BY <1>1, <1>2
<1> QED
  BY <1>3, OwedShape

-----------------------------------------------------------------------------
(* Every action keeps the invariant.                                       *)

(* A call that begins is a new one, whose sink nobody has written.         *)
LEMMA BeginKeepsIt ==
    ASSUME IInv, NEW c \in Callers,
           NEW job \in EncodeJobs \cup DecodeJobs, NEW pc, NEW err,
           Begin(c, job, pc, err), UNCHANGED <<encoding, decoding>>,
           \/ job \in EncodeJobs /\ pc = "getEncoder" /\ err = "nil"
           \/ job \in EncodeJobs /\ ~(job.valid /\ job.whole) /\ pc = "idle" /\ err = "refused"
           \/ job \in DecodeJobs /\ pc = "getDecoder" /\ err = "nil"
    PROVE  IInv'
<1>1. TypeInv
  BY DEF IInv
<1>2. /\ call'[c] = [Idle EXCEPT !.n = call[c].n + 1, !.job = job, !.pc = pc, !.err = err]
      /\ \A b \in Callers : b # c => call'[b] = call[b]
      /\ call[c].n + 1 \in 0 .. MaxCalls /\ call[c].n \in 0 .. MaxCalls
      /\ UNCHANGED <<encoderPool, encoder, sink, decoderPool, decoder>>
  BY <1>1, OneShotAssumption DEF Begin, TypeInv, CallType, encoding, decoding
<1>3. /\ call'[c].n = call[c].n + 1 /\ call'[c].job = job /\ call'[c].pc = pc
      /\ call'[c].err = err /\ call'[c].obj = Nobody /\ call'[c] \in CallType
  <2>1. Idle \in CallType /\ Idle.obj = Nobody
    BY OneShotAssumption DEF Idle, CallType, Errors, ResultType, NoResult, Owners
  <2>2. pc \in EncoderPCs \cup DecoderPCs \cup {"idle"} /\ err \in Errors
    BY DEF EncoderPCs, DecoderPCs, Errors
  <2> QED
    BY <1>2, <2>1, <2>2 DEF CallType
<1>4. TypeInv'
  BY <1>1, <1>2, <1>3 DEF TypeInv, Begin
<1>5. Exclusive' /\ PoolsClean'
  <2>1. ~HoldsEncoder(c)' /\ ~HoldsDecoder(c)'
    BY <1>3 DEF HoldsEncoder, HoldsDecoder, EncoderPCs, DecoderPCs
  <2>2. Exclusive'
    BY <1>2, <2>1, StillExclusive DEF IInv
  <2> QED
    BY <1>2, <2>2 DEF IInv, PoolsClean
<1>6. \A b \in Callers : b # c => CallerInv(b)'
  BY <1>1, <1>2, OthersStay, MeIsACall DEF IInv, CallerInv, Ownership
<1>7. Ownership(c)' /\ EncoderInv(c)' /\ DecoderInv(c)'
  BY <1>3, OneShotAssumption DEF Ownership, EncoderInv, DecoderInv, HoldsEncoder,
                                 HoldsDecoder, EncoderPCs, DecoderPCs
<1>8. SinkInv(c)'
  <2>1. CallerInv(c)
    BY DEF IInv
  <2>2. Me(c)' = <<c, call[c].n + 1>> /\ sink'[Me(c)'] = <<>>
    BY <1>2, <1>3, <2>1 DEF Me, CallerInv, SinkInv
  <2>3. Has(c, 0)'
    BY <2>2 DEF Has
  <2>4. pc = "getEncoder" => Handed(c)' = 0
    BY <1>3 DEF Handed
  <2>5. \A i \in 0 .. MaxCalls : i > call'[c].n => sink'[<<c, i>>] = <<>>
    BY <1>2, <1>3, <2>1 DEF CallerInv, SinkInv
  <2> QED
    BY <1>3, <2>3, <2>4, <2>5, OneShotAssumption DEF SinkInv, Ended, EncoderPCs
<1> QED
  BY <1>4, <1>5, <1>6, <1>7, <1>8 DEF IInv, CallerInv

(* An encoder is drawn that no other call has: one of the pool, or a new   *)
(* one.                                                                    *)
LEMMA GetEncoderKeepsIt ==
    ASSUME IInv, NEW c \in Callers, GetEncoder(c)
    PROVE  IInv'
<1>1. TypeInv /\ CallerInv(c) /\ call[c].pc = "getEncoder"
  BY DEF IInv, GetEncoder, At
<1>2. PICK e \in encoderPool \cup (Encoders \ Held) :
          /\ encoderPool' = encoderPool \ {e}
          /\ encoder' = IF e \in encoderPool THEN encoder
                        ELSE [encoder EXCEPT ![e] = NewEncoder]
          /\ call' = [call EXCEPT ![c].obj = e, ![c].pc = "reset"]
  BY DEF GetEncoder
<1>3. /\ UNCHANGED <<sink, decoderPool, decoder>> /\ e \in Encoders
      /\ \A b \in Callers : b # c => call'[b] = call[b]
      /\ call'[c].n = call[c].n /\ call'[c].job = call[c].job /\ call'[c].err = call[c].err
      /\ call'[c].pc = "reset" /\ call'[c].obj = e /\ call'[c] \in CallType
  <2>1. e \in Encoders /\ "reset" \in EncoderPCs
    BY <1>1 DEF TypeInv, EncoderPCs
  <2>2. call[c] \in CallType /\ call \in [Callers -> CallType]
    BY <1>1 DEF TypeInv
  <2>3. call'[c] = [call[c] EXCEPT !.obj = e, !.pc = "reset"]
    BY <1>2, <2>2
  <2>4. \A b \in Callers : b # c => call'[b] = call[b]
    BY <1>2, <2>2
  <2> QED
    BY <2>1, <2>2, <2>3, <2>4 DEF GetEncoder, decoding, CallType
<1>4. NewEncoder \in EncoderType
  BY DEF NewEncoder, EncoderType, Owners, Errors
<1>5. TypeInv'
  BY <1>1, <1>2, <1>3, <1>4 DEF TypeInv
<1>6. \A b \in Callers : b # c /\ HoldsEncoder(b) => call[b].obj # e
  <2> SUFFICES ASSUME NEW b \in Callers, b # c, HoldsEncoder(b) PROVE call[b].obj # e
    OBVIOUS
  <2>1. call[b].obj \notin encoderPool
    BY DEF IInv, CallerInv, Ownership
  <2>2. call[b].obj \in Held
    BY DEF Held, HoldsEncoder, EncoderPCs
  <2> QED
    BY <1>2, <2>1, <2>2
<1>7. Exclusive' /\ PoolsClean'
  <2>1. ~HoldsDecoder(c)'
    BY <1>3 DEF HoldsDecoder, DecoderPCs
  <2>2. Exclusive'
    BY <1>3, <1>6, <2>1, StillExclusive DEF IInv
  <2>3. PoolsClean'
    BY <1>1, <1>2, <1>3 DEF IInv, PoolsClean, TypeInv
  <2> QED
    BY <2>2, <2>3
<1>8. \A b \in Callers : b # c => CallerInv(b)'
  <2> SUFFICES ASSUME NEW b \in Callers, b # c PROVE CallerInv(b)'
    OBVIOUS
  <2>1. CallerInv(b) /\ Ownership(b) /\ call[b].n \in 0 .. MaxCalls
    BY <1>1 DEF IInv, CallerInv, TypeInv, CallType
  <2>2. HoldsEncoder(b) => /\ encoder'[call[b].obj] = encoder[call[b].obj]
                           /\ call[b].obj \notin encoderPool'
    BY <1>1, <1>2, <1>6, <2>1 DEF TypeInv, Ownership
  <2>3. HoldsDecoder(b) => /\ decoder'[call[b].obj] = decoder[call[b].obj]
                           /\ call[b].obj \notin decoderPool'
    BY <1>3, <2>1 DEF Ownership
  <2> QED
    BY <1>3, <2>1, <2>2, <2>3, OthersStay
<1>9. Ownership(c)' /\ EncoderInv(c)' /\ DecoderInv(c)'
  BY <1>1, <1>2, <1>3, OneShotAssumption
     DEF CallerInv, Ownership, EncoderInv, DecoderInv, HoldsEncoder, HoldsDecoder,
         EncoderPCs, DecoderPCs
<1>10. SinkInv(c)'
  <2>1. /\ Me(c)' = Me(c) /\ Handed(c)' = 0 /\ Handed(c) = 0
        /\ Has(c, 0)' <=> Has(c, 0)
    BY <1>1, <1>3 DEF Me, Handed, Has
  <2> QED
    BY <1>1, <1>3, <2>1 DEF CallerInv, SinkInv, EncoderPCs
<1> QED
  BY <1>5, <1>7, <1>8, <1>9, <1>10 DEF IInv, CallerInv

(* A reset binds the encoder to the call, whose sink gets its header.      *)
LEMMA EncodeResetKeepsIt ==
    ASSUME IInv, NEW c \in Callers, EncodeReset(c)
    PROVE  IInv'
<1> DEFINE e == call[c].obj
<1> DEFINE bound == resetEncoder(e, Me(c), call[c].job)
<1>1. /\ TypeInv /\ CallerInv(c) /\ call[c].pc = "reset" /\ call[c].job \in EncodeJobs
      /\ e \in Encoders /\ call[c].err = "nil" /\ HoldsEncoder(c)
      /\ UNCHANGED <<encoderPool, decoderPool, decoder>>
  <2>1. call[c].pc = "reset" /\ HoldsEncoder(c)
    BY DEF EncodeReset, At, HoldsEncoder, EncoderPCs
  <2> QED
    BY <2>1 DEF IInv, CallerInv, Ownership, EncoderInv, EncodeReset, EncoderPCs, decoding
<1>2. Handed(c) = 0 /\ Has(c, Handed(c)) /\ Has(c, 0)
  <2>1. Handed(c) = 0
    BY <1>1 DEF Handed
  <2> QED
    BY <1>1, <2>1 DEF CallerInv, SinkInv, EncoderPCs
<1>3. CASE call[c].job.fits
  <2>1. PICK outcome \in Outcomes :
           /\ encoder' = [encoder EXCEPT ![e] =
                             IF outcome = "sink" THEN [bound EXCEPT !.err = "sink"] ELSE bound]
           /\ sink' = [sink EXCEPT ![Me(c)] =
                 Append(@, [what |-> "header", of |-> bound.cfg, full |-> outcome = "nil"])]
           /\ Proceed(c, "write", outcome)
    BY <1>3 DEF EncodeReset
  <2>2. /\ bound \in EncoderType /\ bound.w = Me(c) /\ bound.cfg = Me(c)
        /\ bound.seeks = call[c].job.seeks /\ bound.err = "nil" /\ ~bound.closed /\ ~bound.odd
    <3>1. Me(c) \in Calls /\ call[c].job.seeks \in BOOLEAN
      BY <1>1, OwedShape, OneShotAssumption
    <3> QED
      BY <1>3, <3>1 DEF resetEncoder, NewEncoder, EncoderType, Owners, Errors
  <2> HIDE DEF bound
  <2>3. /\ call' \in [Callers -> CallType] /\ \A b \in Callers : b # c => call'[b] = call[b]
        /\ call'[c].obj = e /\ call'[c].job = call[c].job /\ call'[c].n = call[c].n
        /\ outcome = "nil" => call'[c].pc = "write" /\ call'[c].err = "nil"
        /\ outcome # "nil" => call'[c].pc = "deferred" /\ call'[c].err = outcome
    BY <1>1, <2>1, Goes, Leaves DEF Proceed, EncoderPCs, Outcomes, Errors
  <2>4. /\ encoder' \in [Encoders -> EncoderType]
        /\ \A f \in Encoders : f # e => encoder'[f] = encoder[f]
        /\ outcome = "nil" => encoder'[e] = bound
    BY <1>1, <2>1, <2>2 DEF TypeInv, EncoderType, Errors
  <2>5. /\ outcome = "nil" => Has(c, Handed(c))'
        /\ outcome # "nil" => IsCut(c)'
        /\ sink' \in [Calls -> Seq(Piece)]
        /\ \A b \in Callers : b # c =>
              \A i \in 0 .. MaxCalls : sink'[<<b, i>>] = sink[<<b, i>>]
        /\ \A i \in 0 .. MaxCalls : i > call[c].n => sink'[<<c, i>>] = sink[<<c, i>>]
    <3>1. sink' = [sink EXCEPT ![Me(c)] =
                 Append(@, [what |-> "header", of |-> Me(c), full |-> outcome = "nil"])]
      BY <2>1, <2>2
    <3>2. /\ Handed(c) \in Nat /\ 1 = Handed(c) + 1 /\ 1 \in 1 .. Len(Owed(c))
          /\ Owed(c)[1] = [what |-> "header", of |-> Me(c), full |-> TRUE]
      <4>1. Handed(c) \in Nat /\ 1 = Handed(c) + 1
        BY <1>2
      <4>2. 1 \in 1 .. Len(Owed(c))
        BY <1>1, PieceIsOwed
      <4>3. Owed(c)[1] = [what |-> "header", of |-> Me(c), full |-> TRUE]
        BY <1>1, PieceIsOwed
      <4> QED
        BY <4>1, <4>2, <4>3
    <3>3. outcome = "nil" => Handed(c)' = 1
      BY <2>3 DEF Handed
    <3> QED
      BY <1>1, <1>2, <2>3, <3>1, <3>2, <3>3, HandsNext
  <2>6. EncoderInv(c)'
    BY <2>2, <2>3, <2>4 DEF EncoderInv, Me
  <2>7. SinkInv(c)'
    <3>1. \A i \in 0 .. MaxCalls : i > call'[c].n => sink'[<<c, i>>] = <<>>
      BY <1>1, <2>3, <2>5 DEF CallerInv, SinkInv
    <3> QED
      BY <2>3, <2>5, <3>1 DEF SinkInv, Ended, EncoderPCs, Outcomes
  <2>8. HoldsEncoder(c)'
    BY <2>3 DEF HoldsEncoder, EncoderPCs
  <2> QED
    BY <1>1, <2>3, <2>4, <2>5, <2>6, <2>7, <2>8, EncoderStep
<1>4. CASE ~call[c].job.fits
  <2>1. /\ encoder' = [encoder EXCEPT ![e] = bound] /\ bound.err = "refused"
        /\ LeaveWith(c, "deferred", "refused") /\ UNCHANGED sink
    BY <1>4 DEF EncodeReset, resetEncoder, NewEncoder
  <2>2. /\ encoder' \in [Encoders -> EncoderType]
        /\ \A f \in Encoders : f # e => encoder'[f] = encoder[f]
    <3>1. bound \in EncoderType
      BY <1>4 DEF resetEncoder, NewEncoder, EncoderType, Owners, Errors
    <3> QED
      BY <1>1, <2>1, <3>1 DEF TypeInv
  <2>3. /\ call' \in [Callers -> CallType] /\ \A b \in Callers : b # c => call'[b] = call[b]
        /\ call'[c].obj = e /\ call'[c].job = call[c].job /\ call'[c].n = call[c].n
        /\ call'[c].pc = "deferred" /\ call'[c].err = "refused"
    BY <1>1, <2>1, Leaves DEF EncoderPCs, Errors
  <2>4. EncoderInv(c)' /\ HoldsEncoder(c)'
    BY <2>3 DEF EncoderInv, HoldsEncoder, EncoderPCs
  <2>5. SinkInv(c)'
    <3>1. Has(c, 0)'
      BY <1>2, <2>1, <2>3 DEF Has, Me
    <3> QED
      BY <1>1, <1>4, <2>1, <2>3, <3>1 DEF CallerInv, SinkInv, Ended, EncoderPCs
  <2> QED
    BY <1>1, <2>1, <2>2, <2>3, <2>4, <2>5, EncoderStep DEF TypeInv
<1> QED
  BY <1>3, <1>4

(* A write hands the audio to the sink the call gave, if there is any.     *)
LEMMA EncodeWriteKeepsIt ==
    ASSUME IInv, NEW c \in Callers, EncodeWrite(c)
    PROVE  IInv'
<1> DEFINE e == call[c].obj
<1>1. /\ TypeInv /\ CallerInv(c) /\ call[c].pc = "write" /\ call[c].job \in EncodeJobs
      /\ e \in Encoders /\ call[c].err = "nil" /\ HoldsEncoder(c)
      /\ UNCHANGED <<encoderPool, decoderPool, decoder>>
  <2>1. call[c].pc = "write" /\ HoldsEncoder(c)
    BY DEF EncodeWrite, At, HoldsEncoder, EncoderPCs
  <2> QED
    BY <2>1 DEF IInv, CallerInv, Ownership, EncoderInv, EncodeWrite, EncoderPCs, decoding
<1>2. Handed(c) = 1 /\ Has(c, Handed(c))
  BY <1>1 DEF CallerInv, SinkInv, EncoderPCs, Handed
<1>3. /\ encoder[e] \in EncoderType /\ Me(c) \in Calls /\ Refusal(e) = "nil"
      /\ encoder[e].err = "nil" /\ encoder[e].w = Me(c) /\ encoder[e].cfg = Me(c)
      /\ encoder[e].seeks = call[c].job.seeks /\ ~encoder[e].closed /\ ~encoder[e].odd
  <2>1. Me(c) \in Calls /\ Me(c) # Nobody
    BY <1>1, OwedShape
  <2>2. encoder[e] \in EncoderType
    BY <1>1 DEF TypeInv
  <2>3. /\ encoder[e].err = "nil" /\ encoder[e].w = Me(c) /\ encoder[e].cfg = Me(c)
        /\ encoder[e].seeks = call[c].job.seeks /\ ~encoder[e].closed /\ ~encoder[e].odd
    BY <1>1 DEF CallerInv, EncoderInv
  <2> QED
    BY <2>1, <2>2, <2>3 DEF Refusal
<1>4. CASE call[c].job.empty
  <2>1. Goto(c, "close") /\ UNCHANGED <<encoder, sink>>
    BY <1>3, <1>4 DEF EncodeWrite
  <2>2. /\ call' \in [Callers -> CallType] /\ \A b \in Callers : b # c => call'[b] = call[b]
        /\ call'[c].obj = e /\ call'[c].job = call[c].job /\ call'[c].n = call[c].n
        /\ call'[c].pc = "close" /\ call'[c].err = "nil"
    BY <1>1, <2>1, Goes DEF EncoderPCs
  <2>3. EncoderInv(c)' /\ HoldsEncoder(c)'
    <3>1. call[c].job.odd = FALSE /\ encoder[e].odd = FALSE
      BY <1>1, <1>3, <1>4, OneShotAssumption DEF EncoderType
    <3> QED
      BY <1>3, <2>1, <2>2, <3>1 DEF EncoderInv, HoldsEncoder, EncoderPCs, Me
  <2>4. SinkInv(c)'
    <3>1. Handed(c)' = 1 /\ Me(c)' = Me(c) /\ Owed(c)' = Owed(c)
      BY <1>4, <2>2 DEF Handed, Me, Owed, Stream
    <3>2. Has(c, 1)'
      BY <1>2, <2>1, <3>1 DEF Has
    <3>3. Has(c, Handed(c))'
      BY <3>1, <3>2 DEF Has
    <3> QED
      BY <1>1, <2>1, <2>2, <3>3 DEF CallerInv, SinkInv, EncoderPCs
  <2> QED
    BY <1>1, <2>1, <2>2, <2>3, <2>4, EncoderStep DEF TypeInv
<1>5. CASE ~call[c].job.empty
  <2>1. PICK outcome \in Outcomes :
           /\ Hand(e, "audio", Me(c), outcome)
           /\ encoder' = [encoder EXCEPT ![e].odd = call[c].job.odd,
                                         ![e].err = IF outcome = "sink" THEN "sink" ELSE @]
           /\ Proceed(c, "close", outcome)
    BY <1>3, <1>5 DEF EncodeWrite
  <2>2. /\ call' \in [Callers -> CallType] /\ \A b \in Callers : b # c => call'[b] = call[b]
        /\ call'[c].obj = e /\ call'[c].job = call[c].job /\ call'[c].n = call[c].n
        /\ outcome = "nil" => call'[c].pc = "close" /\ call'[c].err = "nil"
        /\ outcome # "nil" => call'[c].pc = "deferred" /\ call'[c].err = outcome
    BY <1>1, <2>1, Goes, Leaves DEF Proceed, EncoderPCs, Outcomes, Errors
  <2>3. /\ encoder' \in [Encoders -> EncoderType]
        /\ \A f \in Encoders : f # e => encoder'[f] = encoder[f]
        /\ outcome = "nil" =>
              /\ encoder'[e].err = "nil" /\ encoder'[e].w = Me(c) /\ encoder'[e].cfg = Me(c)
              /\ encoder'[e].seeks = call[c].job.seeks /\ ~encoder'[e].closed
              /\ encoder'[e].odd = call[c].job.odd
    <3>1. call[c].job.odd \in BOOLEAN
      BY <1>1, OneShotAssumption
    <3>2. encoder'[e] = [encoder[e] EXCEPT !.odd = call[c].job.odd,
                                           !.err = IF outcome = "sink" THEN "sink" ELSE @]
      BY <1>1, <2>1 DEF TypeInv
    <3>3. encoder'[e] \in EncoderType
      BY <1>3, <3>1, <3>2 DEF EncoderType, Errors
    <3>4. /\ encoder' \in [Encoders -> EncoderType]
          /\ \A f \in Encoders : f # e => encoder'[f] = encoder[f]
      BY <1>1, <2>1, <3>1 DEF TypeInv, EncoderType, Errors
    <3> QED
      BY <1>3, <3>2, <3>4 DEF EncoderType
  <2>4. /\ outcome = "nil" => Has(c, Handed(c))'
        /\ outcome # "nil" => IsCut(c)'
        /\ sink' \in [Calls -> Seq(Piece)]
        /\ \A b \in Callers : b # c =>
              \A i \in 0 .. MaxCalls : sink'[<<b, i>>] = sink[<<b, i>>]
        /\ \A i \in 0 .. MaxCalls : i > call[c].n => sink'[<<c, i>>] = sink[<<c, i>>]
    <3>1. sink' = [sink EXCEPT ![Me(c)] =
                 Append(@, [what |-> "audio", of |-> Me(c), full |-> outcome = "nil"])]
      BY <1>3, <2>1 DEF Hand
    <3>2. Handed(c) \in Nat /\ 2 = Handed(c) + 1
      BY <1>2
    <3>3. 2 \in 1 .. Len(Owed(c))
      BY <1>1, <1>5, PieceIsOwed
    <3>4. Owed(c)[2] = [what |-> "audio", of |-> Me(c), full |-> TRUE]
      BY <1>1, <1>5, PieceIsOwed
    <3>5. outcome = "nil" => Handed(c)' = 2
      BY <1>5, <2>2 DEF Handed
    <3> QED
      BY <1>1, <1>2, <2>2, <3>1, <3>2, <3>3, <3>4, <3>5, HandsNext
  <2>5. EncoderInv(c)' /\ HoldsEncoder(c)'
    BY <2>2, <2>3 DEF EncoderInv, HoldsEncoder, EncoderPCs, Me
  <2>6. SinkInv(c)'
    <3>1. \A i \in 0 .. MaxCalls : i > call'[c].n => sink'[<<c, i>>] = <<>>
      BY <1>1, <2>2, <2>4 DEF CallerInv, SinkInv
    <3> QED
      BY <2>2, <2>4, <3>1 DEF SinkInv, Ended, EncoderPCs, Outcomes
  <2> QED
    BY <1>1, <2>2, <2>3, <2>4, <2>5, <2>6, EncoderStep
<1> QED
  BY <1>4, <1>5

(* Close pads an odd audio of this call, never one of an earlier use.      *)
LEMMA EncodeCloseKeepsIt ==
    ASSUME IInv, NEW c \in Callers, EncodeClose(c)
    PROVE  IInv'
<1> DEFINE e == call[c].obj
<1>1. /\ TypeInv /\ CallerInv(c) /\ call[c].pc = "close" /\ call[c].job \in EncodeJobs
      /\ e \in Encoders /\ call[c].err = "nil" /\ HoldsEncoder(c)
      /\ UNCHANGED <<encoderPool, decoderPool, decoder>>
  <2>1. call[c].pc = "close" /\ HoldsEncoder(c)
    BY DEF EncodeClose, At, HoldsEncoder, EncoderPCs
  <2> QED
    BY <2>1 DEF IInv, CallerInv, Ownership, EncoderInv, EncodeClose, EncoderPCs, decoding
<1>2. Handed(c) = (IF call[c].job.empty THEN 1 ELSE 2) /\ Has(c, Handed(c))
  BY <1>1 DEF CallerInv, SinkInv, EncoderPCs, Handed
<1>3. /\ encoder[e] \in EncoderType /\ Me(c) \in Calls /\ Refusal(e) = "nil"
      /\ encoder[e].err = "nil" /\ encoder[e].w = Me(c) /\ encoder[e].cfg = Me(c)
      /\ encoder[e].seeks = call[c].job.seeks /\ encoder[e].odd = call[c].job.odd
  <2>1. Me(c) \in Calls /\ Me(c) # Nobody
    BY <1>1, OwedShape
  <2>2. encoder[e] \in EncoderType
    BY <1>1 DEF TypeInv
  <2>3. /\ encoder[e].err = "nil" /\ encoder[e].w = Me(c) /\ encoder[e].cfg = Me(c)
        /\ encoder[e].seeks = call[c].job.seeks /\ ~encoder[e].closed
        /\ encoder[e].odd = call[c].job.odd
    BY <1>1 DEF CallerInv, EncoderInv
  <2> QED
    BY <2>1, <2>2, <2>3 DEF Refusal
<1>4. /\ encoder' \in [Encoders -> EncoderType]
      /\ \A f \in Encoders : f # e => encoder'[f] = encoder[f]
      /\ encoder'[e].err = "nil" /\ encoder'[e].w = Me(c) /\ encoder'[e].cfg = Me(c)
      /\ encoder'[e].seeks = call[c].job.seeks
  <2>1. encoder' = [encoder EXCEPT ![e].closed = TRUE]
    BY DEF EncodeClose
  <2>2. /\ encoder' \in [Encoders -> EncoderType]
        /\ \A f \in Encoders : f # e => encoder'[f] = encoder[f]
    BY <1>1, <2>1 DEF TypeInv, EncoderType
  <2>3. encoder'[e] = [encoder[e] EXCEPT !.closed = TRUE]
    BY <1>1, <2>1 DEF TypeInv
  <2> QED
    BY <1>3, <2>2, <2>3 DEF EncoderType
<1>5. CASE ~encoder[e].odd
  <2>1. Goto(c, "patch") /\ UNCHANGED sink
    BY <1>3, <1>5 DEF EncodeClose
  <2>2. /\ call' \in [Callers -> CallType] /\ \A b \in Callers : b # c => call'[b] = call[b]
        /\ call'[c].obj = e /\ call'[c].job = call[c].job /\ call'[c].n = call[c].n
        /\ call'[c].pc = "patch" /\ call'[c].err = "nil"
    BY <1>1, <2>1, Goes DEF EncoderPCs
  <2>3. EncoderInv(c)' /\ HoldsEncoder(c)'
    BY <1>4, <2>2 DEF EncoderInv, HoldsEncoder, EncoderPCs, Me
  <2>4. SinkInv(c)'
    <3>1. Body(call[c].job) = Handed(c)
      BY <1>1, <1>2, <1>3, <1>5, BodySize
    <3>2. Handed(c)' = Handed(c) /\ Me(c)' = Me(c) /\ Owed(c)' = Owed(c)
      <4>1. Handed(c)' = Body(call[c].job)
        BY <2>2 DEF Handed, Body
      <4> QED
        BY <2>2, <3>1, <4>1 DEF Me, Owed, Stream
    <3>3. Has(c, Handed(c))'
      BY <1>2, <2>1, <3>2 DEF Has
    <3> QED
      BY <1>1, <2>1, <2>2, <3>3 DEF CallerInv, SinkInv, EncoderPCs
  <2> QED
    BY <1>1, <1>4, <2>1, <2>2, <2>3, <2>4, EncoderStep DEF TypeInv
<1>6. CASE encoder[e].odd
  <2>1. PICK outcome \in Outcomes :
           Hand(e, "pad", encoder[e].cfg, outcome) /\ Proceed(c, "patch", outcome)
    BY <1>3, <1>6 DEF EncodeClose
  <2>2. /\ call' \in [Callers -> CallType] /\ \A b \in Callers : b # c => call'[b] = call[b]
        /\ call'[c].obj = e /\ call'[c].job = call[c].job /\ call'[c].n = call[c].n
        /\ outcome = "nil" => call'[c].pc = "patch" /\ call'[c].err = "nil"
        /\ outcome # "nil" => call'[c].pc = "deferred" /\ call'[c].err = outcome
    BY <1>1, <2>1, Goes, Leaves DEF Proceed, EncoderPCs, Outcomes, Errors
  <2>3. call[c].job.odd /\ ~call[c].job.empty /\ Body(call[c].job) = 3
    BY <1>1, <1>3, <1>6, BodySize
  <2>4. /\ outcome = "nil" => Has(c, Handed(c))'
        /\ outcome # "nil" => IsCut(c)'
        /\ sink' \in [Calls -> Seq(Piece)]
        /\ \A b \in Callers : b # c =>
              \A i \in 0 .. MaxCalls : sink'[<<b, i>>] = sink[<<b, i>>]
        /\ \A i \in 0 .. MaxCalls : i > call[c].n => sink'[<<c, i>>] = sink[<<c, i>>]
    <3>1. sink' = [sink EXCEPT ![Me(c)] =
                 Append(@, [what |-> "pad", of |-> Me(c), full |-> outcome = "nil"])]
      BY <1>3, <2>1 DEF Hand
    <3>2. Handed(c) \in Nat /\ 3 = Handed(c) + 1
      BY <1>2, <2>3
    <3>3. 3 \in 1 .. Len(Owed(c))
      BY <1>1, <2>3, PieceIsOwed
    <3>4. Owed(c)[3] = [what |-> "pad", of |-> Me(c), full |-> TRUE]
      BY <1>1, <2>3, PieceIsOwed
    <3>5. outcome = "nil" => Handed(c)' = 3
      BY <2>2, <2>3 DEF Handed, Body
    <3> QED
      BY <1>1, <1>2, <2>2, <3>1, <3>2, <3>3, <3>4, <3>5, HandsNext
  <2>5. EncoderInv(c)' /\ HoldsEncoder(c)'
    BY <1>4, <2>2 DEF EncoderInv, HoldsEncoder, EncoderPCs, Me
  <2>6. SinkInv(c)'
    <3>1. \A i \in 0 .. MaxCalls : i > call'[c].n => sink'[<<c, i>>] = <<>>
      BY <1>1, <2>2, <2>4 DEF CallerInv, SinkInv
    <3> QED
      BY <2>2, <2>4, <3>1 DEF SinkInv, Ended, EncoderPCs, Outcomes
  <2> QED
    BY <1>1, <1>4, <2>2, <2>4, <2>5, <2>6, EncoderStep
<1> QED
  BY <1>5, <1>6

(* The sizes are stamped on the sink of this call, if that one can seek.   *)
LEMMA EncodePatchKeepsIt ==
    ASSUME IInv, NEW c \in Callers, EncodePatch(c)
    PROVE  IInv'
<1> DEFINE e == call[c].obj
<1>1. /\ TypeInv /\ CallerInv(c) /\ call[c].pc = "patch" /\ call[c].job \in EncodeJobs
      /\ e \in Encoders /\ call[c].err = "nil" /\ HoldsEncoder(c)
      /\ UNCHANGED <<encoderPool, encoder, decoderPool, decoder>>
  <2>1. call[c].pc = "patch" /\ HoldsEncoder(c)
    BY DEF EncodePatch, At, HoldsEncoder, EncoderPCs
  <2> QED
    BY <2>1 DEF IInv, CallerInv, Ownership, EncoderInv, EncodePatch, EncoderPCs, decoding
<1>2. Handed(c) = Body(call[c].job) /\ Has(c, Handed(c)) /\ Handed(c) \in 1 .. 3
  <2>1. Handed(c) = Body(call[c].job) /\ Has(c, Handed(c))
    BY <1>1 DEF CallerInv, SinkInv, EncoderPCs, Handed
  <2> QED
    BY <1>1, <2>1, BodySize
<1>3. /\ Me(c) \in Calls /\ encoder[e].w = Me(c) /\ encoder[e].cfg = Me(c)
      /\ encoder[e].seeks = call[c].job.seeks
  BY <1>1, OwedShape DEF CallerInv, EncoderInv
<1>4. CASE ~call[c].job.seeks
  <2>1. Goto(c, "deferred") /\ UNCHANGED sink
    BY <1>3, <1>4 DEF EncodePatch
  <2>2. /\ call' \in [Callers -> CallType] /\ \A b \in Callers : b # c => call'[b] = call[b]
        /\ call'[c].obj = e /\ call'[c].job = call[c].job /\ call'[c].n = call[c].n
        /\ call'[c].pc = "deferred" /\ call'[c].err = "nil"
    BY <1>1, <2>1, Goes DEF EncoderPCs
  <2>3. EncoderInv(c)' /\ HoldsEncoder(c)'
    BY <2>2 DEF EncoderInv, HoldsEncoder, EncoderPCs
  <2>4. SinkInv(c)'
    <3>1. Len(Owed(c)) = Handed(c)
      BY <1>1, <1>2, <1>4, PieceIsOwed
    <3>2. Has(c, Len(Owed(c)))'
      <4>1. Has(c, Len(Owed(c)))
        BY <1>2, <3>1
      <4>2. Owed(c)' = Owed(c) /\ Me(c)' = Me(c)
        BY <2>2 DEF Me, Owed, Stream
      <4> QED
        BY <2>1, <4>1, <4>2 DEF Has
    <3> QED
      BY <1>1, <2>1, <2>2, <3>2 DEF CallerInv, SinkInv, Ended, EncoderPCs
  <2> QED
    BY <1>1, <2>1, <2>2, <2>3, <2>4, EncoderStep DEF TypeInv
<1>5. CASE call[c].job.seeks
  <2>1. PICK outcome \in Outcomes :
           Hand(e, "sizes", encoder[e].cfg, outcome) /\ LeaveWith(c, "deferred", outcome)
    BY <1>3, <1>5 DEF EncodePatch
  <2>2. /\ call' \in [Callers -> CallType] /\ \A b \in Callers : b # c => call'[b] = call[b]
        /\ call'[c].obj = e /\ call'[c].job = call[c].job /\ call'[c].n = call[c].n
        /\ call'[c].pc = "deferred" /\ call'[c].err = outcome
    BY <1>1, <2>1, Leaves DEF EncoderPCs, Outcomes, Errors
  <2>3. /\ outcome = "nil" => Has(c, Len(Owed(c)))'
        /\ outcome # "nil" => IsCut(c)'
        /\ sink' \in [Calls -> Seq(Piece)]
        /\ \A b \in Callers : b # c =>
              \A i \in 0 .. MaxCalls : sink'[<<b, i>>] = sink[<<b, i>>]
        /\ \A i \in 0 .. MaxCalls : i > call[c].n => sink'[<<c, i>>] = sink[<<c, i>>]
    <3> DEFINE n == Body(call[c].job) + 1
    <3>1. sink' = [sink EXCEPT ![Me(c)] =
                 Append(@, [what |-> "sizes", of |-> Me(c), full |-> outcome = "nil"])]
      BY <1>3, <2>1 DEF Hand
    <3>2. Handed(c) \in Nat /\ n = Handed(c) + 1
      BY <1>2
    <3>3. n \in 1 .. Len(Owed(c)) /\ Len(Owed(c)) = n
      BY <1>1, <1>5, PieceIsOwed
    <3>4. Owed(c)[n] = [what |-> "sizes", of |-> Me(c), full |-> TRUE]
      BY <1>1, <1>5, PieceIsOwed
    <3> HIDE DEF n
    <3> QED
      BY <1>1, <1>2, <2>2, <3>1, <3>2, <3>3, <3>4, HandsNext
  <2>4. EncoderInv(c)' /\ HoldsEncoder(c)'
    BY <2>2 DEF EncoderInv, HoldsEncoder, EncoderPCs
  <2>5. SinkInv(c)'
    <3>1. \A i \in 0 .. MaxCalls : i > call'[c].n => sink'[<<c, i>>] = <<>>
      BY <1>1, <2>2, <2>3 DEF CallerInv, SinkInv
    <3> QED
      BY <2>2, <2>3, <3>1 DEF SinkInv, Ended, EncoderPCs, Outcomes
  <2> QED
    BY <1>1, <2>2, <2>3, <2>4, <2>5, EncoderStep DEF TypeInv
<1> QED
  BY <1>4, <1>5

(* The encoder is unbound before the pool has it.                          *)
LEMMA EncodeDeferredKeepsIt ==
    ASSUME IInv, NEW c \in Callers, EncodeDeferred(c)
    PROVE  IInv'
<1> DEFINE e == call[c].obj
<1>1. /\ TypeInv /\ CallerInv(c) /\ call[c].job \in EncodeJobs
      /\ e \in Encoders /\ HoldsEncoder(c)
      /\ UNCHANGED <<sink, decoderPool, decoder>>
  <2>1. call[c].pc \in {"deferred", "put"} /\ HoldsEncoder(c)
    BY DEF EncodeDeferred, At, HoldsEncoder, EncoderPCs
  <2> QED
    BY <2>1 DEF IInv, CallerInv, Ownership, EncodeDeferred, EncoderPCs, decoding
<1>2. CASE /\ At(c, "deferred") /\ encoder' = [encoder EXCEPT ![e] = Unbound(e)]
           /\ Goto(c, "put") /\ UNCHANGED encoderPool
  <2>1. /\ call' \in [Callers -> CallType] /\ \A b \in Callers : b # c => call'[b] = call[b]
        /\ call'[c].obj = e /\ call'[c].job = call[c].job /\ call'[c].n = call[c].n
        /\ call'[c].pc = "put" /\ call'[c].err = call[c].err
    BY <1>1, <1>2, Goes DEF EncoderPCs
  <2>2. Unbound(e) \in EncoderType /\ Unbound(e).w = Discard /\ Unbound(e).err = "nil"
    BY DEF Unbound, resetEncoder, NewEncoder, EncoderType, Owners, Errors
  <2>3. /\ encoder' \in [Encoders -> EncoderType] /\ encoder'[e] = Unbound(e)
        /\ \A f \in Encoders : f # e => encoder'[f] = encoder[f]
    BY <1>1, <1>2, <2>2 DEF TypeInv
  <2>4. EncoderInv(c)' /\ HoldsEncoder(c)'
    BY <2>1, <2>2, <2>3, OneShotAssumption DEF EncoderInv, HoldsEncoder, EncoderPCs
  <2>5. SinkInv(c)'
    <3>1. Ended(c)
      BY <1>1, <1>2 DEF CallerInv, SinkInv, At
    <3>2. Ended(c)'
      BY <1>1, <2>1, <3>1, EndedStays
    <3> QED
      BY <1>1, <2>1, <3>2 DEF CallerInv, SinkInv, EncoderPCs
  <2> QED
    BY <1>1, <1>2, <2>1, <2>3, <2>4, <2>5, EncoderStep DEF TypeInv
<1>3. CASE /\ At(c, "put") /\ encoderPool' = encoderPool \cup {e}
           /\ Goto(c, "idle") /\ UNCHANGED encoder
  <2>1. /\ call' \in [Callers -> CallType] /\ \A b \in Callers : b # c => call'[b] = call[b]
        /\ call'[c].obj = e /\ call'[c].job = call[c].job /\ call'[c].n = call[c].n
        /\ call'[c].pc = "idle" /\ call'[c].err = call[c].err
    BY <1>1, <1>3, Goes
  <2>2. TypeInv'
    BY <1>1, <1>3, <2>1 DEF TypeInv
  <2>3. ~HoldsEncoder(c)' /\ ~HoldsDecoder(c)'
    BY <2>1 DEF HoldsEncoder, HoldsDecoder, EncoderPCs, DecoderPCs
  <2>4. Exclusive'
    BY <2>1, <2>3, StillExclusive DEF IInv
  <2>5. PoolsClean'
    BY <1>1, <1>3 DEF IInv, PoolsClean, CallerInv, EncoderInv, At
  <2>6. \A b \in Callers : b # c => CallerInv(b)'
    <3> SUFFICES ASSUME NEW b \in Callers, b # c PROVE CallerInv(b)'
      OBVIOUS
    <3>1. CallerInv(b) /\ Ownership(b) /\ call[b].n \in 0 .. MaxCalls
      BY <1>1 DEF IInv, CallerInv, TypeInv, CallType
    <3>2. HoldsEncoder(b) => call[b].obj \notin encoderPool'
      BY <1>1, <1>3, <3>1 DEF IInv, Exclusive, Ownership
    <3>3. HoldsDecoder(b) => call[b].obj \notin decoderPool'
      BY <1>1, <3>1 DEF Ownership
    <3> QED
      BY <1>1, <1>3, <2>1, <3>1, <3>2, <3>3, OthersStay
  <2>7. Ownership(c)' /\ EncoderInv(c)' /\ DecoderInv(c)'
    BY <1>1, <2>1, <2>3, OneShotAssumption
       DEF Ownership, EncoderInv, DecoderInv, EncoderPCs, DecoderPCs
  <2>8. SinkInv(c)'
    <3>1. Ended(c)
      BY <1>1, <1>3 DEF CallerInv, SinkInv, At
    <3>2. Ended(c)'
      BY <1>1, <2>1, <3>1, EndedStays
    <3> QED
      BY <1>1, <2>1, <3>2 DEF CallerInv, SinkInv, EncoderPCs
  <2> QED
    BY <2>2, <2>4, <2>5, <2>6, <2>7, <2>8 DEF IInv, CallerInv
<1> QED
  BY <1>2, <1>3 DEF EncodeDeferred

(* A decoder is drawn that no other call has.                              *)
LEMMA GetDecoderKeepsIt ==
    ASSUME IInv, NEW c \in Callers, GetDecoder(c)
    PROVE  IInv'
<1>1. TypeInv /\ CallerInv(c) /\ call[c].pc = "getDecoder"
  BY DEF IInv, GetDecoder, At
<1>2. PICK d \in decoderPool \cup (Decoders \ Held) :
          /\ decoderPool' = decoderPool \ {d}
          /\ decoder' = IF d \in decoderPool THEN decoder
                        ELSE [decoder EXCEPT ![d] = NewDecoder]
          /\ call' = [call EXCEPT ![c].obj = d, ![c].pc = "parse"]
  BY DEF GetDecoder
<1>3. /\ UNCHANGED <<sink, encoderPool, encoder>> /\ d \in Decoders
      /\ \A b \in Callers : b # c => call'[b] = call[b]
      /\ call'[c].n = call[c].n /\ call'[c].job = call[c].job /\ call'[c].err = call[c].err
      /\ call'[c].pc = "parse" /\ call'[c].obj = d /\ call'[c] \in CallType
  <2>1. d \in Decoders /\ "parse" \in DecoderPCs
    BY <1>1 DEF TypeInv, DecoderPCs
  <2>2. call[c] \in CallType /\ call \in [Callers -> CallType]
    BY <1>1 DEF TypeInv
  <2>3. call'[c] = [call[c] EXCEPT !.obj = d, !.pc = "parse"]
    BY <1>2, <2>2
  <2>4. \A b \in Callers : b # c => call'[b] = call[b]
    BY <1>2, <2>2
  <2> QED
    BY <2>1, <2>2, <2>3, <2>4 DEF GetDecoder, encoding, CallType
<1>4. NewDecoder \in DecoderType
  BY DEF NewDecoder, DecoderType, Owners, Errors
<1>5. TypeInv'
  BY <1>1, <1>2, <1>3, <1>4 DEF TypeInv
<1>6. \A b \in Callers : b # c /\ HoldsDecoder(b) => call[b].obj # d
  <2> SUFFICES ASSUME NEW b \in Callers, b # c, HoldsDecoder(b) PROVE call[b].obj # d
    OBVIOUS
  <2>1. call[b].obj \notin decoderPool
    BY DEF IInv, CallerInv, Ownership
  <2>2. call[b].obj \in Held
    BY DEF Held, HoldsDecoder, DecoderPCs
  <2> QED
    BY <1>2, <2>1, <2>2
<1>7. Exclusive' /\ PoolsClean'
  <2>1. ~HoldsEncoder(c)'
    BY <1>3 DEF HoldsEncoder, EncoderPCs
  <2>2. Exclusive'
    BY <1>3, <1>6, <2>1, StillExclusive DEF IInv
  <2>3. PoolsClean'
    BY <1>1, <1>2, <1>3 DEF IInv, PoolsClean, TypeInv
  <2> QED
    BY <2>2, <2>3
<1>8. \A b \in Callers : b # c => CallerInv(b)'
  <2> SUFFICES ASSUME NEW b \in Callers, b # c PROVE CallerInv(b)'
    OBVIOUS
  <2>1. CallerInv(b) /\ Ownership(b) /\ call[b].n \in 0 .. MaxCalls
    BY <1>1 DEF IInv, CallerInv, TypeInv, CallType
  <2>2. HoldsDecoder(b) => /\ decoder'[call[b].obj] = decoder[call[b].obj]
                           /\ call[b].obj \notin decoderPool'
    BY <1>1, <1>2, <1>6, <2>1 DEF TypeInv, Ownership
  <2>3. HoldsEncoder(b) => /\ encoder'[call[b].obj] = encoder[call[b].obj]
                           /\ call[b].obj \notin encoderPool'
    BY <1>3, <2>1 DEF Ownership
  <2> QED
    BY <1>3, <2>1, <2>2, <2>3, OthersStay
<1>9. Ownership(c)' /\ EncoderInv(c)' /\ DecoderInv(c)'
  BY <1>1, <1>2, <1>3, OneShotAssumption
     DEF CallerInv, Ownership, EncoderInv, DecoderInv, HoldsEncoder, HoldsDecoder,
         EncoderPCs, DecoderPCs
<1>10. SinkInv(c)'
  BY <1>1, <1>3 DEF CallerInv, SinkInv, EncoderPCs
<1> QED
  BY <1>5, <1>7, <1>8, <1>9, <1>10 DEF IInv, CallerInv

(* A step of a decode on the decoder it holds disturbs no other call.      *)
LEMMA DecoderStep ==
    ASSUME IInv, NEW c \in Callers, HoldsDecoder(c), HoldsDecoder(c)',
           call' \in [Callers -> CallType], \A b \in Callers : b # c => call'[b] = call[b],
           call'[c].obj = call[c].obj, call'[c].job = call[c].job, call'[c].n = call[c].n,
           decoder' \in [Decoders -> DecoderType],
           \A d \in Decoders : d # call[c].obj => decoder'[d] = decoder[d],
           UNCHANGED <<encoderPool, encoder, decoderPool, sink>>,
           DecoderInv(c)'
    PROVE  IInv'
<1>1. TypeInv /\ TypeInv' /\ Ownership(c) /\ SinkInv(c)
  BY DEF IInv, TypeInv, CallerInv
<1>2. call[c].obj \in Decoders \ decoderPool /\ call[c].job \in DecodeJobs
  BY <1>1 DEF Ownership, HoldsDecoder
<1>3. Exclusive'
  <2>1. \A b \in Callers : b # c /\ HoldsDecoder(b) => call[b].obj # call[c].obj
    BY DEF IInv, Exclusive
  <2>2. ~HoldsEncoder(c)'
    BY DEF HoldsEncoder, HoldsDecoder, EncoderPCs, DecoderPCs
  <2> QED
    BY <2>1, <2>2, StillExclusive DEF IInv
<1>4. PoolsClean'
  BY <1>1, <1>2 DEF IInv, PoolsClean, TypeInv
<1>5. \A b \in Callers : b # c => CallerInv(b)'
  <2> SUFFICES ASSUME NEW b \in Callers, b # c PROVE CallerInv(b)'
    OBVIOUS
  <2>1. CallerInv(b) /\ Ownership(b) /\ call[b].n \in 0 .. MaxCalls
    BY <1>1 DEF IInv, CallerInv, TypeInv, CallType
  <2>2. HoldsDecoder(b) => /\ decoder'[call[b].obj] = decoder[call[b].obj]
                           /\ call[b].obj \notin decoderPool'
    BY <2>1 DEF IInv, Exclusive, Ownership
  <2>3. HoldsEncoder(b) => /\ encoder'[call[b].obj] = encoder[call[b].obj]
                           /\ call[b].obj \notin encoderPool'
    BY <2>1 DEF Ownership
  <2> QED
    BY <2>1, <2>2, <2>3, OthersStay
<1>6. Ownership(c)' /\ EncoderInv(c)' /\ SinkInv(c)'
  BY <1>1, <1>2, OneShotAssumption
     DEF Ownership, EncoderInv, SinkInv, HoldsEncoder, HoldsDecoder, EncoderPCs, DecoderPCs
<1> QED
  BY <1>1, <1>3, <1>4, <1>5, <1>6 DEF IInv, CallerInv

(* A parse leaves in the decoder what belongs to this call alone.          *)
LEMMA DecodeParseKeepsIt ==
    ASSUME IInv, NEW c \in Callers, DecodeParse(c)
    PROVE  IInv'
<1> DEFINE d == call[c].obj
<1> DEFINE bound == resetDecoder(d, Me(c), call[c].job)
<1>1. /\ TypeInv /\ CallerInv(c) /\ call[c].pc = "parse" /\ call[c].job \in DecodeJobs
      /\ d \in Decoders /\ call[c].err = "nil" /\ HoldsDecoder(c) /\ Me(c) \in Calls
      /\ UNCHANGED <<encoderPool, encoder, decoderPool, sink>>
  <2>1. call[c].pc = "parse" /\ HoldsDecoder(c)
    BY DEF DecodeParse, At, HoldsDecoder, DecoderPCs
  <2>2. Me(c) \in Calls
    BY MeIsACall DEF IInv
  <2> QED
    BY <2>1, <2>2 DEF IInv, CallerInv, Ownership, DecoderInv, DecodeParse, DecoderPCs, encoding
<1>2. call[c].job.sound \in BOOLEAN /\ call[c].job.converts \in BOOLEAN
  BY <1>1, OneShotAssumption
<1>3. /\ bound \in DecoderType
      /\ call[c].job.sound => /\ bound.remaining = Me(c) /\ bound.info = Me(c)
                              /\ bound.convert = call[c].job.converts
  BY <1>1, <1>2 DEF resetDecoder, NewDecoder, DecoderType, Owners, Errors
<1> HIDE DEF bound
<1>4. /\ decoder' \in [Decoders -> DecoderType] /\ decoder'[d] = bound
      /\ \A f \in Decoders : f # d => decoder'[f] = decoder[f]
  <2>1. decoder' = [decoder EXCEPT ![d] = bound]
    BY DEF DecodeParse, bound
  <2> QED
    BY <1>1, <1>3, <2>1 DEF TypeInv
<1>5. CASE call[c].job.sound
  <2>1. Goto(c, "slice")
    BY <1>5 DEF DecodeParse
  <2>2. /\ call' \in [Callers -> CallType] /\ \A b \in Callers : b # c => call'[b] = call[b]
        /\ call'[c].obj = d /\ call'[c].job = call[c].job /\ call'[c].n = call[c].n
        /\ call'[c].pc = "slice" /\ call'[c].err = "nil"
    BY <1>1, <2>1, Goes DEF DecoderPCs
  <2>3. DecoderInv(c)' /\ HoldsDecoder(c)'
    BY <1>3, <1>4, <1>5, <2>2 DEF DecoderInv, HoldsDecoder, DecoderPCs, Me
  <2> QED
    BY <1>1, <1>4, <2>2, <2>3, DecoderStep
<1>6. CASE ~call[c].job.sound
  <2>1. LeaveWith(c, "release", "corrupt")
    BY <1>6 DEF DecodeParse
  <2>2. /\ call' \in [Callers -> CallType] /\ \A b \in Callers : b # c => call'[b] = call[b]
        /\ call'[c].obj = d /\ call'[c].job = call[c].job /\ call'[c].n = call[c].n
        /\ call'[c].pc = "release" /\ call'[c].err = "corrupt"
    BY <1>1, <2>1, Leaves DEF DecoderPCs, Errors
  <2>3. DecoderInv(c)' /\ HoldsDecoder(c)'
    BY <1>6, <2>2 DEF DecoderInv, HoldsDecoder, DecoderPCs
  <2> QED
    BY <1>1, <1>4, <2>2, <2>3, DecoderStep
<1> QED
  BY <1>5, <1>6

(* The result is cut from the call's own input by the call's own header.   *)
LEMMA DecodeSliceKeepsIt ==
    ASSUME IInv, NEW c \in Callers, DecodeSlice(c)
    PROVE  IInv'
<1> DEFINE d == call[c].obj
<1> DEFINE res == [audio |-> decoder[d].remaining, info |-> decoder[d].info,
                   converted |-> decoder[d].convert]
<1>1. /\ TypeInv /\ CallerInv(c) /\ call[c].pc = "slice" /\ call[c].job \in DecodeJobs
      /\ d \in Decoders /\ call[c].err = "nil" /\ HoldsDecoder(c)
      /\ UNCHANGED <<encoderPool, encoder, decoderPool, decoder, sink>>
  <2>1. call[c].pc = "slice" /\ HoldsDecoder(c)
    BY DEF DecodeSlice, At, HoldsDecoder, DecoderPCs
  <2> QED
    BY <2>1 DEF IInv, CallerInv, Ownership, DecoderInv, DecodeSlice, DecoderPCs, encoding,
                decoding
<1>2. /\ decoder[d].remaining = Me(c) /\ decoder[d].info = Me(c)
      /\ decoder[d].convert = call[c].job.converts
  BY <1>1 DEF CallerInv, DecoderInv
<1>3. res \in ResultType
  BY <1>1 DEF TypeInv, DecoderType, ResultType
<1>4. res = [audio |-> Me(c), info |-> Me(c), converted |-> call[c].job.converts]
  BY <1>2
<1> HIDE DEF res
<1>5. /\ call' \in [Callers -> CallType] /\ \A b \in Callers : b # c => call'[b] = call[b]
      /\ call'[c].obj = d /\ call'[c].job = call[c].job /\ call'[c].n = call[c].n
      /\ call'[c].pc = "release" /\ call'[c].err = "nil" /\ call'[c].res = res
  <2>1. call[c] \in CallType /\ call \in [Callers -> CallType] /\ "release" \in DecoderPCs
    BY <1>1 DEF TypeInv, DecoderPCs
  <2>2. call' = [call EXCEPT ![c].pc = "release", ![c].res = res]
    BY DEF DecodeSlice, res
  <2>3. /\ call'[c] = [call[c] EXCEPT !.pc = "release", !.res = res]
        /\ \A b \in Callers : b # c => call'[b] = call[b]
    BY <2>1, <2>2
  <2>4. call'[c] \in CallType
    BY <1>3, <2>1, <2>3 DEF CallType
  <2> QED
    BY <1>1, <2>1, <2>2, <2>3, <2>4 DEF CallType
<1>6. DecoderInv(c)' /\ HoldsDecoder(c)'
  BY <1>1, <1>4, <1>5, OneShotAssumption DEF DecoderInv, HoldsDecoder, DecoderPCs, Me
<1> QED
  BY <1>1, <1>5, <1>6, DecoderStep DEF TypeInv

(* The input and the header are let go before the pool has the decoder.    *)
LEMMA DecodeDeferredKeepsIt ==
    ASSUME IInv, NEW c \in Callers, DecodeDeferred(c)
    PROVE  IInv'
<1> DEFINE d == call[c].obj
<1>1. /\ TypeInv /\ CallerInv(c) /\ call[c].job \in DecodeJobs
      /\ d \in Decoders /\ HoldsDecoder(c)
      /\ UNCHANGED <<sink, encoderPool, encoder>>
  <2>1. call[c].pc \in {"release", "store"} /\ HoldsDecoder(c)
    BY DEF DecodeDeferred, At, HoldsDecoder, DecoderPCs
  <2> QED
    BY <2>1 DEF IInv, CallerInv, Ownership, DecodeDeferred, DecoderPCs, encoding
<1>2. CASE /\ At(c, "release")
           /\ decoder' = [decoder EXCEPT ![d].r = Nobody, ![d].hdr = Nobody]
           /\ Goto(c, "store") /\ UNCHANGED decoderPool
  <2>1. /\ call' \in [Callers -> CallType] /\ \A b \in Callers : b # c => call'[b] = call[b]
        /\ call'[c].obj = d /\ call'[c].job = call[c].job /\ call'[c].n = call[c].n
        /\ call'[c].pc = "store" /\ call'[c].err = call[c].err /\ call'[c].res = call[c].res
    BY <1>1, <1>2, Goes DEF DecoderPCs
  <2>2. decoder[d] \in DecoderType
    BY <1>1 DEF TypeInv
  <2>3. /\ decoder'[d] = [decoder[d] EXCEPT !.r = Nobody, !.hdr = Nobody]
        /\ \A f \in Decoders : f # d => decoder'[f] = decoder[f]
    BY <1>1, <1>2 DEF TypeInv
  <2>4. decoder'[d] \in DecoderType /\ decoder'[d].r = Nobody /\ decoder'[d].hdr = Nobody
    BY <2>2, <2>3 DEF DecoderType, Owners
  <2>5. decoder' \in [Decoders -> DecoderType]
    BY <1>1, <1>2 DEF TypeInv, DecoderType, Owners
  <2>6. DecoderInv(c)' /\ HoldsDecoder(c)'
    BY <1>1, <1>2, <2>1, <2>4 DEF CallerInv, DecoderInv, HoldsDecoder, DecoderPCs, At, Me
  <2> QED
    BY <1>1, <1>2, <2>1, <2>3, <2>5, <2>6, DecoderStep
<1>3. CASE /\ At(c, "store") /\ decoderPool' = decoderPool \cup {d}
           /\ Goto(c, "idle") /\ UNCHANGED decoder
  <2>1. /\ call' \in [Callers -> CallType] /\ \A b \in Callers : b # c => call'[b] = call[b]
        /\ call'[c].obj = d /\ call'[c].job = call[c].job /\ call'[c].n = call[c].n
        /\ call'[c].pc = "idle" /\ call'[c].err = call[c].err /\ call'[c].res = call[c].res
    BY <1>1, <1>3, Goes
  <2>2. TypeInv'
    BY <1>1, <1>3, <2>1 DEF TypeInv
  <2>3. ~HoldsEncoder(c)' /\ ~HoldsDecoder(c)'
    BY <2>1 DEF HoldsEncoder, HoldsDecoder, EncoderPCs, DecoderPCs
  <2>4. Exclusive'
    BY <2>1, <2>3, StillExclusive DEF IInv
  <2>5. PoolsClean'
    BY <1>1, <1>3 DEF IInv, PoolsClean, CallerInv, DecoderInv, At
  <2>6. \A b \in Callers : b # c => CallerInv(b)'
    <3> SUFFICES ASSUME NEW b \in Callers, b # c PROVE CallerInv(b)'
      OBVIOUS
    <3>1. CallerInv(b) /\ Ownership(b) /\ call[b].n \in 0 .. MaxCalls
      BY <1>1 DEF IInv, CallerInv, TypeInv, CallType
    <3>2. HoldsDecoder(b) => call[b].obj \notin decoderPool'
      BY <1>1, <1>3, <3>1 DEF IInv, Exclusive, Ownership
    <3>3. HoldsEncoder(b) => call[b].obj \notin encoderPool'
      BY <1>1, <3>1 DEF Ownership
    <3> QED
      BY <1>1, <1>3, <2>1, <3>1, <3>2, <3>3, OthersStay
  <2>7. Ownership(c)' /\ EncoderInv(c)' /\ SinkInv(c)'
    BY <1>1, <2>1, <2>3, OneShotAssumption
       DEF CallerInv, Ownership, EncoderInv, SinkInv, EncoderPCs, DecoderPCs
  <2>8. DecoderInv(c)'
    BY <1>1, <1>3, <2>1 DEF CallerInv, DecoderInv, At, Me
  <2> QED
    BY <2>2, <2>4, <2>5, <2>6, <2>7, <2>8 DEF IInv, CallerInv
<1> QED
  BY <1>2, <1>3 DEF DecodeDeferred

-----------------------------------------------------------------------------
(* The invariant holds.                                                    *)

(* At first nobody has called, and the pools are empty.                    *)
LEMMA InitIInv == Init => IInv
<1> SUFFICES ASSUME Init PROVE IInv
  OBVIOUS
<1>1. /\ NewEncoder \in EncoderType /\ NewDecoder \in DecoderType /\ Idle \in CallType
      /\ <<>> \in Seq(Piece)
  BY OneShotAssumption
     DEF NewEncoder, EncoderType, NewDecoder, DecoderType, Idle, CallType, ResultType,
         NoResult, Owners, Errors
<1>2. \A c \in Callers : call[c].pc = "idle" /\ call[c].n = 0 /\ call[c].job = Nobody
  BY DEF Init, Idle
<1>3. TypeInv /\ PoolsClean
  BY <1>1 DEF Init, TypeInv, PoolsClean
<1>4. Exclusive
  BY <1>2 DEF Exclusive, HoldsEncoder, HoldsDecoder, EncoderPCs, DecoderPCs
<1>5. ASSUME NEW c \in Callers PROVE CallerInv(c)
  <2>1. Ownership(c) /\ EncoderInv(c) /\ DecoderInv(c)
    BY <1>2, OneShotAssumption
       DEF Ownership, EncoderInv, DecoderInv, HoldsEncoder, HoldsDecoder, EncoderPCs,
           DecoderPCs
  <2>2. SinkInv(c)
    BY <1>2, OneShotAssumption DEF Init, SinkInv, EncoderPCs, Calls
  <2> QED
    BY <2>1, <2>2 DEF CallerInv
<1> QED
  BY <1>3, <1>4, <1>5 DEF IInv

(* A step that changes nothing keeps it.                                   *)
LEMMA StutterKeepsIt ==
    ASSUME IInv, UNCHANGED vars
    PROVE  IInv'
<1>1. TypeInv' /\ Exclusive' /\ PoolsClean'
  BY DEF IInv, vars, TypeInv, Exclusive, PoolsClean, HoldsEncoder, HoldsDecoder
<1>2. ASSUME NEW c \in Callers PROVE CallerInv(c)'
  <2>1. CallerInv(c) /\ Ownership(c) /\ call[c].n \in 0 .. MaxCalls
    BY DEF IInv, CallerInv, TypeInv, CallType
  <2> QED
    BY <2>1, OthersStay DEF vars, Ownership
<1> QED
  BY <1>1, <1>2 DEF IInv

(* Whatever call moves next, and however many are under way.               *)
LEMMA NextKeepsIt ==
    ASSUME IInv, [Next]_vars
    PROVE  IInv'
<1>1. ASSUME NEW c \in Callers, EncodeBegins(c) PROVE IInv'
  <2>1. PICK job \in EncodeJobs :
           IF job.valid /\ job.whole
           THEN Begin(c, job, "getEncoder", "nil")
           ELSE Begin(c, job, "idle", "refused")
    BY <1>1 DEF EncodeBegins
  <2>2. UNCHANGED <<encoding, decoding>>
    BY <1>1 DEF EncodeBegins
  <2>3. CASE job.valid /\ job.whole
    BY <2>1, <2>2, <2>3, BeginKeepsIt
  <2>4. CASE ~(job.valid /\ job.whole)
    BY <2>1, <2>2, <2>4, BeginKeepsIt
  <2> QED
    BY <2>3, <2>4
<1>2. ASSUME NEW c \in Callers, DecodeBegins(c) PROVE IInv'
  <2>1. PICK job \in DecodeJobs : Begin(c, job, "getDecoder", "nil")
    BY <1>2 DEF DecodeBegins
  <2>2. UNCHANGED <<encoding, decoding>>
    BY <1>2 DEF DecodeBegins
  <2> QED
    BY <2>1, <2>2, BeginKeepsIt
<1>3. ASSUME NEW c \in Callers, EncodeInterleaved(c) PROVE IInv'
  BY <1>1, <1>3, GetEncoderKeepsIt, EncodeResetKeepsIt, EncodeWriteKeepsIt,
     EncodeCloseKeepsIt, EncodePatchKeepsIt, EncodeDeferredKeepsIt DEF EncodeInterleaved
<1>4. ASSUME NEW c \in Callers, DecodeInterleavedBytes(c) PROVE IInv'
  BY <1>2, <1>4, GetDecoderKeepsIt, DecodeParseKeepsIt, DecodeSliceKeepsIt,
     DecodeDeferredKeepsIt DEF DecodeInterleavedBytes
<1>5. CASE UNCHANGED vars
  BY <1>5, StutterKeepsIt
<1> QED
  BY <1>3, <1>4, <1>5 DEF Next

(* The inductive invariant holds in every state the callers reach.         *)
THEOREM Invariance == Spec => []IInv
<1>1. Init => IInv
  BY InitIInv
<1>2. IInv /\ [Next]_vars => IInv'
  BY NextKeepsIt
<1> QED
  BY <1>1, <1>2, PTL DEF Spec

(* Every variable keeps its type.                                          *)
THEOREM TypeCorrect == Spec => []TypeInv
<1>1. IInv => TypeInv
  BY DEF IInv
<1> QED
  BY <1>1, Invariance, PTL

(* However many callers share the pools, an object lying in one pins       *)
(* nothing of its last call, and no object is in two callers' hands.       *)
THEOREM PoolsPinNothing == Spec => []PooledObjectsPinNothing
<1>1. ASSUME IInv PROVE PooledObjectsPinNothing
  <2>1. ASSUME NEW c \in Callers, call[c].pc # "idle"
        PROVE  HoldsEncoder(c) \/ HoldsDecoder(c) \/ call[c].obj = Nobody
    BY <1>1, <2>1 DEF IInv, TypeInv, CallType, CallerInv, Ownership, HoldsEncoder, HoldsDecoder
  <2>2. ASSUME NEW o \in encoderPool \cup decoderPool, NEW c \in Callers, call[c].obj = o
        PROVE  call[c].pc = "idle"
    <3>1. o \in Encoders \cup Decoders /\ o # Nobody
      BY <1>1, <2>2, OneShotAssumption DEF IInv, TypeInv
    <3>2. Ownership(c)
      BY <1>1 DEF IInv, CallerInv
    <3> QED
      BY <1>1, <2>1, <2>2, <3>1, <3>2, OneShotAssumption DEF IInv, TypeInv, Ownership
  <2>3. ASSUME NEW b \in Callers, NEW c \in Callers, b # c,
               call[b].pc # "idle", call[c].pc # "idle", call[b].obj # Nobody
        PROVE  call[b].obj # call[c].obj
    <3>1. Ownership(b) /\ Ownership(c)
      BY <1>1 DEF IInv, CallerInv
    <3> QED
      BY <1>1, <2>1, <2>3, <3>1, OneShotAssumption DEF IInv, Exclusive, Ownership
  <2> QED
    BY <1>1, <2>2, <2>3 DEF IInv, PoolsClean, PooledObjectsPinNothing
<1> QED
  BY <1>1, Invariance, PTL

(* However many decodes run, a result is cut, described and converted by   *)
(* its own call's input and options.                                       *)
THEOREM ResultsAreOwn == Spec => []EachResultItsOwn
<1>1. ASSUME IInv PROVE EachResultItsOwn
  <2> SUFFICES ASSUME NEW c \in Callers, Returned(c), ~Encodes(c), call[c].err = "nil"
               PROVE  call[c].res = [audio |-> Me(c), info |-> Me(c),
                                     converted |-> call[c].job.converts]
    BY DEF EachResultItsOwn
  <2>1. call[c].pc = "idle" /\ call[c].n > 0 /\ call[c].job \notin EncodeJobs
    BY DEF Returned, At, Encodes
  <2>2. Ownership(c) /\ DecoderInv(c) /\ call[c] \in CallType
    BY <1>1 DEF IInv, CallerInv, TypeInv
  <2>3. call[c].job \in DecodeJobs
    BY <2>1, <2>2 DEF Ownership, CallType
  <2> QED
    BY <2>1, <2>2, <2>3 DEF DecoderInv
<1> QED
  BY <1>1, Invariance, PTL

(* However many calls share the pools, none reports the failure of         *)
(* another.                                                                *)
THEOREM FailuresAreOwn == Spec => []FailuresStayWithTheirCall
<1>1. ASSUME IInv PROVE FailuresStayWithTheirCall
  <2> SUFFICES ASSUME NEW c \in Callers, Returned(c)
               PROVE  CASE call[c].err = "nil" -> TRUE
                        [] call[c].err = "refused" ->
                              ~(call[c].job.valid /\ call[c].job.whole /\ call[c].job.fits)
                        [] call[c].err \in {"sink", "panic"} ->
                              \E i \in DOMAIN sink[Me(c)] : ~sink[Me(c)][i].full
                        [] call[c].err = "corrupt" -> ~call[c].job.sound
                        [] OTHER -> FALSE
    BY DEF FailuresStayWithTheirCall
  <2>1. call[c].pc = "idle" /\ call[c].n > 0
    BY DEF Returned, At
  <2>2. CallerInv(c) /\ TypeInv /\ call[c] \in CallType
    BY <1>1 DEF IInv, TypeInv
  <2>3. call[c].job \in EncodeJobs \/ call[c].job \in DecodeJobs
    BY <2>1, <2>2 DEF CallerInv, Ownership, CallType
  <2>4. CASE call[c].job \in DecodeJobs
    BY <2>1, <2>2, <2>4 DEF CallerInv, DecoderInv
  <2>5. CASE call[c].job \in EncodeJobs
    <3>1. Ended(c)
      BY <2>1, <2>2, <2>5 DEF CallerInv, SinkInv
    <3>2. IsCut(c) => \E i \in DOMAIN sink[Me(c)] : ~sink[Me(c)][i].full
      <4> SUFFICES ASSUME IsCut(c) PROVE \E i \in DOMAIN sink[Me(c)] : ~sink[Me(c)][i].full
        OBVIOUS
      <4>1. PICK m \in 1 .. Len(Owed(c)) :
               /\ Len(sink[Me(c)]) = m
               /\ sink[Me(c)][m] = [Owed(c)[m] EXCEPT !.full = FALSE]
        BY DEF IsCut
      <4>2. Owed(c) \in Seq(Piece) /\ sink[Me(c)] \in Seq(Piece)
        BY <2>2, <2>5, StreamShape, MeIsACall DEF Owed, TypeInv
      <4>3. m \in DOMAIN sink[Me(c)] /\ Owed(c)[m] \in Piece
        BY <4>1, <4>2
      <4>4. ~sink[Me(c)][m].full
        BY <4>1, <4>3 DEF Piece
      <4> QED
        BY <4>3, <4>4
    <3> QED
      BY <3>1, <3>2 DEF Ended
  <2> QED
    BY <2>3, <2>4, <2>5
<1> QED
  BY <1>1, Invariance, PTL

(* A sequence that agrees with another as far as it goes is a prefix of it.*)
LEMMA AgreesIsPrefix ==
    ASSUME NEW S, NEW s \in Seq(S), NEW t \in Seq(S),
           Len(s) <= Len(t), \A i \in 1 .. Len(s) : s[i] = t[i]
    PROVE  IsPrefix(s, t)
<1> DEFINE a == SubSeq(s, 1, Len(s))
<1> DEFINE b == SubSeq(t, 1, Len(s))
<1>1. /\ Len(s) \in Nat /\ Len(t) \in Nat
      /\ \A i \in 1 .. Len(s) : s[i] \in S /\ t[i] \in S
  OBVIOUS
<1>2. /\ a \in Seq(S) /\ Len(a) = Len(s)
      /\ \A i \in 1 .. Len(s) : a[i] = s[i]
  <2>1. /\ a \in Seq(S) /\ Len(a) = (IF 1 <= Len(s) THEN Len(s) - 1 + 1 ELSE 0)
        /\ \A i \in 1 .. Len(s) - 1 + 1 : a[i] = s[1 + i - 1]
    BY <1>1, SubSeqProperties
  <2> HIDE DEF a
  <2> QED
    BY <1>1, <2>1
<1>3. /\ b \in Seq(S) /\ Len(b) = Len(s)
      /\ \A i \in 1 .. Len(s) : b[i] = t[i]
  <2>1. /\ b \in Seq(S) /\ Len(b) = (IF 1 <= Len(s) THEN Len(s) - 1 + 1 ELSE 0)
        /\ \A i \in 1 .. Len(s) - 1 + 1 : b[i] = t[1 + i - 1]
    BY <1>1, SubSeqProperties
  <2> HIDE DEF b
  <2> QED
    BY <1>1, <2>1
<1>4. a = b
  <2> HIDE DEF a, b
  <2> QED
    BY <1>2, <1>3, SeqEqual
<1> QED
  BY <1>4 DEF IsPrefix

(* However many calls share the pools and however they interleave, a sink  *)
(* gets the stream of its own call, whole or cut where that sink failed.   *)
THEOREM SinksAreOwn == Spec => []EachSinkItsOwnStream
<1>1. ASSUME IInv PROVE EachSinkItsOwnStream
  <2> SUFFICES ASSUME NEW c \in Callers, Encodes(c)
               PROVE  LET got == sink[Me(c)]
                          failed == call[c].err \in {"sink", "panic"}
                          whole == IF failed THEN SubSeq(got, 1, Len(got) - 1) ELSE got
                      IN /\ IsPrefix(whole, Owed(c))
                         /\ failed => got # <<>> /\ got[Len(got)] =
                               [Owed(c)[Len(got)] EXCEPT !.full = FALSE]
                         /\ Returned(c) /\ call[c].err = "nil" => got = Owed(c)
                         /\ call[c].err = "refused" => got = <<>>
    BY DEF EachSinkItsOwnStream, Owed
  <2> DEFINE got == sink[Me(c)]
  <2> DEFINE failed == call[c].err \in {"sink", "panic"}
  <2> DEFINE whole == IF failed THEN SubSeq(got, 1, Len(got) - 1) ELSE got
  <2>1. TypeInv /\ CallerInv(c) /\ call[c] \in CallType /\ call[c].job \in EncodeJobs
    BY <1>1 DEF IInv, TypeInv, Encodes
  <2>2. got \in Seq(Piece) /\ Owed(c) \in Seq(Piece)
    BY <2>1, MeIsACall, StreamShape DEF TypeInv, Owed
  <2>3. CASE call[c].pc \in EncoderPCs \ {"deferred", "put"}
    <3>1. Has(c, Handed(c)) /\ call[c].err = "nil"
      BY <2>1, <2>3 DEF CallerInv, SinkInv, EncoderInv, EncoderPCs
    <3>2. Handed(c) <= Len(Owed(c))
      <4>1. \/ Handed(c) = 0
            \/ Handed(c) = 1
            \/ ~call[c].job.empty /\ Handed(c) = 2
            \/ Handed(c) = Body(call[c].job)
        BY <2>3 DEF Handed, EncoderPCs
      <4>2. Len(Owed(c)) \in Nat /\ Len(Owed(c)) >= Body(call[c].job)
        BY <2>1, OwedShape
      <4>3. Body(call[c].job) \in 1 .. 3 /\ (~call[c].job.empty => Body(call[c].job) >= 2)
        BY <2>1, BodySize
      <4> QED
        BY <4>1, <4>2, <4>3
    <3>3. IsPrefix(got, Owed(c))
      BY <2>2, <3>1, <3>2, AgreesIsPrefix DEF Has
    <3>4. ~Returned(c)
      BY <2>3 DEF Returned, At, EncoderPCs
    <3> QED
      BY <3>1, <3>3, <3>4
  <2>4. CASE call[c].pc \in {"deferred", "put", "idle"}
    <3>1. Ended(c)
      BY <2>1, <2>4 DEF CallerInv, SinkInv
    <3>2. CASE call[c].err = "nil"
      <4>1. Len(got) = Len(Owed(c)) /\ \A i \in 1 .. Len(got) : got[i] = Owed(c)[i]
        BY <3>1, <3>2 DEF Ended, Has
      <4>2. got = Owed(c)
        <5> HIDE DEF got
        <5> QED
          BY <2>2, <4>1, SeqEqual
      <4>3. IsPrefix(got, Owed(c))
        <5>1. Len(got) <= Len(Owed(c))
          BY <2>2, <4>1
        <5> HIDE DEF got
        <5> QED
          BY <2>2, <4>1, <5>1, AgreesIsPrefix
      <4> QED
        BY <3>2, <4>2, <4>3
    <3>3. CASE call[c].err = "refused"
      <4>1. got = <<>>
        BY <2>2, <3>1, <3>3 DEF Ended, Has
      <4>2. IsPrefix(got, Owed(c))
        <5>1. /\ Len(got) = 0 /\ Len(got) <= Len(Owed(c))
              /\ \A i \in 1 .. Len(got) : got[i] = Owed(c)[i]
          BY <2>2, <4>1
        <5> HIDE DEF got
        <5> QED
          BY <2>2, <5>1, AgreesIsPrefix
      <4> QED
        BY <3>3, <4>1, <4>2
    <3>4. CASE failed
      <4>1. PICK m \in 1 .. Len(Owed(c)) :
               /\ Len(got) = m
               /\ \A i \in 1 .. m - 1 : got[i] = Owed(c)[i]
               /\ got[m] = [Owed(c)[m] EXCEPT !.full = FALSE]
        BY <3>1, <3>4 DEF Ended, IsCut
      <4> DEFINE cut == SubSeq(got, 1, m - 1)
      <4> HIDE DEF got
      <4>2. /\ m \in Nat /\ m - 1 \in Nat /\ m <= Len(Owed(c)) /\ Len(Owed(c)) \in Nat
            /\ \A i \in 1 .. m - 1 : got[i] \in Piece
        BY <2>2, <4>1
      <4>3. /\ cut \in Seq(Piece) /\ Len(cut) = m - 1
            /\ \A i \in 1 .. m - 1 : cut[i] = got[i]
        <5>1. /\ cut \in Seq(Piece)
              /\ Len(cut) = IF 1 <= m - 1 THEN (m - 1) - 1 + 1 ELSE 0
              /\ \A i \in 1 .. (m - 1) - 1 + 1 : cut[i] = got[1 + i - 1]
          BY <4>2, SubSeqProperties
        <5> HIDE DEF cut
        <5> QED
          BY <4>2, <5>1
      <4>4. IsPrefix(cut, Owed(c))
        <5> HIDE DEF cut
        <5> QED
          BY <2>2, <4>1, <4>2, <4>3, AgreesIsPrefix
      <4>5. got # <<>>
        BY <2>2, <4>1
      <4>6. whole = SubSeq(got, 1, m - 1)
        BY <3>4, <4>1
      <4>7. IsPrefix(whole, Owed(c)) /\ got[Len(got)] = [Owed(c)[Len(got)] EXCEPT !.full = FALSE]
        BY <4>1, <4>4, <4>6
      <4> QED
        BY <3>4, <4>5, <4>7 DEF got
    <3> QED
      BY <3>1, <3>2, <3>3, <3>4 DEF Ended
  <2> QED
    BY <2>1, <2>3, <2>4, OneShotAssumption
       DEF CallerInv, Ownership, CallType, EncoderPCs, DecoderPCs
<1> QED
  BY <1>1, Invariance, PTL
=============================================================================
