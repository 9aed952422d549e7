------------------------------- MODULE OneShot -------------------------------
(***************************************************************************)
(* pcm.EncodeInterleaved and pcm.DecodeInterleavedBytes called by several  *)
(* goroutines at once, each drawing its Encoder or Decoder from a pool.    *)
(*                                                                         *)
(* Every call has an identity <<caller, number>>, which stands for all the *)
(* call was given: its sink or its input, its Config or options, its       *)
(* samples.  A field of a pooled object holds the identity of the call its *)
(* value comes from, so a value that outlives its call shows.  What one    *)
(* encoder writes, byte by byte, is module Encoder's subject; here a sink  *)
(* is the sequence of the pieces it was handed, each with its origin.      *)
(***************************************************************************)
EXTENDS Integers, Sequences, SequencesExt

CONSTANTS Callers, Encoders, Decoders,
          EncodeJobs, DecodeJobs,
          Nobody, Discard,       \* no call, and io.Discard
          MaxCalls               \* bound: calls of one caller

VARIABLES encoderPool, encoder,  \* sync.Pool, and the Encoder each name stands for
          decoderPool, decoder,
          call,                  \* the call each caller is in or was in last
          sink                   \* what each call's io.Writer was handed

vars == <<encoderPool, encoder, decoderPool, decoder, call, sink>>

Calls == Callers \X (0 .. MaxCalls)

ASSUME OneShotAssumption ==
    /\ MaxCalls \in Nat
    /\ Nobody \notin Encoders \cup Decoders \cup EncodeJobs \cup DecodeJobs \cup Calls
    /\ Discard \notin Calls
    /\ Encoders \cap Decoders = {}
    /\ EncodeJobs \cap DecodeJobs = {}
    /\ EncodeJobs \subseteq [valid : BOOLEAN, whole : BOOLEAN, empty : BOOLEAN, odd : BOOLEAN,
                             fits : BOOLEAN, seeks : BOOLEAN]
    /\ \A job \in EncodeJobs : job.empty => ~job.odd
    /\ DecodeJobs \subseteq [sound : BOOLEAN, converts : BOOLEAN]

NewEncoder == [w |-> Nobody, cfg |-> Nobody, seeks |-> FALSE, odd |-> FALSE,
               err |-> "nil", closed |-> FALSE]
NewDecoder == [r |-> Nobody, hdr |-> Nobody, info |-> Nobody, remaining |-> Nobody,
               convert |-> FALSE, err |-> "nil"]
NoResult == [audio |-> Nobody, info |-> Nobody, converted |-> FALSE]

Idle == [n |-> 0, job |-> Nobody, pc |-> "idle", obj |-> Nobody, err |-> "nil", res |-> NoResult]

Init ==
    /\ encoderPool = {} /\ encoder = [e \in Encoders |-> NewEncoder]
    /\ decoderPool = {} /\ decoder = [d \in Decoders |-> NewDecoder]
    /\ call = [c \in Callers |-> Idle]
    /\ sink = [k \in Calls |-> <<>>]

Me(c) == <<c, call[c].n>>
Held == {call[c].obj : c \in {b \in Callers : call[b].pc # "idle"}}

At(c, pc) == call[c].pc = pc
Goto(c, pc) == call' = [call EXCEPT ![c].pc = pc]
LeaveWith(c, pc, err) == call' = [call EXCEPT ![c].pc = pc, ![c].err = err]

encoding == <<encoderPool, encoder, sink>>
decoding == <<decoderPool, decoder>>

-----------------------------------------------------------------------------
(* EncodeInterleaved.  A job says whether cfg validates, the samples are   *)
(* whole frames, there are none, their byte count is odd, their length has *)
(* a header that can state it, and the sink can seek.                      *)

Begin(c, job, pc, err) ==
    /\ At(c, "idle") /\ call[c].n < MaxCalls
    /\ call' = [call EXCEPT ![c] = [Idle EXCEPT !.n = call[c].n + 1, !.job = job,
                                                !.pc = pc, !.err = err]]

(* The arguments are refused before an encoder is drawn.                   *)
EncodeBegins(c) ==
    /\ \E job \in EncodeJobs :
          IF job.valid /\ job.whole
          THEN Begin(c, job, "getEncoder", "nil")
          ELSE Begin(c, job, "idle", "refused")
    /\ UNCHANGED <<encoding, decoding>>

(* sync.Pool hands out, once, something that was put there, or makes a new *)
(* one; it may do so although it has others.                               *)
GetEncoder(c) ==
    /\ At(c, "getEncoder")
    /\ \E e \in encoderPool \cup (Encoders \ Held) :
          /\ encoderPool' = encoderPool \ {e}
          /\ encoder' = IF e \in encoderPool THEN encoder
                        ELSE [encoder EXCEPT ![e] = NewEncoder]
          /\ call' = [call EXCEPT ![c].obj = e, ![c].pc = "reset"]
    /\ UNCHANGED <<sink, decoding>>

(* One Write of the sink the encoder is bound to.  It takes all of it, or  *)
(* part of it and fails, or the caller's Write panics, in which case only  *)
(* the deferred calls still run.                                           *)
Outcomes == {"nil", "sink", "panic"}

Hand(e, what, of, outcome) ==
    IF encoder[e].w \in Calls
    THEN sink' = [sink EXCEPT ![encoder[e].w] =
                     Append(@, [what |-> what, of |-> of, full |-> outcome = "nil"])]
    ELSE UNCHANGED sink

Proceed(c, pc, outcome) ==
    IF outcome = "nil" THEN Goto(c, pc) ELSE LeaveWith(c, "deferred", outcome)

(* Slip: the error of the encoder's last use is not cleared.               *)
resetEncoder_keepsErr(e, k, job) ==
    IF job.fits THEN [NewEncoder EXCEPT !.w = k, !.cfg = k, !.seeks = job.seeks,
                                        !.err = encoder[e].err]
    ELSE [NewEncoder EXCEPT !.closed = TRUE, !.err = "refused"]

(* reset replaces the whole struct, so that nothing of an earlier use is   *)
(* left; invalidate, when the length cannot be expressed.                  *)
resetEncoder(e, k, job) ==
    IF job.fits THEN [NewEncoder EXCEPT !.w = k, !.cfg = k, !.seeks = job.seeks]
    ELSE [NewEncoder EXCEPT !.closed = TRUE, !.err = "refused"]

EncodeReset(c) ==
    LET e == call[c].obj
        bound == resetEncoder(e, Me(c), call[c].job)
    IN /\ At(c, "reset")
       /\ IF call[c].job.fits
          THEN \E outcome \in Outcomes :
                  /\ encoder' = [encoder EXCEPT ![e] =
                        IF outcome = "sink" THEN [bound EXCEPT !.err = "sink"] ELSE bound]
                  /\ sink' = [sink EXCEPT ![Me(c)] =
                        Append(@, [what |-> "header", of |-> bound.cfg, full |-> outcome = "nil"])]
                  /\ Proceed(c, "write", outcome)
          ELSE /\ encoder' = [encoder EXCEPT ![e] = bound]
               /\ LeaveWith(c, "deferred", bound.err)
               /\ UNCHANGED sink
       /\ UNCHANGED <<encoderPool, decoding>>

(* Write and Close refuse at once when an error is latched or the encoder  *)
(* is bound to nothing.                                                    *)
Refusal(e) ==
    IF encoder[e].err # "nil" THEN encoder[e].err
    ELSE IF encoder[e].closed \/ encoder[e].w = Nobody THEN "encoderClosed" ELSE "nil"

EncodeWrite(c) ==
    LET e == call[c].obj
    IN /\ At(c, "write")
       /\ CASE Refusal(e) # "nil" ->
                  LeaveWith(c, "deferred", Refusal(e)) /\ UNCHANGED <<encoder, sink>>
            [] Refusal(e) = "nil" /\ call[c].job.empty ->
                  Goto(c, "close") /\ UNCHANGED <<encoder, sink>>
            [] OTHER -> \E outcome \in Outcomes :
                  /\ Hand(e, "audio", Me(c), outcome)
                  /\ encoder' = [encoder EXCEPT ![e].odd = call[c].job.odd,
                                                ![e].err = IF outcome = "sink" THEN "sink" ELSE @]
                  /\ Proceed(c, "close", outcome)
       /\ UNCHANGED <<encoderPool, decoding>>

(* Close pads what the encoder, not the call, has counted, and stamps the  *)
(* sizes again when the sink the encoder holds can seek.                   *)
EncodeClose(c) ==
    LET e == call[c].obj
    IN /\ At(c, "close")
       /\ encoder' = [encoder EXCEPT ![e].closed = TRUE]
       /\ CASE Refusal(e) # "nil" -> LeaveWith(c, "deferred", Refusal(e)) /\ UNCHANGED sink
            [] Refusal(e) = "nil" /\ encoder[e].odd ->
                  \E outcome \in Outcomes :
                     Hand(e, "pad", encoder[e].cfg, outcome) /\ Proceed(c, "patch", outcome)
            [] OTHER -> Goto(c, "patch") /\ UNCHANGED sink
       /\ UNCHANGED <<encoderPool, decoding>>

EncodePatch(c) ==
    LET e == call[c].obj
    IN /\ At(c, "patch")
       /\ IF encoder[e].seeks
          THEN \E outcome \in Outcomes :
                  Hand(e, "sizes", encoder[e].cfg, outcome) /\ LeaveWith(c, "deferred", outcome)
          ELSE Goto(c, "deferred") /\ UNCHANGED sink
       /\ UNCHANGED <<encoderPool, encoder, decoding>>

(* minimalConfig, on a sink that takes everything and cannot seek.         *)
Unbound(e) == resetEncoder(e, Discard, [fits |-> TRUE, seeks |-> FALSE])

(* Slip: the encoder is put back before it is unbound.                     *)
EncodeDeferred_putFirst(c) ==
    LET e == call[c].obj
    IN /\ \/ /\ At(c, "deferred")
             /\ encoderPool' = encoderPool \cup {e}
             /\ Goto(c, "unbind") /\ UNCHANGED encoder
          \/ /\ At(c, "unbind")
             /\ encoder' = [encoder EXCEPT ![e] = Unbound(e)]
             /\ Goto(c, "idle") /\ UNCHANGED encoderPool
       /\ UNCHANGED <<sink, decoding>>

(* The deferred function: reset to io.Discard, which cannot fail, then Put.*)
EncodeDeferred(c) ==
    LET e == call[c].obj
    IN /\ \/ /\ At(c, "deferred")
             /\ encoder' = [encoder EXCEPT ![e] = Unbound(e)]
             /\ Goto(c, "put") /\ UNCHANGED encoderPool
          \/ /\ At(c, "put")
             /\ encoderPool' = encoderPool \cup {e}
             /\ Goto(c, "idle") /\ UNCHANGED encoder
       /\ UNCHANGED <<sink, decoding>>

EncodeInterleaved(c) ==
    \/ EncodeBegins(c)
    \/ GetEncoder(c)
    \/ EncodeReset(c)
    \/ EncodeWrite(c)
    \/ EncodeClose(c)
    \/ EncodePatch(c)
    \/ EncodeDeferred(c)

-----------------------------------------------------------------------------
(* DecodeInterleavedBytes.  A job says whether the input has a header the  *)
(* parser accepts and whether the options, or its companding, ask for a    *)
(* conversion.  The window of the input and what is said of it come from   *)
(* the fields of the decoder.                                              *)

DecodeBegins(c) ==
    /\ \E job \in DecodeJobs : Begin(c, job, "getDecoder", "nil")
    /\ UNCHANGED <<encoding, decoding>>

GetDecoder(c) ==
    /\ At(c, "getDecoder")
    /\ \E d \in decoderPool \cup (Decoders \ Held) :
          /\ decoderPool' = decoderPool \ {d}
          /\ decoder' = IF d \in decoderPool THEN decoder
                        ELSE [decoder EXCEPT ![d] = NewDecoder]
          /\ call' = [call EXCEPT ![c].obj = d, ![c].pc = "parse"]
    /\ UNCHANGED encoding

(* Slip: a conversion asked for once stays asked for.                      *)
resetDecoder_keepsConvert(d, k, job) ==
    [NewDecoder EXCEPT !.r = k, !.hdr = k, !.info = k, !.remaining = k,
                       !.convert = decoder[d].convert \/ job.converts]

(* reset replaces the whole struct, and fail leaves nothing but the error. *)
resetDecoder(d, k, job) ==
    IF job.sound
    THEN [NewDecoder EXCEPT !.r = k, !.hdr = k, !.info = k, !.remaining = k,
                            !.convert = job.converts]
    ELSE [NewDecoder EXCEPT !.r = k, !.err = "corrupt"]

DecodeParse(c) ==
    LET d == call[c].obj
    IN /\ At(c, "parse")
       /\ decoder' = [decoder EXCEPT ![d] = resetDecoder(d, Me(c), call[c].job)]
       /\ IF call[c].job.sound THEN Goto(c, "slice") ELSE LeaveWith(c, "release", "corrupt")
       /\ UNCHANGED <<encoding, decoderPool>>

DecodeSlice(c) ==
    LET d == decoder[call[c].obj]
    IN /\ At(c, "slice")
       /\ call' = [call EXCEPT ![c].pc = "release",
                               ![c].res = [audio |-> d.remaining, info |-> d.info,
                                           converted |-> d.convert]]
       /\ UNCHANGED <<encoding, decoding>>

(* Slip: the parsed header stays with the pooled decoder.                  *)
DecodeDeferred_keepsHeader(c) ==
    LET d == call[c].obj
    IN /\ \/ /\ At(c, "release")
             /\ decoder' = [decoder EXCEPT ![d].r = Nobody]
             /\ Goto(c, "store") /\ UNCHANGED decoderPool
          \/ /\ At(c, "store")
             /\ decoderPool' = decoderPool \cup {d}
             /\ Goto(c, "idle") /\ UNCHANGED decoder
       /\ UNCHANGED encoding

(* The deferred function: the input and the header are let go, then Put.   *)
DecodeDeferred(c) ==
    LET d == call[c].obj
    IN /\ \/ /\ At(c, "release")
             /\ decoder' = [decoder EXCEPT ![d].r = Nobody, ![d].hdr = Nobody]
             /\ Goto(c, "store") /\ UNCHANGED decoderPool
          \/ /\ At(c, "store")
             /\ decoderPool' = decoderPool \cup {d}
             /\ Goto(c, "idle") /\ UNCHANGED decoder
       /\ UNCHANGED encoding

DecodeInterleavedBytes(c) ==
    \/ DecodeBegins(c)
    \/ GetDecoder(c)
    \/ DecodeParse(c)
    \/ DecodeSlice(c)
    \/ DecodeDeferred(c)

Next == \E c \in Callers : EncodeInterleaved(c) \/ DecodeInterleavedBytes(c)

Spec == Init /\ [][Next]_vars

-----------------------------------------------------------------------------
(* Properties.                                                             *)

(* What the sink of a call is owed.                                        *)
Stream(k, job) ==
    LET piece(what) == [what |-> what, of |-> k, full |-> TRUE]
    IN <<piece("header")>>
       \o (IF job.empty THEN <<>> ELSE <<piece("audio")>>)
       \o (IF job.odd THEN <<piece("pad")>> ELSE <<>>)
       \o (IF job.seeks THEN <<piece("sizes")>> ELSE <<>>)

Encodes(c) == call[c].job \in EncodeJobs
Returned(c) == At(c, "idle") /\ call[c].n > 0

(* However the calls interleave, a sink is handed the stream of its own    *)
(* call and nothing else: only the piece its own failure cut short may be  *)
(* incomplete, a call that returned nil has written all of it, and one     *)
(* whose arguments were refused has not touched it (EncodeInterleaved,     *)
(* encode_oneshot.go:25-65).                                               *)
EachSinkItsOwnStream ==
    \A c \in Callers : Encodes(c) =>
        LET got == sink[Me(c)]
            failed == call[c].err \in {"sink", "panic"}
            whole == IF failed THEN SubSeq(got, 1, Len(got) - 1) ELSE got
        IN /\ IsPrefix(whole, Stream(Me(c), call[c].job))
           /\ failed => got # <<>> /\ got[Len(got)] =
                 [Stream(Me(c), call[c].job)[Len(got)] EXCEPT !.full = FALSE]
           /\ Returned(c) /\ call[c].err = "nil" => got = Stream(Me(c), call[c].job)
           /\ call[c].err = "refused" => got = <<>>

(* The failure of one call, latched in the encoder it used, is never       *)
(* another's: a call fails only for its own arguments or its own sink.     *)
FailuresStayWithTheirCall ==
    \A c \in Callers : Returned(c) =>
        CASE call[c].err = "nil" -> TRUE
          [] call[c].err = "refused" ->
                ~(call[c].job.valid /\ call[c].job.whole /\ call[c].job.fits)
          [] call[c].err \in {"sink", "panic"} -> \E i \in DOMAIN sink[Me(c)] : ~sink[Me(c)][i].full
          [] call[c].err = "corrupt" -> ~call[c].job.sound
          [] OTHER -> FALSE

(* What a call decodes is bounded, described and converted as its own      *)
(* header and options say, whatever the decoder it drew did before         *)
(* (DecodeInterleavedBytes, decode_oneshot.go:280-366).                    *)
EachResultItsOwn ==
    \A c \in Callers : Returned(c) /\ ~Encodes(c) /\ call[c].err = "nil" =>
        call[c].res = [audio |-> Me(c), info |-> Me(c), converted |-> call[c].job.converts]

(* A pooled object is in nobody's hands and pins nothing of its last call: *)
(* no sink, no input, no header with its metadata (the deferred functions, *)
(* encode_oneshot.go:50-55, decode_oneshot.go:282-291).                    *)
PooledObjectsPinNothing ==
    /\ \A e \in encoderPool : encoder[e].w \notin Calls /\ encoder[e].err = "nil"
    /\ \A d \in decoderPool : decoder[d].r = Nobody /\ decoder[d].hdr = Nobody
    /\ \A o \in encoderPool \cup decoderPool : \A c \in Callers :
          call[c].obj = o => call[c].pc = "idle"
    /\ \A b, c \in Callers : b # c /\ call[b].pc # "idle" /\ call[c].pc # "idle"
                                   /\ call[b].obj # Nobody => call[b].obj # call[c].obj
=============================================================================
