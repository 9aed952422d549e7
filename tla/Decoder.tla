------------------------------- MODULE Decoder -------------------------------
(***************************************************************************)
(* pcm/decoder.go: a Decoder bound to a source, and the one-shot calls of  *)
(* pcm/decode_oneshot.go that loop over its Read.                          *)
(*                                                                         *)
(* Audio is addressed by offset: byte 0 is the first of the data chunk,    *)
(* and a byte handed to the caller is <<o, j>>, byte j of what the stored  *)
(* sample at offset o becomes (j is 1 for stored bytes handed back as they *)
(* are).  A stream is a record:                                            *)
(*   declared  the length its header gives, -1 for none                    *)
(*   exists    the bytes of the source after the header                    *)
(*   grows     another program may still be appending to it                *)
(*   seekable  the source implements io.Seeker                             *)
(*   ignore    WithIgnoreLength                                            *)
(*   width     bytes per stored sample;  channels                          *)
(*   convert   bytes per sample asked for with WithConvertTo, 0 for none   *)
(*   companded an A-law or mu-law stream                                   *)
(*   frames    the frame count its header gives, which may be any number   *)
(*   opens     its header parses and the width asked for exists            *)
(*                                                                         *)
(* The header reader's buffer br and the wide one over it, stream, are one *)
(* window here: stream empties br before it reads the source directly, so  *)
(* at most one of them holds bytes, and they are reset together.           *)
(***************************************************************************)
EXTENDS Integers, Sequences, SequencesExt

CONSTANTS Streams,            \* the streams a Reset may name
          DataStart,          \* length of the header in front of the audio
          MaxInt64,           \* 2^63-1 in the code
          streamBufferSize,   \* the wide window, and the largest converted batch
          writeToBufferSize,  \* what WriteTo stages
          maxPreSize,         \* cap on the reservation of a one-shot decode
          BufLens,            \* lengths of the buffers Read is given
          SeekFrames,         \* frame indices SeekToFrame is given
          Limits,             \* ceilings DecodeInterleavedLimit is given
          MaxFaults,          \* errors of the source or its Seek, in a behaviour
          MaxResets,          \* Resets and one-shot decodes
          MaxExists           \* length a growing source reaches

StreamType == [declared : Nat \cup {-1}, exists : Nat, grows : BOOLEAN,
               seekable : BOOLEAN, ignore : BOOLEAN, width : Nat \ {0},
               channels : Nat \ {0}, convert : Nat, companded : BOOLEAN,
               frames : Int, opens : BOOLEAN]

ASSUME DecoderAssumption ==
    /\ Streams \subseteq StreamType
    /\ DataStart \in Nat /\ MaxInt64 \in Nat /\ DataStart <= MaxInt64
    /\ streamBufferSize \in Nat \ {0}
    /\ writeToBufferSize \in Nat \ {0}
    /\ maxPreSize \in Nat
    /\ BufLens \subseteq Nat /\ SeekFrames \subseteq Int /\ Limits \subseteq Int
    /\ MaxFaults \in Nat /\ MaxResets \in Nat /\ MaxExists \in Nat

VARIABLES st,         \* the bound stream (src, cfg and hdr)
          err,        \* d.err: the last Reset failed
          remaining, next, buffered, pend, staged,
          end, faults, resets,
          call,       \* the WriteTo or one-shot decode in progress
          got,        \* what the last Read returned
          ret,        \* what the last call returned
          out,        \* history: bytes Read handed over since from
          from,       \* history: offset of the last Reset or Seek
          torn,       \* history: bytes read from the source were lost
          rejected    \* history: the last Reset or one-shot decode was refused

reading == <<remaining, next, buffered, pend, staged, faults, got, out, torn>>
bound == <<st, err, resets, from, rejected>>
vars == <<bound, reading, end, call, ret>>

Min2(a, b) == IF a < b THEN a ELSE b
Max2(a, b) == IF a > b THEN a ELSE b

Idle == [op |-> "none"]
perFrame == st.width * st.channels
lengthKnown == st.declared >= 0 /\ ~st.ignore

(* WithConvertTo, or the 16 bits a companded stream expands to unasked.    *)
convert(s) == IF s.convert = 0 /\ s.companded THEN 2 ELSE s.convert

(* Info after Reset, as far as it decides anything.                        *)
Info(s) == [TotalFrames |-> IF s.ignore THEN 0 ELSE s.frames,
            Channels |-> s.channels,
            Width |-> IF convert(s) # 0 THEN convert(s) ELSE s.width]

-----------------------------------------------------------------------------
(* The source and the buffered reader over it.                             *)

avail == Max2(end - (next + buffered), 0)

(* One Read of the source: k bytes, and an error with them or after them.  *)
sourceReads(size) ==
    {r \in [k : 0 .. Min2(size, avail), e : {"nil", "EOF", "err"}] :
        /\ r.e = "nil" => r.k > 0
        /\ r.e = "EOF" => r.k = avail
        /\ r.e = "err" => faults > 0}

Outcome(n, e, left, p, failed) ==
    [n |-> n, e |-> e, buffered |-> left, pend |-> p,
     faults |-> IF failed THEN faults - 1 ELSE faults]

(* audio().Read of len bytes: from the window, else what the window still  *)
(* has to report, else the source, past the window if len is as large.     *)
audioRead(len) ==
    IF buffered > 0
    THEN {Outcome(Min2(len, buffered), "nil", buffered - Min2(len, buffered), pend, FALSE)}
    ELSE IF pend # "nil" THEN {Outcome(0, pend, 0, "nil", FALSE)}
    ELSE IF len >= streamBufferSize
    THEN {Outcome(r.k, r.e, 0, "nil", r.e = "err") : r \in sourceReads(len)}
    ELSE {IF r.k = 0 THEN Outcome(0, r.e, 0, "nil", r.e = "err")
          ELSE Outcome(Min2(r.k, len), "nil", r.k - Min2(r.k, len), r.e, r.e = "err") :
             r \in sourceReads(streamBufferSize)}

(* io.ReadFull(audio(), want bytes): any number of such reads.             *)
audioReadFull(want) ==
    LET short == want - buffered
        over == avail - short
        e(p) == p = "err" => faults > 0
    IN IF short <= 0 THEN {Outcome(want, "nil", -short, pend, FALSE)}
       ELSE IF pend # "nil" THEN {Outcome(buffered, pend, 0, "nil", FALSE)}
       ELSE {Outcome(want, "nil", r[1], r[2], r[2] = "err") :
               r \in {q \in ((0 .. Min2(over, streamBufferSize - 1)) \X {"nil", "EOF", "err"}) :
                        (q[2] = "EOF" => q[1] = over) /\ e(q[2])}}
            \cup {Outcome(buffered + avail, "EOF", 0, "nil", FALSE) : x \in {y \in {0} : over < 0}}
            \cup {Outcome(buffered + k, "err", 0, "nil", TRUE) :
                    k \in {j \in 0 .. Min2(avail, short - 1) : e("err")}}

-----------------------------------------------------------------------------
(* Read.  Each of these says how one Read of a buffer of len bytes ends.   *)

Stored(o, n) == [i \in 1 .. n |-> <<o + i - 1, 1>>]

(* What the n stored bytes from o on become, dst bytes for each sample.    *)
Converted(o, n, w, dst) ==
    [i \in 1 .. ((n \div w) * dst) |-> <<o + (((i - 1) \div dst) * w), ((i - 1) % dst) + 1>>]

Deliver(bytes, e) ==
    /\ got' = [bytes |-> bytes, e |-> e]
    /\ out' = out \o bytes

NoSource == UNCHANGED <<next, buffered, pend, faults>>

Took(r) ==
    /\ next' = next + r.n
    /\ buffered' = r.buffered
    /\ pend' = r.pend
    /\ faults' = r.faults

(* Slip: the buffer is not cut to what remains of the data chunk.          *)
readRaw_unbounded(len) ==
    IF remaining = 0
    THEN Deliver(<<>>, "EOF") /\ NoSource /\ UNCHANGED <<remaining, staged, torn>>
    ELSE \E r \in audioRead(len) :
            /\ Deliver(Stored(next, r.n), r.e)
            /\ Took(r)
            /\ remaining' = IF r.e = "EOF" THEN 0
                            ELSE IF remaining > 0 THEN Max2(remaining - r.n, 0) ELSE remaining
            /\ UNCHANGED <<staged, torn>>

readRaw(len) ==
    IF remaining = 0
    THEN Deliver(<<>>, "EOF") /\ NoSource /\ UNCHANGED <<remaining, staged, torn>>
    ELSE \E r \in audioRead(IF remaining > 0 THEN Min2(len, remaining) ELSE len) :
            /\ Deliver(Stored(next, r.n), r.e)
            /\ Took(r)
            /\ remaining' = IF r.e = "EOF" THEN 0
                            ELSE IF remaining > 0 THEN remaining - r.n ELSE remaining
            /\ UNCHANGED <<staged, torn>>

(* Slip: a buffer shorter than one converted sample asks for no sample.    *)
convertBatchLen_nofloor(bufLen, srcWidth, dstWidth, left) ==
    LET want == Min2(bufLen \div dstWidth, streamBufferSize \div srcWidth) * srcWidth
    IN IF left >= 0 /\ left < want THEN left - (left % srcWidth) ELSE want

convertBatchLen(bufLen, srcWidth, dstWidth, left) ==
    LET samples == Min2(Max2(bufLen \div dstWidth, 1), Max2(streamBufferSize \div srcWidth, 1))
        want == samples * srcWidth
    IN IF left >= 0 /\ left < want THEN left - (left % srcWidth) ELSE want

readConverted(len) ==
    LET w == st.width
        want == convertBatchLen(len, w, convert(st), remaining)
        serve(bytes) ==
            /\ Deliver(SubSeq(bytes, 1, Min2(len, Len(bytes))), "nil")
            /\ staged' = SubSeq(bytes, len + 1, Len(bytes))
        ended == remaining' = 0 /\ Deliver(<<>>, "EOF") /\ UNCHANGED staged
    IN IF staged # <<>>
       THEN serve(staged) /\ NoSource /\ UNCHANGED <<remaining, torn>>
       ELSE IF remaining = 0 \/ want = 0
       THEN ended /\ NoSource /\ UNCHANGED torn
       ELSE \E r \in audioReadFull(want) :
               LET fragment == r.n % w
                   left == IF remaining > 0 THEN remaining - r.n ELSE remaining
               IN /\ Took(r)
                  /\ torn' = (torn \/ (r.e = "err" /\ r.n > 0) \/ (fragment # 0 /\ st.grows))
                  /\ \/ r.e = "err" /\ remaining' = left /\ Deliver(<<>>, "err") /\ UNCHANGED staged
                     \/ r.e # "err" /\ r.n = fragment /\ ended
                     \/ /\ r.e # "err" /\ r.n # fragment
                        /\ remaining' = left
                        /\ serve(Converted(next, r.n - fragment, w, convert(st)))

(* Slip: the end of a stream of unknown length is not remembered.          *)
readInto_forgets(len) ==
    IF convert(st) = 0 /\ remaining < 0
    THEN \E r \in audioRead(len) : /\ Deliver(Stored(next, r.n), r.e)
                                  /\ Took(r)
                                  /\ UNCHANGED <<remaining, staged, torn>>
    ELSE IF convert(st) = 0 THEN readRaw(len) ELSE readConverted(len)

readInto(len) == IF convert(st) = 0 THEN readRaw(len) ELSE readConverted(len)

-----------------------------------------------------------------------------
Return(op, n, e) == ret' = [op |-> op, n |-> n, e |-> e]

Read ==
    /\ call = Idle
    /\ IF err
       THEN /\ Return("Read", 0, "failed")
            /\ UNCHANGED <<bound, reading, end, call>>
       ELSE \E len \in BufLens :
            IF len = 0
            THEN /\ Return("Read", 0, "nil")
                 /\ UNCHANGED <<bound, reading, end, call>>
            ELSE /\ readInto(len)
                 /\ Return("Read", Len(got'.bytes), got'.e)
                 /\ UNCHANGED <<bound, end, call>>

(* reset: a failure drops everything, so that no stale stream is served.   *)
NoStream == [declared |-> -1, exists |-> 0, grows |-> FALSE, seekable |-> FALSE,
             ignore |-> FALSE, width |-> 1, channels |-> 1, convert |-> 0,
             companded |-> FALSE, frames |-> 0, opens |-> FALSE]

(* The header has been read through br, which may hold bytes of the audio  *)
(* and know that the source has no more.                                   *)
Bind(s) ==
    /\ resets < MaxResets
    /\ resets' = resets + 1
    /\ st' = IF s.opens THEN s ELSE NoStream
    /\ err' = ~s.opens /\ rejected' = ~s.opens
    /\ end' = st'.exists
    /\ remaining' = IF st'.declared >= 0 /\ ~st'.ignore THEN st'.declared ELSE -1
    /\ buffered' \in 0 .. Min2(streamBufferSize, st'.exists)
    /\ next' = 0 /\ from' = 0
    /\ pend' \in {"nil"} \cup {e \in {"EOF"} : buffered' = st'.exists}
    /\ staged' = <<>>
    /\ out' = <<>> /\ torn' = FALSE
    /\ got' = [bytes |-> <<>>, e |-> "nil"]
    /\ UNCHANGED faults

(* Slip: a rejected option returns before anything is dropped.             *)
Reset_early ==
    /\ call = Idle
    /\ \E s \in Streams :
         /\ Return("Reset", 0, IF s.opens THEN "nil" ELSE "failed")
         /\ IF s.opens THEN Bind(s)
            ELSE resets < MaxResets /\ resets' = resets + 1 /\ rejected' = TRUE
                 /\ UNCHANGED <<st, err, from, reading, end>>
         /\ UNCHANGED call

Reset ==
    /\ call = Idle
    /\ \E s \in Streams :
         /\ Bind(s)
         /\ Return("Reset", 0, IF s.opens THEN "nil" ELSE "failed")
         /\ UNCHANGED call

-----------------------------------------------------------------------------
(* SeekToFrame.                                                            *)
(* Slip: the header in front of the audio is not counted.                  *)
maxFrame_headerless == MaxInt64 \div perFrame

maxFrame == (MaxInt64 - DataStart) \div perFrame

seekOffset(frame) ==
    LET offset == frame * perFrame
    IN IF lengthKnown /\ offset > st.declared
       THEN st.declared - (st.declared % perFrame) ELSE offset

SeekRefused(frame) ==
    /\ err \/ frame < 0 \/ ~st.seekable \/ frame > maxFrame
    /\ Return("SeekToFrame", 0, "failed")
    /\ UNCHANGED <<bound, reading, end, call>>

(* Slip: converted bytes staged before the seek are kept.                  *)
SeekTo_staged(frame) ==
    LET offset == seekOffset(frame)
    IN /\ next' = offset /\ from' = offset
       /\ buffered' = 0 /\ pend' = "nil" /\ UNCHANGED staged
       /\ remaining' = IF lengthKnown THEN st.declared - offset ELSE -1
       /\ out' = <<>> /\ torn' = FALSE
       /\ got' = [bytes |-> <<>>, e |-> "nil"]
       /\ ret' = [op |-> "SeekToFrame", n |-> offset \div perFrame, e |-> "nil", asked |-> frame]
       /\ UNCHANGED <<st, err, rejected, resets, faults, end, call>>

SeekTo(frame) ==
    LET offset == seekOffset(frame)
    IN /\ next' = offset /\ from' = offset
       /\ buffered' = 0 /\ pend' = "nil" /\ staged' = <<>>
       /\ remaining' = IF lengthKnown THEN st.declared - offset ELSE -1
       /\ out' = <<>> /\ torn' = FALSE
       /\ got' = [bytes |-> <<>>, e |-> "nil"]
       /\ ret' = [op |-> "SeekToFrame", n |-> offset \div perFrame, e |-> "nil", asked |-> frame]
       /\ UNCHANGED <<st, err, rejected, resets, faults, end, call>>

SeekFails ==
    /\ faults > 0
    /\ faults' = faults - 1
    /\ Return("SeekToFrame", 0, "err")
    /\ UNCHANGED <<bound, remaining, next, buffered, pend, staged, got, out, torn, end, call>>

SeekToFrame ==
    /\ call = Idle
    /\ \E frame \in SeekFrames :
         \/ SeekRefused(frame)
         \/ /\ ~err /\ frame >= 0 /\ st.seekable /\ frame <= maxFrame
            /\ SeekTo(frame) \/ SeekFails

-----------------------------------------------------------------------------
(* WriteTo: Reads into a staging buffer until it is full or the stream     *)
(* ends, then one Write of it to the sink.                                 *)
WriteTo ==
    /\ call = Idle
    /\ IF err
       THEN Return("WriteTo", 0, "failed") /\ UNCHANGED call
       ELSE /\ call' = [op |-> "WriteTo", filled |-> <<>>, sunk |-> <<>>, rerr |-> "nil",
                        start |-> Len(out)]
            /\ ret' = Idle
    /\ UNCHANGED <<bound, reading, end>>

InWriteTo == call.op = "WriteTo"
(* Slip: only a full buffer ends the filling.                              *)
mustFlush_full == Len(call.filled) = writeToBufferSize

mustFlush == call.rerr # "nil" \/ Len(call.filled) = writeToBufferSize

WriteToRead ==
    /\ InWriteTo /\ ~mustFlush
    /\ readInto(writeToBufferSize - Len(call.filled))
    /\ call' = [call EXCEPT !.filled = @ \o got'.bytes, !.rerr = got'.e]
    /\ UNCHANGED <<bound, end, ret>>

(* The sink takes k bytes; fewer than it was given is an error anyway.     *)
sinkTakes == {r \in [k : 0 .. Len(call.filled), failed : BOOLEAN] :
                 call.filled = <<>> => ~r.failed}

(* Slip: an error of the source is reported before the flush.              *)
WriteToFlush_late ==
    /\ InWriteTo /\ mustFlush
    /\ \E r \in sinkTakes :
         LET sunk == IF call.rerr = "err" THEN call.sunk
                     ELSE call.sunk \o SubSeq(call.filled, 1, r.k)
         IN IF call.rerr = "err" \/ r.failed \/ r.k < Len(call.filled) \/ call.rerr = "EOF"
            THEN /\ call' = Idle
                 /\ ret' = [op |-> "WriteTo", n |-> Len(sunk), sunk |-> sunk, start |-> call.start,
                            e |-> IF call.rerr = "err" THEN "err"
                                  ELSE IF r.failed \/ r.k < Len(call.filled) THEN "sink" ELSE "nil"]
            ELSE call' = [call EXCEPT !.filled = <<>>, !.sunk = sunk] /\ UNCHANGED ret
    /\ UNCHANGED <<bound, reading, end>>

WriteToFlush ==
    /\ InWriteTo /\ mustFlush
    /\ \E r \in sinkTakes :
         LET sunk == call.sunk \o SubSeq(call.filled, 1, r.k)
             werr == r.failed \/ r.k < Len(call.filled)
         IN IF werr \/ call.rerr # "nil"
            THEN /\ call' = Idle
                 /\ ret' = [op |-> "WriteTo", n |-> Len(sunk), sunk |-> sunk, start |-> call.start,
                            e |-> IF werr THEN "sink"
                                  ELSE IF call.rerr = "EOF" THEN "nil" ELSE call.rerr]
            ELSE call' = [call EXCEPT !.filled = <<>>, !.sunk = sunk] /\ UNCHANGED ret
    /\ UNCHANGED <<bound, reading, end>>

-----------------------------------------------------------------------------
(* DecodeInterleavedLimit: readAllLimit over a decoder of its own, here    *)
(* the one that has not been bound yet.                                    *)

(* A product of 64-bit signed integers.                                    *)
wrap64(n) == ((n + MaxInt64 + 1) % (2 * (MaxInt64 + 1))) - (MaxInt64 + 1)

presizeHint(info, maxBytes) ==
    LET hint == wrap64(info.TotalFrames * info.Channels * info.Width)
        capped == Min2(hint, maxPreSize)
    IN IF hint <= 0 THEN 0 ELSE IF maxBytes > 0 THEN Min2(capped, maxBytes) ELSE capped

(* Slip: the capacity doubles past the ceiling.                            *)
nextCap_doubles(c, limit) == IF c = 0 THEN streamBufferSize ELSE 2 * c

nextCap(c, limit) ==
    IF c = 0 THEN Min2(streamBufferSize, limit) ELSE c + Min2(c, limit - c)

DecodeInterleavedLimit ==
    /\ call = Idle /\ resets = 0
    /\ \E s \in Streams, maxBytes \in Limits :
         LET limit == IF maxBytes <= 0 THEN MaxInt64 ELSE maxBytes
         IN /\ Bind(s)
            /\ IF s.opens
               THEN /\ call' = [op |-> "readAll", filled |-> <<>>, limit |-> limit,
                                cap |-> Min2(presizeHint(Info(s), maxBytes), limit)]
                    /\ ret' = Idle
               ELSE Return("readAll", 0, "failed") /\ UNCHANGED call

(* Slip: a full buffer at the ceiling is refused without a probe.          *)
readAllLimit_noprobe ==
    LET len == Len(call.filled)
        full == len >= call.limit
        room == IF call.cap > len THEN call.cap - len ELSE 1
    IN /\ call.op = "readAll"
       /\ IF full
          THEN /\ call' = Idle
               /\ ret' = [op |-> "readAll", n |-> len, e |-> "limit", limit |-> call.limit]
               /\ UNCHANGED reading
          ELSE /\ readInto(room)
               /\ IF got'.e # "nil"
                  THEN /\ call' = Idle
                       /\ ret' = [op |-> "readAll", n |-> len + Len(got'.bytes),
                                  e |-> IF got'.e = "EOF" THEN "nil" ELSE got'.e,
                                  limit |-> call.limit]
                  ELSE /\ call' = [call EXCEPT !.filled = @ \o got'.bytes,
                                               !.cap = Max2(@, len + Len(got'.bytes))]
                       /\ UNCHANGED ret
       /\ UNCHANGED <<bound, end>>

(* One turn of the loop: into the spare capacity, or one probe byte when   *)
(* there is none.                                                          *)
readAllLimit ==
    LET len == Len(call.filled)
        probing == len = call.cap
    IN /\ call.op = "readAll"
       /\ readInto(IF probing THEN 1 ELSE call.cap - len)
       /\ LET n == Len(got'.bytes)
              over == probing /\ n > 0 /\ len >= call.limit
              finished(e) == /\ call' = Idle
                             /\ ret' = [op |-> "readAll", n |-> len + n, e |-> e,
                                        limit |-> call.limit]
          IN IF over THEN finished("limit")
             ELSE IF got'.e # "nil" THEN finished(IF got'.e = "EOF" THEN "nil" ELSE got'.e)
             ELSE /\ call' = [call EXCEPT !.filled = @ \o got'.bytes,
                                          !.cap = IF probing /\ n > 0
                                                  THEN nextCap(@, call.limit) ELSE @]
                  /\ UNCHANGED ret
       /\ UNCHANGED <<bound, end>>

-----------------------------------------------------------------------------
(* The writer of a growing source appends to it.                           *)
Grow ==
    /\ st.grows /\ end < MaxExists
    /\ end' = end + 1
    /\ UNCHANGED <<bound, reading, call, ret>>

Init ==
    /\ st = NoStream /\ err = TRUE
    /\ remaining = 0 /\ next = 0 /\ buffered = 0 /\ pend = "nil" /\ staged = <<>>
    /\ end = 0 /\ faults = MaxFaults /\ resets = 0
    /\ call = Idle /\ ret = Idle
    /\ got = [bytes |-> <<>>, e |-> "nil"]
    /\ out = <<>> /\ from = 0 /\ torn = FALSE /\ rejected = FALSE

CallStep == WriteToRead \/ WriteToFlush \/ readAllLimit

Next ==
    \/ Reset \/ Read \/ SeekToFrame \/ WriteTo \/ DecodeInterleavedLimit
    \/ WriteToRead \/ WriteToFlush \/ readAllLimit
    \/ Grow

Spec == Init /\ [][Next]_vars /\ WF_vars(CallStep)

-----------------------------------------------------------------------------
(* What the bytes should be.                                               *)

(* The result of DecodeInterleavedBytes over the file as it is: the slice  *)
(* of the audio, converted as one batch.  From any later offset, its tail. *)
audioFrom(o) ==
    LET stop == IF lengthKnown THEN Min2(end, st.declared) ELSE end
        n == Max2(stop - o, 0)
    IN IF convert(st) = 0 THEN Stored(o, n) ELSE Converted(o, n, st.width, convert(st))

DecodeInterleavedBytes == audioFrom(0)

-----------------------------------------------------------------------------
(* Properties.                                                             *)

(* However the source splits its answers, whatever lengths Read is given,  *)
(* and whatever is staged or buffered when the caller seeks: what Read     *)
(* hands over since the last Reset or SeekToFrame is the audio from that   *)
(* very position on, no byte skipped, repeated or stale.  Only errors of   *)
(* the source under conversion, and a growing file, excepted (decoder.go:  *)
(* 529-606, 725-746; see ConvertedBytesAreSamples).                        *)
DeliveredInOrder == ~torn => IsPrefix(out, audioFrom(from))

(* With a length to go by, no pad byte and no later chunk is ever handed   *)
(* over as audio, in any sequence of reads, errors and seeks               *)
(* (decoder.go:458-464, 521-524, 566-568, 733-734).                        *)
NeverPastDeclared ==
    lengthKnown => \A i \in 1 .. Len(out) :
        out[i][1] + (IF convert(st) = 0 THEN 1 ELSE st.width) <= st.declared

(* The end of the stream is reported only when everything has been handed  *)
(* over: streaming in any block sizes gives what DecodeInterleavedBytes    *)
(* gives in one piece (decoder.go:465-473, 555-577; decode_oneshot.go:     *)
(* 321-327, 356).                                                          *)
EndMeansEverything ==
    got.e = "EOF" /\ ~torn /\ ~st.grows =>
        /\ out = audioFrom(from)
        /\ from = 0 => out = DecodeInterleavedBytes

(* Once Read has reported the end it hands over nothing more until the     *)
(* next Reset or SeekToFrame, even if the source has grown since or its    *)
(* buffer holds a trailer (decoder.go:471-473, 545-547, 574-577).          *)
EndIsFinal == [][got.e = "EOF" => out' \in {out, <<>>}]_vars

(* WriteTo gives the sink exactly the bytes its Reads produced, in order,  *)
(* before it reports the end or an error of the source; only a failing     *)
(* sink may have received less (decoder.go:619-650).                       *)
WriteToLosesNothing ==
    [][InWriteTo /\ call' = Idle =>
         LET produced == SubSeq(out, call.start + 1, Len(out))
         IN /\ IsPrefix(ret'.sunk, produced)
            /\ ret'.n = Len(ret'.sunk)
            /\ ret'.e # "sink" => ret'.sunk = produced]_vars

(* A successful SeekToFrame reports where it went: the frame asked for, or *)
(* the last whole frame of a trusted length, and an offset that exists in  *)
(* 64 bits (decoder.go:709-720, 746).                                      *)
SeekLandsWhereItSays ==
    ret.op = "SeekToFrame" /\ ret.e = "nil" =>
        /\ ret.n = IF lengthKnown THEN Min2(ret.asked, st.declared \div perFrame) ELSE ret.asked
        /\ from = ret.n * perFrame
        /\ DataStart + from <= MaxInt64

(* After a refused Reset no call serves a byte of the stream the decoder   *)
(* was bound to before (decoder.go:206-222).                               *)
RefusedServesNothing == rejected => out = <<>>

(* The ceiling of a one-shot decode is exact: what is returned is within   *)
(* it and is everything, and a refusal means that there was more           *)
(* (decode_oneshot.go:148-175).                                            *)
LimitIsExact ==
    [][call.op = "readAll" /\ call' = Idle =>
         /\ ret'.e = "nil" => /\ ret'.n <= ret'.limit
                              /\ ret'.n = Len(out')
         /\ ret'.e = "limit" => Len(DecodeInterleavedBytes) > ret'.limit]_vars

(* A one-shot decode never holds more than its ceiling and always has room *)
(* for what it read, whatever frame count the header claims and however    *)
(* its product with the width wraps (decode_oneshot.go:104-120, 182-187).  *)
WithinCeiling ==
    call.op = "readAll" => Len(call.filled) <= call.cap /\ call.cap <= call.limit

(* WriteTo and a one-shot decode come to an end.                           *)
CallsReturn == (call # Idle) ~> (call = Idle)

(* decoder.go:428: "Under WithConvertTo the bytes are signed little-endian *)
(* integers of the requested width", that is, of stored samples.           *)
ConvertedBytesAreSamples ==
    convert(st) # 0 => \A i \in 1 .. Len(out) : out[i][1] % st.width = 0
=============================================================================
