------------------------------ MODULE MCDecoder ------------------------------
(***************************************************************************)
(* Streams for Decoder: a handful of bytes of audio, windows of four bytes *)
(* and MaxInt64 = 31, so that buffers, batches, staging and the 64-bit     *)
(* arithmetic all run out within a few calls.                              *)
(***************************************************************************)
EXTENDS Decoder

Stereo == [declared |-> 5, exists |-> 7, grows |-> FALSE, seekable |-> TRUE,
           ignore |-> FALSE, width |-> 1, channels |-> 2, convert |-> 0,
           companded |-> FALSE, frames |-> 2, opens |-> TRUE]

(* As stored: an odd length with its pad and a trailer; a file cut short;  *)
(* one without a length, on a pipe, whose header claims too many frames.   *)
RawStreams ==
    {Stereo, [Stereo EXCEPT !.declared = 6, !.exists = 3, !.frames = 3],
     [Stereo EXCEPT !.declared = -1, !.exists = 3, !.grows = TRUE, !.seekable = FALSE,
                    !.frames = 20]}

(* Converted: narrowing, with a fragment before the trailer; widening by   *)
(* default, of a companded stream; without a length, and cut mid-sample.   *)
Narrow == [Stereo EXCEPT !.width = 2, !.channels = 1, !.convert = 1]
ConvertedStreams ==
    {Narrow,
     [Stereo EXCEPT !.declared = 3, !.exists = 5, !.companded = TRUE, !.channels = 1, !.frames = 3],
     [Narrow EXCEPT !.ignore = TRUE, !.convert = 3, !.frames = 9, !.exists = 5],
     [Narrow EXCEPT !.declared = 10, !.exists = 12, !.channels = 2, !.convert = 3],
     [Narrow EXCEPT !.declared = -1, !.exists = 3, !.grows = TRUE, !.frames = 0]}

Frames == {-1, 0, 1, 4, 15}

AllStreams == RawStreams \cup ConvertedStreams \cup {NoStream}
=============================================================================
