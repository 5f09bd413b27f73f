---------------------------- MODULE MCRingBuffer ----------------------------
(***************************************************************************)
(* RingBuffer for TLC: four bytes, of which three can be used, and chunks  *)
(* of up to three, so that a chunk may fill the ring, may not fit, and may *)
(* wrap at every place.                                                    *)
(***************************************************************************)
EXTENDS RingBuffer

(* A track that is only read and seeked, as with a demuxer that has no     *)
(* track selected for pre-buffering.                                       *)
Plain == [ops |-> {"read", "flush"}, targets |-> {}]

(* The program: RMSeekMKV flushes and then pre-buffers the whole ring.     *)
Player == [ops |-> {"read", "flush", "pre_buffer"}, targets |-> {BufSize}]

(* The class as it may also be used: other targets, and no flush.          *)
EarlyStart == [ops |-> {"read", "pre_buffer"}, targets |-> {2, BufSize}]

AllProfiles    == {Plain, Player, EarlyStart}
PlayerProfiles == {Player}
=============================================================================
