---------------------------- MODULE BoundedQueue ----------------------------
(***************************************************************************)
(* What both buffers of a demuxed track promise their two threads: a queue *)
(* of at most Capacity items, which changes only as some caller asks.  An  *)
(* operation appends the chunk a caller offers, removes items at one end,  *)
(* or discards everything (for a seek or a close).  FrameCache             *)
(* (frame_cache_c) implements it with chunks of one frame, RingBuffer      *)
(* (mm_ringbuffer_io_c) with chunks of bytes.                              *)
(***************************************************************************)
EXTENDS Naturals, Sequences

CONSTANT Capacity    \* the most items the queue may hold

VARIABLES q,         \* the queued items, oldest first
          offers,    \* the chunks (sequences) that callers ask to append
          takes,     \* how many items callers ask to remove at the front
          drops,     \* how many items callers ask to remove at the back
          clearing   \* whether some caller asks to discard everything

(* One caller's whole chunk enters, behind everything queued before it.    *)
Put ==
  \E chunk \in offers :
    /\ Len(q) + Len(chunk) <= Capacity
    /\ q' = q \o chunk

TakeFront == \E n \in takes : n <= Len(q) /\ q' = SubSeq(q, n + 1, Len(q))

TakeBack == \E n \in drops : n <= Len(q) /\ q' = SubSeq(q, 1, Len(q) - n)

Clear == clearing /\ q' = <<>>

Init == q = <<>>

Next == Put \/ TakeFront \/ TakeBack \/ Clear

(***************************************************************************)
(* The four kinds of request are inputs: they change as callers come and   *)
(* go, whether or not the queue changes.                                   *)
(***************************************************************************)
Spec == Init /\ [][Next]_q
=============================================================================
