------------------------------ MODULE DmaPool ------------------------------
(***************************************************************************)
(* The DMA buffers of play_mkv.cpp, counted.  A buffer is free in the RUA  *)
(* pool, set aside in dmabuffer_array while the disk sleeps, held by a     *)
(* track (videoDMABuffer, audioDMABuffer) or by send_videoDSI, or given    *)
(* back by the player but still read by a decoder.  RUASendData makes the  *)
(* decoder a second owner of the buffer its data lies in, so               *)
(* RUAReleaseBuffer returns it to the pool only when the decoder has       *)
(* consumed the data.                                                      *)
(*                                                                         *)
(*   pool       buffers RUAGetBuffer can give                              *)
(*   recycled   dmabuffer_index                                            *)
(*   held[t]    the track has a buffer                                     *)
(*   config     send_videoDSI has one, for the configuration of the video  *)
(*   fed[t]     the decoder of t still reads the buffer t holds            *)
(*   queued[t]  buffers released by the player and still read              *)
(***************************************************************************)
EXTENDS Naturals

CONSTANT Count      \* dmaBufferCount

ASSUME CountAssumption == Count \in Nat \ {0}

Tracks == {"A", "V"}

Pools == [pool : 0..Count, recycled : 0..Count, held : [Tracks -> BOOLEAN],
          config : 0..1, fed : [Tracks -> BOOLEAN], queued : [Tracks -> 0..Count]]

Full == [pool |-> Count, recycled |-> 0, held |-> [t \in Tracks |-> FALSE],
         config |-> 0, fed |-> [t \in Tracks |-> FALSE], queued |-> [t \in Tracks |-> 0]]

Holds(b, t) == IF b.held[t] THEN 1 ELSE 0

\* Every buffer that is somewhere.
Total(b) ==
  b.pool + b.recycled + Holds(b, "A") + Holds(b, "V") + b.config
    + b.queued["A"] + b.queued["V"]

\* The decoder of t has data it has not consumed.
Busy(b, t) == b.fed[t] \/ b.queued[t] > 0

\* RUAGetBuffer for track t, from the pool.
Taken(b, t) == [b EXCEPT !.pool = @ - 1, !.held[t] = TRUE, !.fed[t] = FALSE]

\* The last buffer of dmabuffer_array for track t.
Reused(b, t) == [b EXCEPT !.recycled = @ - 1, !.held[t] = TRUE, !.fed[t] = FALSE]

\* RUAGetBuffer, and the buffer set aside.
SetAside(b) == [b EXCEPT !.pool = @ - 1, !.recycled = @ + 1]

\* RUAReleaseBuffer of the buffer track t holds.
Released(b, t) ==
  IF ~b.held[t] THEN b
  ELSE IF b.fed[t]
  THEN [b EXCEPT !.held[t] = FALSE, !.fed[t] = FALSE, !.queued[t] = @ + 1]
  ELSE [b EXCEPT !.held[t] = FALSE, !.pool = @ + 1]

\* Mutant: dmabuffer_index is not set back.
EmptiedIndexKept(b) == [b EXCEPT !.pool = @ + b.recycled]

\* The whole of dmabuffer_array released: its buffers have no reader.
Emptied(b) == [b EXCEPT !.pool = @ + b.recycled, !.recycled = 0]

\* flush_and_release_buffers, where the disk is controlled or not.
Flushed(b) == Emptied(Released(Released(b, "V"), "A"))

\* Mutant: a stopped decoder keeps the data it was given.
StoppedFull(b, t) == [b EXCEPT !.fed[t] = FALSE]

\* The decoder of t is stopped: it drops its data.
Stopped(b, t) ==
  [b EXCEPT !.pool = @ + b.queued[t], !.queued[t] = 0, !.fed[t] = FALSE]

AllStopped(b) == Stopped(Stopped(b, "V"), "A")

\* A packet of track t handed to its decoder.
Fed(b, t) == [b EXCEPT !.fed[t] = b.held[t]]

\* Mutant: the buffer the player holds is returned to the pool as well.
ConsumedHeld(b, t) == [b EXCEPT !.queued[t] = @ - 1, !.pool = @ + 1]

\* The decoder of t is done with its oldest buffer.
Consumed(b, t) ==
  IF b.queued[t] > 0 THEN [b EXCEPT !.queued[t] = @ - 1, !.pool = @ + 1]
  ELSE [b EXCEPT !.fed[t] = FALSE]

\* send_videoDSI: a buffer is taken, and when it was sent to the video decoder it
\* is released.
ConfigTaken(b) == [b EXCEPT !.pool = @ - 1, !.config = 1]
ConfigSent(b) == [b EXCEPT !.config = 0, !.queued["V"] = @ + 1]
=============================================================================
