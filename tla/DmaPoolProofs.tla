---------------------------- MODULE DmaPoolProofs ----------------------------
(***************************************************************************)
(* What the operators of DmaPool keep: every one of them moves buffers     *)
(* from one place to another, if there is a buffer to move.                *)
(***************************************************************************)
EXTENDS DmaPool, TLAPS

\* Counters of any size: that they stay below Count follows from the total.
NatPools == [pool : Nat, recycled : Nat, held : [Tracks -> BOOLEAN],
             config : 0..1, fed : [Tracks -> BOOLEAN], queued : [Tracks -> Nat]]

Sound(b) == b \in NatPools /\ Total(b) = Count

\* Sound buffers are within the bounds of Pools.
LEMMA SoundInPools == ASSUME NEW b, Sound(b) PROVE b \in Pools
BY CountAssumption DEF Sound, NatPools, Pools, Total, Holds, Tracks

\* All buffers in the pool.
LEMMA FullSound == Sound(Full)
BY CountAssumption DEF Sound, NatPools, Full, Total, Holds, Tracks

\* RUAGetBuffer for a track that has no buffer.
LEMMA TakenSound ==
  ASSUME NEW b, Sound(b), NEW t \in Tracks, b.pool > 0, ~b.held[t]
  PROVE  Sound(Taken(b, t)) /\ Taken(b, t).config = b.config
<1> DEFINE c == Taken(b, t)
<1>1. b \in NatPools /\ b.pool - 1 \in Nat
  BY DEF Sound, NatPools
<1>2. \A x \in Nat : [b EXCEPT !.pool = x, !.held[t] = TRUE, !.fed[t] = FALSE] \in NatPools
  BY <1>1 DEF NatPools
<1>3. c \in NatPools
  BY <1>1, <1>2 DEF Taken
<1>4. /\ c.pool = b.pool - 1 /\ c.recycled = b.recycled
      /\ c.held = [b.held EXCEPT ![t] = TRUE] /\ c.queued = b.queued
      /\ c.config = b.config
  BY <1>1 DEF Taken, NatPools
<1>5. Total(c) = Count
  <2>1. CASE t = "A" BY <1>1, <1>4, <2>1 DEF Sound, Total, Holds, NatPools, Tracks
  <2>2. CASE t = "V" BY <1>1, <1>4, <2>2 DEF Sound, Total, Holds, NatPools, Tracks
  <2> QED BY <2>1, <2>2 DEF Tracks
<1> QED BY <1>3, <1>4, <1>5 DEF Sound

\* A buffer that was set aside, for a track that has none.
LEMMA ReusedSound ==
  ASSUME NEW b, Sound(b), NEW t \in Tracks, b.recycled > 0, ~b.held[t]
  PROVE  Sound(Reused(b, t)) /\ Reused(b, t).config = b.config
<1> DEFINE c == Reused(b, t)
<1>1. b \in NatPools /\ b.recycled - 1 \in Nat
  BY DEF Sound, NatPools
<1>2. \A x \in Nat :
        [b EXCEPT !.recycled = x, !.held[t] = TRUE, !.fed[t] = FALSE] \in NatPools
  BY <1>1 DEF NatPools
<1>3. c \in NatPools
  BY <1>1, <1>2 DEF Reused
<1>4. /\ c.pool = b.pool /\ c.recycled = b.recycled - 1
      /\ c.held = [b.held EXCEPT ![t] = TRUE] /\ c.queued = b.queued
      /\ c.config = b.config
  BY <1>1 DEF Reused, NatPools
<1>5. Total(c) = Count
  <2>1. CASE t = "A" BY <1>1, <1>4, <2>1 DEF Sound, Total, Holds, NatPools, Tracks
  <2>2. CASE t = "V" BY <1>1, <1>4, <2>2 DEF Sound, Total, Holds, NatPools, Tracks
  <2> QED BY <2>1, <2>2 DEF Tracks
<1> QED BY <1>3, <1>4, <1>5 DEF Sound

\* A buffer of the pool set aside.
LEMMA SetAsideSound ==
  ASSUME NEW b, Sound(b), b.pool > 0
  PROVE  Sound(SetAside(b)) /\ SetAside(b).config = b.config
<1> DEFINE c == SetAside(b)
<1>1. b \in NatPools /\ b.pool - 1 \in Nat /\ b.recycled + 1 \in Nat
  BY DEF Sound, NatPools
<1>2. \A x, y \in Nat : [b EXCEPT !.pool = x, !.recycled = y] \in NatPools
  BY <1>1 DEF NatPools
<1>3. c \in NatPools
  BY <1>1, <1>2 DEF SetAside
<1>4. /\ c.pool = b.pool - 1 /\ c.recycled = b.recycled + 1
      /\ c.held = b.held /\ c.queued = b.queued /\ c.config = b.config
  BY <1>1 DEF SetAside, NatPools
<1>5. Total(c) = Count
  BY <1>1, <1>4 DEF Sound, Total, Holds, NatPools, Tracks
<1> QED BY <1>3, <1>4, <1>5 DEF Sound

\* RUAReleaseBuffer, with a reader or without: the buffers set aside and those of
\* the other track are left alone.
LEMMA ReleasedSound ==
  ASSUME NEW b, Sound(b), NEW t \in Tracks
  PROVE  /\ Sound(Released(b, t)) /\ Released(b, t).config = b.config
         /\ Released(b, t).recycled = b.recycled
         /\ Released(b, t).held = [b.held EXCEPT ![t] = FALSE]
         /\ ~b.fed[t] => /\ Released(b, t).queued = b.queued
                         /\ Released(b, t).fed = b.fed
<1> DEFINE c == Released(b, t)
<1>1. b \in NatPools /\ b.pool + 1 \in Nat /\ b.queued[t] + 1 \in Nat
  BY DEF Sound, NatPools
<1>2. CASE ~b.held[t]
  <2>1. c = b BY <1>2 DEF Released
  <2>2. b.held = [b.held EXCEPT ![t] = FALSE] BY <1>1, <1>2 DEF NatPools
  <2> QED BY <2>1, <2>2
<1>3. CASE b.held[t] /\ b.fed[t]
  <2>1. \A x \in Nat :
          [b EXCEPT !.held[t] = FALSE, !.fed[t] = FALSE, !.queued[t] = x] \in NatPools
    BY <1>1 DEF NatPools
  <2>2. c = [b EXCEPT !.held[t] = FALSE, !.fed[t] = FALSE, !.queued[t] = b.queued[t] + 1]
    BY <1>1, <1>3 DEF Released, NatPools
  <2>3. c \in NatPools
    BY <1>1, <2>1, <2>2
  <2>4. /\ c.pool = b.pool /\ c.recycled = b.recycled /\ c.config = b.config
        /\ c.held = [b.held EXCEPT ![t] = FALSE]
        /\ c.queued = [b.queued EXCEPT ![t] = b.queued[t] + 1]
    BY <1>1, <2>2 DEF NatPools
  <2>5. Total(c) = Count
    <3>1. CASE t = "A" BY <1>1, <1>3, <2>4, <3>1 DEF Sound, Total, Holds, NatPools, Tracks
    <3>2. CASE t = "V" BY <1>1, <1>3, <2>4, <3>2 DEF Sound, Total, Holds, NatPools, Tracks
    <3> QED BY <3>1, <3>2 DEF Tracks
  <2> QED BY <1>3, <2>3, <2>4, <2>5 DEF Sound
<1>4. CASE b.held[t] /\ ~b.fed[t]
  <2>1. \A x \in Nat : [b EXCEPT !.held[t] = FALSE, !.pool = x] \in NatPools
    BY <1>1 DEF NatPools
  <2>2. c = [b EXCEPT !.held[t] = FALSE, !.pool = b.pool + 1]
    BY <1>1, <1>4 DEF Released, NatPools
  <2>3. c \in NatPools
    BY <1>1, <2>1, <2>2
  <2>4. /\ c.pool = b.pool + 1 /\ c.recycled = b.recycled /\ c.config = b.config
        /\ c.held = [b.held EXCEPT ![t] = FALSE]
        /\ c.queued = b.queued /\ c.fed = b.fed
    BY <1>1, <2>2 DEF NatPools
  <2>5. Total(c) = Count
    <3>1. CASE t = "A" BY <1>1, <1>4, <2>4, <3>1 DEF Sound, Total, Holds, NatPools, Tracks
    <3>2. CASE t = "V" BY <1>1, <1>4, <2>4, <3>2 DEF Sound, Total, Holds, NatPools, Tracks
    <3> QED BY <3>1, <3>2 DEF Tracks
  <2> QED BY <2>3, <2>4, <2>5 DEF Sound
<1> QED BY <1>2, <1>3, <1>4

\* All buffers that were set aside given back.
LEMMA EmptiedSound ==
  ASSUME NEW b, Sound(b)
  PROVE  /\ Sound(Emptied(b)) /\ Emptied(b).recycled = 0
         /\ Emptied(b).held = b.held /\ Emptied(b).queued = b.queued
         /\ Emptied(b).fed = b.fed /\ Emptied(b).config = b.config
<1> DEFINE c == Emptied(b)
<1>1. b \in NatPools /\ b.pool + b.recycled \in Nat
  BY DEF Sound, NatPools
<1>2. \A x \in Nat : [b EXCEPT !.pool = x, !.recycled = 0] \in NatPools
  BY <1>1 DEF NatPools
<1>3. c \in NatPools
  BY <1>1, <1>2 DEF Emptied
<1>4. /\ c.pool = b.pool + b.recycled /\ c.recycled = 0
      /\ c.held = b.held /\ c.queued = b.queued /\ c.fed = b.fed
      /\ c.config = b.config
  BY <1>1 DEF Emptied, NatPools
<1>5. Total(c) = Count
  BY <1>1, <1>4 DEF Sound, Total, Holds, NatPools, Tracks
<1> QED BY <1>3, <1>4, <1>5 DEF Sound

\* A decoder that is stopped reads nothing any more.
LEMMA StoppedSound ==
  ASSUME NEW b, Sound(b), NEW t \in Tracks
  PROVE  /\ Sound(Stopped(b, t)) /\ Stopped(b, t).recycled = b.recycled
         /\ Stopped(b, t).held = b.held /\ Stopped(b, t).config = b.config
         /\ Stopped(b, t).queued = [b.queued EXCEPT ![t] = 0]
         /\ Stopped(b, t).fed = [b.fed EXCEPT ![t] = FALSE]
<1> DEFINE c == Stopped(b, t)
<1>1. b \in NatPools /\ b.pool + b.queued[t] \in Nat
  BY DEF Sound, NatPools
<1>2. \A x \in Nat :
        [b EXCEPT !.pool = x, !.queued[t] = 0, !.fed[t] = FALSE] \in NatPools
  BY <1>1 DEF NatPools
<1>3. c \in NatPools
  BY <1>1, <1>2 DEF Stopped
<1>4. /\ c.pool = b.pool + b.queued[t] /\ c.recycled = b.recycled /\ c.held = b.held
      /\ c.queued = [b.queued EXCEPT ![t] = 0]
      /\ c.fed = [b.fed EXCEPT ![t] = FALSE] /\ c.config = b.config
  BY <1>1 DEF Stopped, NatPools
<1>5. Total(c) = Count
  <2>1. CASE t = "A" BY <1>1, <1>4, <2>1 DEF Sound, Total, Holds, NatPools, Tracks
  <2>2. CASE t = "V" BY <1>1, <1>4, <2>2 DEF Sound, Total, Holds, NatPools, Tracks
  <2> QED BY <2>1, <2>2 DEF Tracks
<1> QED BY <1>3, <1>4, <1>5 DEF Sound

\* Both decoders stopped: no buffer has a reader.
LEMMA AllStoppedSound ==
  ASSUME NEW b, Sound(b)
  PROVE  /\ Sound(AllStopped(b)) /\ AllStopped(b).recycled = b.recycled
         /\ AllStopped(b).held = b.held /\ AllStopped(b).config = b.config
         /\ \A t \in Tracks : AllStopped(b).queued[t] = 0 /\ ~AllStopped(b).fed[t]
<1> DEFINE c == Stopped(b, "V")
<1>a. b \in NatPools /\ "V" \in Tracks /\ "A" \in Tracks
  BY DEF Sound, Tracks
<1>b. /\ Sound(c) /\ c.recycled = b.recycled /\ c.held = b.held /\ c.config = b.config
      /\ c.queued = [b.queued EXCEPT !["V"] = 0]
      /\ c.fed = [b.fed EXCEPT !["V"] = FALSE]
  BY <1>a, StoppedSound
<1> HIDE DEF c
<1>1. /\ Sound(c) /\ c.recycled = b.recycled /\ c.held = b.held /\ c.config = b.config
      /\ c.queued["V"] = 0 /\ ~c.fed["V"] /\ c \in NatPools
  BY <1>a, <1>b DEF Sound, NatPools
<1>2. /\ Sound(Stopped(c, "A")) /\ Stopped(c, "A").recycled = c.recycled
      /\ Stopped(c, "A").held = c.held /\ Stopped(c, "A").config = c.config
      /\ Stopped(c, "A").queued = [c.queued EXCEPT !["A"] = 0]
      /\ Stopped(c, "A").fed = [c.fed EXCEPT !["A"] = FALSE]
  BY <1>1, StoppedSound DEF Tracks
<1>3. \A t \in Tracks : Stopped(c, "A").queued[t] = 0 /\ ~Stopped(c, "A").fed[t]
  BY <1>1, <1>2 DEF Tracks, NatPools
<1>4. AllStopped(b) = Stopped(c, "A")
  BY DEF AllStopped, c
<1> QED BY <1>1, <1>2, <1>3, <1>4

\* All buffers of the player given back; those without a reader go to the pool.
LEMMA FlushedSound ==
  ASSUME NEW b, Sound(b)
  PROVE  /\ Sound(Flushed(b)) /\ Flushed(b).recycled = 0
         /\ Flushed(b).config = b.config
         /\ \A t \in Tracks : ~Flushed(b).held[t]
         /\ (\A t \in Tracks : ~b.fed[t]) =>
              /\ Flushed(b).queued = b.queued
              /\ \A t \in Tracks : ~Flushed(b).fed[t]
<1> DEFINE c == Released(b, "V")
           d == Released(c, "A")
<1>1. /\ Sound(c) /\ c.held = [b.held EXCEPT !["V"] = FALSE] /\ b \in NatPools
      /\ c.config = b.config
      /\ ~b.fed["V"] => c.queued = b.queued /\ c.fed = b.fed
  BY ReleasedSound DEF Tracks, Sound
<1> HIDE DEF c
<1>2. /\ Sound(d) /\ d.held = [c.held EXCEPT !["A"] = FALSE] /\ d.config = c.config
      /\ ~c.fed["A"] => d.queued = c.queued /\ d.fed = c.fed
  BY <1>1, ReleasedSound DEF Tracks
<1> HIDE DEF d
<1>3. /\ Sound(Emptied(d)) /\ Emptied(d).recycled = 0 /\ Emptied(d).held = d.held
      /\ Emptied(d).queued = d.queued /\ Emptied(d).fed = d.fed
      /\ Emptied(d).config = d.config
  BY <1>2, EmptiedSound
<1>4. \A t \in Tracks : ~d.held[t]
  BY <1>1, <1>2 DEF Tracks, NatPools
<1>5. Flushed(b) = Emptied(d)
  BY DEF Flushed, c, d
<1> QED BY <1>1, <1>2, <1>3, <1>4, <1>5 DEF Tracks

\* A packet handed to a decoder moves no buffer.
LEMMA FedSound ==
  ASSUME NEW b, Sound(b), NEW t \in Tracks
  PROVE  /\ Sound(Fed(b, t)) /\ Fed(b, t).held = b.held
         /\ Fed(b, t).recycled = b.recycled /\ Fed(b, t).config = b.config
<1> DEFINE c == Fed(b, t)
<1>1. b \in NatPools
  BY DEF Sound
<1>2. c \in NatPools
  BY <1>1 DEF Fed, NatPools
<1>3. /\ c.pool = b.pool /\ c.recycled = b.recycled /\ c.held = b.held
      /\ c.queued = b.queued /\ c.config = b.config
  BY <1>1 DEF Fed, NatPools
<1>4. Total(c) = Count
  BY <1>1, <1>3 DEF Sound, Total, Holds, NatPools, Tracks
<1> QED BY <1>2, <1>3, <1>4 DEF Sound

\* A decoder done with a buffer returns it, unless the player holds it.
LEMMA ConsumedSound ==
  ASSUME NEW b, Sound(b), NEW t \in Tracks
  PROVE  /\ Sound(Consumed(b, t)) /\ Consumed(b, t).recycled = b.recycled
         /\ Consumed(b, t).held = b.held /\ Consumed(b, t).config = b.config
         /\ \A u \in Tracks : /\ Consumed(b, t).queued[u] <= b.queued[u]
                              /\ Consumed(b, t).fed[u] => b.fed[u]
<1> DEFINE c == Consumed(b, t)
<1>1. b \in NatPools /\ b.pool + 1 \in Nat
  BY DEF Sound, NatPools
<1>2. CASE b.queued[t] > 0
  <2>1. b.queued[t] - 1 \in Nat
    BY <1>1, <1>2 DEF NatPools
  <2>2. \A x, y \in Nat : [b EXCEPT !.queued[t] = x, !.pool = y] \in NatPools
    BY <1>1 DEF NatPools
  <2>3. c = [b EXCEPT !.queued[t] = b.queued[t] - 1, !.pool = b.pool + 1]
    BY <1>1, <1>2 DEF Consumed, NatPools
  <2>4. c \in NatPools
    BY <1>1, <2>1, <2>2, <2>3
  <2>5. /\ c.pool = b.pool + 1 /\ c.recycled = b.recycled /\ c.held = b.held
        /\ c.queued = [b.queued EXCEPT ![t] = b.queued[t] - 1] /\ c.fed = b.fed
        /\ c.config = b.config
    BY <1>1, <2>3 DEF NatPools
  <2>6. Total(c) = Count
    <3>1. CASE t = "A" BY <1>1, <2>5, <3>1 DEF Sound, Total, Holds, NatPools, Tracks
    <3>2. CASE t = "V" BY <1>1, <2>5, <3>2 DEF Sound, Total, Holds, NatPools, Tracks
    <3> QED BY <3>1, <3>2 DEF Tracks
  <2>7. \A u \in Tracks : c.queued[u] <= b.queued[u]
    BY <1>1, <2>5 DEF NatPools
  <2> QED BY <2>4, <2>5, <2>6, <2>7 DEF Sound
<1>3. CASE ~(b.queued[t] > 0)
  <2>1. c = [b EXCEPT !.fed[t] = FALSE]
    BY <1>3 DEF Consumed
  <2> HIDE DEF c
  <2>2. c \in NatPools
    <3>1. [b EXCEPT !.fed[t] = FALSE] \in NatPools BY <1>1 DEF NatPools
    <3> QED BY <2>1, <3>1
  <2>3. /\ c.pool = b.pool /\ c.recycled = b.recycled /\ c.held = b.held
        /\ c.queued = b.queued /\ c.fed = [b.fed EXCEPT ![t] = FALSE]
        /\ c.config = b.config
    BY <1>1, <2>1 DEF NatPools
  <2>4. Total(c) = Count
    BY <1>1, <2>3 DEF Sound, Total, Holds, NatPools, Tracks
  <2>5. \A u \in Tracks : c.queued[u] <= b.queued[u] /\ (c.fed[u] => b.fed[u])
    BY <1>1, <2>3 DEF NatPools
  <2> QED BY <2>2, <2>3, <2>4, <2>5 DEF Sound, c
<1> QED BY <1>2, <1>3

\* send_videoDSI takes a buffer of the pool.
LEMMA ConfigTakenSound ==
  ASSUME NEW b, Sound(b), b.pool > 0, b.config = 0
  PROVE  /\ Sound(ConfigTaken(b)) /\ ConfigTaken(b).config = 1
         /\ ConfigTaken(b).recycled = b.recycled /\ ConfigTaken(b).held = b.held
         /\ ConfigTaken(b).fed = b.fed /\ ConfigTaken(b).queued = b.queued
<1> DEFINE c == ConfigTaken(b)
<1>1. b \in NatPools /\ b.pool - 1 \in Nat /\ 1 \in 0..1
  BY DEF Sound, NatPools
<1>2. \A x \in Nat, y \in 0..1 : [b EXCEPT !.pool = x, !.config = y] \in NatPools
  BY <1>1 DEF NatPools
<1>3. c = [b EXCEPT !.pool = b.pool - 1, !.config = 1] /\ c \in NatPools
  <2>1. c = [b EXCEPT !.pool = b.pool - 1, !.config = 1]
    BY DEF ConfigTaken
  <2> HIDE DEF c
  <2> QED BY <1>1, <1>2, <2>1
<1>4. /\ c.pool = b.pool - 1 /\ c.recycled = b.recycled /\ c.held = b.held
      /\ c.queued = b.queued /\ c.fed = b.fed /\ c.config = 1
  BY <1>1 DEF ConfigTaken, NatPools
<1>5. Total(c) = Count
  BY <1>1, <1>4 DEF Sound, Total, Holds, NatPools, Tracks
<1> QED BY <1>3, <1>4, <1>5 DEF Sound

\* The buffer of the DSI released: the video decoder reads it.
LEMMA ConfigSentSound ==
  ASSUME NEW b, Sound(b), b.config = 1
  PROVE  /\ Sound(ConfigSent(b)) /\ ConfigSent(b).config = 0
         /\ ConfigSent(b).recycled = b.recycled /\ ConfigSent(b).held = b.held
         /\ ConfigSent(b).fed = b.fed
         /\ ConfigSent(b).queued = [b.queued EXCEPT !["V"] = b.queued["V"] + 1]
<1> DEFINE c == ConfigSent(b)
<1>1. b \in NatPools /\ b.queued["V"] + 1 \in Nat /\ 0 \in 0..1
  BY DEF Sound, NatPools, Tracks
<1>2. \A x \in Nat, y \in 0..1 :
        [b EXCEPT !.config = y, !.queued["V"] = x] \in NatPools
  BY <1>1 DEF NatPools, Tracks
<1>3. c = [b EXCEPT !.config = 0, !.queued["V"] = b.queued["V"] + 1]
  BY <1>1 DEF ConfigSent, NatPools
<1>4. c \in NatPools
  <2> HIDE DEF c
  <2> QED BY <1>1, <1>2, <1>3
<1>5. /\ c.pool = b.pool /\ c.recycled = b.recycled /\ c.held = b.held
      /\ c.queued = [b.queued EXCEPT !["V"] = b.queued["V"] + 1] /\ c.fed = b.fed
      /\ c.config = 0
  BY <1>1, <1>3 DEF NatPools
<1>6. Total(c) = Count
  BY <1>1, <1>5 DEF Sound, Total, Holds, NatPools, Tracks
<1> QED BY <1>4, <1>5, <1>6 DEF Sound
=============================================================================
