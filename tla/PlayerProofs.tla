---------------------------- MODULE PlayerProofs ----------------------------
(***************************************************************************)
(* Proofs about Player: its types, the DMA buffers and where they may be,  *)
(* what is pending, and what comes before the frames.                      *)
(***************************************************************************)
EXTENDS Player, DmaPoolProofs

\* Where the player is, or goes on when send_videoDSI returns.
Place == IF pc \in DsiLabels THEN after ELSE pc

\* The types, as far as they do not concern the buffers; send_videoDSI returns to
\* one of its callers.
TypedButBufs ==
  /\ psm \in States
  /\ disk \in {"DISABLE", "SLEEPING", "RUNNING"}
  /\ running \subseteq Tracks
  /\ sample \in [Tracks -> {"none", "packet", "null"}]
  /\ orphan \in BOOLEAN
  /\ eos \in [Tracks -> BOOLEAN]
  /\ dsi \in BOOLEAN
  /\ pc \in Labels
  /\ after \in {"none", "paused", "playing", "start", "noseek", "stopped"}
              \cup LateLabels
  /\ pc \in DsiLabels => after # "none"
  /\ track \in Tracks
  /\ audioTracks \in 1..2
  /\ failures \in 0..MaxFailures
  /\ flushed \in BOOLEAN

\* Where a key that jumps nowhere leads.
LEMMA KeyMoves ==
  ASSUME pc \in KeyPoints, pc' = Resume[pc]
  PROVE  /\ Place = pc /\ Place' = pc' /\ pc' \in Labels /\ pc' \notin DsiLabels
         /\ \/ pc = "keyPaused" /\ pc' = "playAll"
            \/ pc = "keyLoop" /\ pc' = "wake"
            \/ pc = "keyGet" /\ pc' = "get"
            \/ pc = "keyPending" /\ pc' = "send"
            \/ pc = "keyTail" /\ pc' = "eosCheck"
            \/ pc \in {"keyLast", "wait"} /\ pc' = "wait"
BY DEF KeyPoints, Resume, Place, DsiLabels, Sending, Labels

\* No key is read within send_videoDSI.
LEMMA KeyPlace ==
  pc \in KeyPoints =>
    /\ Place = pc /\ pc \notin DsiLabels
    /\ pc \in {"keyPaused", "keyLoop", "keyGet", "keyPending", "keyTail", "keyLast", "wait"}
BY DEF KeyPoints, Resume, Place, DsiLabels, Sending

\* check_prebuf_state: its caller goes on at next, at once or behind the DSI.
LEMMA Prebuf ==
  ASSUME TypedButBufs, NEW quit, NEW next \in LateLabels, CheckPrebuf(quit, next),
         pc \notin DsiLabels
  PROVE  /\ Place' = next /\ pc' \in {"dsi", next}
         /\ pc' = "dsi" => /\ psm = "Prebuffering" /\ psm' = "Playing"
                          /\ dsi /\ after' = next
         /\ \/ psm = "Prebuffering" /\ psm' = "Playing"
            \/ psm' = psm /\ (psm = "Prebuffering" => ~quit)
         /\ psm' \in States /\ running' \subseteq Tracks /\ pc' \in Labels
         /\ after' = after \/ after' = next
BY DEF CheckPrebuf, QuitPrebuf, TypedButBufs, Place, DsiLabels, Sending, LateLabels,
       States, Tracks, Labels, KeyPoints, Resume

\* The same for each of the callers.
LEMMA GetFreePrebuf ==
  ASSUME TypedButBufs, GetFree
  PROVE  /\ Place' = "send" /\ pc' \in {"dsi", "send"}
         /\ pc' = "dsi" => /\ psm = "Prebuffering" /\ psm' = "Playing"
                          /\ dsi /\ after' = "send"
         /\ (psm = "Prebuffering" /\ psm' = "Playing") \/ psm' = psm
         /\ psm' \in States /\ running' \subseteq Tracks /\ pc' \in Labels
         /\ after' = after \/ after' = "send"
<1>1. CheckPrebuf(TransferPending, "send") /\ pc \notin DsiLabels /\ "send" \in LateLabels
  BY DEF GetFree, DsiLabels, Sending, LateLabels
<1> QED BY <1>1, Prebuf

LEMMA RecyclePrebuf ==
  ASSUME TypedButBufs, Recycle
  PROVE  /\ Place' = "get" /\ pc' \in {"dsi", "get"}
         /\ pc' = "dsi" => /\ psm = "Prebuffering" /\ psm' = "Playing"
                          /\ dsi /\ after' = "get"
         /\ (psm = "Prebuffering" /\ psm' = "Playing") \/ psm' = psm
         /\ psm' \in States /\ running' \subseteq Tracks /\ pc' \in Labels
         /\ after' = after \/ after' = "get"
<1>1. CheckPrebuf(TransferPending, "get") /\ pc \notin DsiLabels /\ "get" \in LateLabels
  BY DEF Recycle, DsiLabels, Sending, LateLabels
<1> QED BY <1>1, Prebuf

LEMMA GetTimeoutPrebuf ==
  ASSUME TypedButBufs, GetTimeout
  PROVE  /\ Place' = "keyGet" /\ pc' \in {"dsi", "keyGet"}
         /\ pc' = "dsi" => /\ psm = "Prebuffering" /\ psm' = "Playing"
                          /\ dsi /\ after' = "keyGet"
         /\ (psm = "Prebuffering" /\ psm' = "Playing") \/ psm' = psm
         /\ psm' \in States /\ running' \subseteq Tracks /\ pc' \in Labels
         /\ after' = after \/ after' = "keyGet"
         /\ psm' # "Prebuffering"
<1>1. CheckPrebuf(TRUE, "keyGet") /\ pc \notin DsiLabels /\ "keyGet" \in LateLabels
  BY DEF GetTimeout, DsiLabels, Sending, LateLabels
<1> QED BY <1>1, Prebuf

LEMMA SendPendingPrebuf ==
  ASSUME TypedButBufs, SendPending
  PROVE  /\ Place' = "keyPending" /\ pc' \in {"dsi", "keyPending"}
         /\ pc' = "dsi" => /\ psm = "Prebuffering" /\ psm' = "Playing"
                          /\ dsi /\ after' = "keyPending"
         /\ (psm = "Prebuffering" /\ psm' = "Playing") \/ psm' = psm
         /\ psm' \in States /\ running' \subseteq Tracks /\ pc' \in Labels
         /\ after' = after \/ after' = "keyPending"
         /\ psm' # "Prebuffering"
<1>1. CheckPrebuf(TRUE, "keyPending") /\ pc \notin DsiLabels /\ "keyPending" \in LateLabels
  BY DEF SendPending, DsiLabels, Sending, LateLabels
<1> QED BY <1>1, Prebuf

LEMMA FinishPrebuf ==
  ASSUME TypedButBufs, Finish
  PROVE  /\ Place' = "keyLast" /\ pc' \in {"dsi", "keyLast"}
         /\ pc' = "dsi" => /\ psm = "Prebuffering" /\ psm' = "Playing"
                          /\ dsi /\ after' = "keyLast"
         /\ (psm = "Prebuffering" /\ psm' = "Playing") \/ psm' = psm
         /\ psm' \in States /\ running' \subseteq Tracks /\ pc' \in Labels
         /\ after' = after \/ after' = "keyLast"
         /\ psm' # "Prebuffering"
<1>1. CheckPrebuf(TRUE, "keyLast") /\ pc \notin DsiLabels /\ "keyLast" \in LateLabels
  BY DEF Finish, DsiLabels, Sending, LateLabels
<1> QED BY <1>1, Prebuf

\* A key that may stop the video decoder and goes on: the decoder has no DSI then.
LEMMA StopsOrNot ==
  ASSUME TypedButBufs, NEW b, NEW r \in SUBSET Tracks, MayStopVideo(b, r)
  PROVE  /\ running' \subseteq Tracks /\ dsi' \in BOOLEAN /\ flushed' \in BOOLEAN
         /\ (dsi' /\ flushed') \/ (dsi' = dsi /\ flushed' = flushed)
BY DEF MayStopVideo, StopsVideo, TypedButBufs

LEMMA KeysStop ==
  ASSUME TypedButBufs,
         VideoStoppedKey \/ PauseOrPlayKey \/ FastKey \/ ResumeFromTrickMode \/ SwitchAudio
  PROVE  /\ running' \subseteq Tracks /\ dsi' \in BOOLEAN /\ flushed' \in BOOLEAN
         /\ (dsi' /\ flushed') \/ (dsi' = dsi /\ flushed' = flushed)
<1>1. CASE VideoStoppedKey
  BY <1>1 DEF VideoStoppedKey, StopsVideo, TypedButBufs
<1>2. CASE PauseOrPlayKey
  <2>1. MayStopVideo(bufs, {}) \/ MayStopVideo(bufs, Tracks)
    BY <1>2 DEF PauseOrPlayKey
  <2> QED BY <2>1, StopsOrNot
<1>3. CASE FastKey
  <2>1. MayStopVideo(Stopped(bufs, "A"), {"V"}) /\ {"V"} \in SUBSET Tracks
    BY <1>3 DEF FastKey, Tracks
  <2> QED BY <2>1, StopsOrNot
<1>4. CASE ResumeFromTrickMode
  BY <1>4, StopsOrNot DEF ResumeFromTrickMode
<1>5. CASE SwitchAudio
  <2> DEFINE r == IF psm = "Stopped" THEN running \ {"A"} ELSE running \cup {"A"}
  <2>1. MayStopVideo(Stopped(bufs, "A"), r) /\ r \in SUBSET Tracks
    BY <1>5 DEF SwitchAudio, TypedButBufs, Tracks
  <2> HIDE DEF r
  <2> QED BY <2>1, StopsOrNot
<1> QED BY <1>1, <1>2, <1>3, <1>4, <1>5

\* The disk beside a key.
LEMMA KeyDisk == TypedButBufs /\ Key => disk' \in {"DISABLE", "SLEEPING", "RUNNING"}
BY DEF Key, MaySleep, TypedButBufs

\* Every step keeps the types, as far as they do not concern the buffers.
LEMMA TypesKept == TypedButBufs /\ [Next]_vars => TypedButBufs'
<1> SUFFICES ASSUME TypedButBufs, [Next]_vars PROVE TypedButBufs'
  OBVIOUS
<1> USE PlayerAssumption
<1>1. CASE Begin
  BY <1>1 DEF Begin, States, Tracks, DsiLabels, Sending, Labels, TypedButBufs
<1>2. CASE Mainloop
  BY <1>2 DEF Mainloop, DsiLabels, Sending, Labels, TypedButBufs
<1>3. CASE Noseek
  BY <1>3
     DEF Noseek, No, None, States, KeyPoints, Resume, DsiLabels, Sending, Labels,
         TypedButBufs
<1>4. CASE PlayAll
  BY <1>4 DEF PlayAll, Tracks, DsiLabels, Sending, Labels, TypedButBufs
<1>5. CASE TakeDSI
  BY <1>5 DEF TakeDSI, DsiLabels, Sending, Labels, TypedButBufs
<1>6. CASE RetryDSI
  BY <1>6 DEF RetryDSI, DsiLabels, Sending, Labels, TypedButBufs
<1>7. CASE SendDSI
  BY <1>7
     DEF SendDSI, States, LateLabels, KeyPoints, Resume, DsiLabels, Sending, Labels,
         TypedButBufs
<1>8. CASE Start
  BY <1>8 DEF Start, Wake, KeyPoints, Resume, DsiLabels, Sending, Labels, TypedButBufs
<1>9. CASE Choose
  BY <1>9
     DEF Choose, Wake, Ready, Tracks, KeyPoints, Resume, DsiLabels, Sending, Labels,
         TypedButBufs
<1>10. CASE GetRecycled
  BY <1>10 DEF GetRecycled, DsiLabels, Sending, Labels, TypedButBufs
<1>11. CASE GetFree
  BY <1>11, GetFreePrebuf
     DEF GetFree, LateLabels, DsiLabels, Sending, Labels, TypedButBufs
<1>12. CASE Recycle
  <2>1. Wake \/ UNCHANGED <<disk, failures>>
    BY <1>12 DEF Recycle
  <2>2. /\ disk' \in {"DISABLE", "SLEEPING", "RUNNING"}
        /\ failures' \in 0..MaxFailures
    BY <2>1 DEF Wake, TypedButBufs
  <2> QED
    BY <1>12, <2>2, RecyclePrebuf
       DEF Recycle, TypedButBufs, LateLabels, DsiLabels, Sending, Labels
<1>13. CASE GetTimeout
  BY <1>13, GetTimeoutPrebuf
     DEF GetTimeout, MaySleep, LateLabels, DsiLabels, Sending, Labels, TypedButBufs
<1>14. CASE SendSilent
  BY <1>14 DEF SendSilent, DsiLabels, Sending, Labels, TypedButBufs
<1>15. CASE SendEnd
  BY <1>15 DEF SendEnd, DsiLabels, Sending, Labels, Reads, TypedButBufs
<1>16. CASE SendHangs
  BY <1>16 DEF SendHangs, DsiLabels, Sending, Labels, TypedButBufs
<1>17. CASE SendEmpty
  BY <1>17 DEF SendEmpty, DsiLabels, Sending, Labels, TypedButBufs
<1>18. CASE SendAccepted
  BY <1>18 DEF SendAccepted, DsiLabels, Sending, Labels, TypedButBufs
<1>19. CASE SendRefused
  BY <1>19 DEF SendRefused, DsiLabels, Sending, Labels, TypedButBufs
<1>20. CASE SendPending
  BY <1>20, SendPendingPrebuf
     DEF SendPending, MaySleep, LateLabels, DsiLabels, Sending, Labels, TypedButBufs
<1>21. CASE Sent
  BY <1>21
     DEF Sent, Tracks, KeyPoints, Resume, DsiLabels, Sending, Labels, TypedButBufs
<1>22. CASE EosCheck
  BY <1>22 DEF EosCheck, KeyPoints, Resume, DsiLabels, Sending, Labels, TypedButBufs
<1>23. CASE Finish
  BY <1>23, FinishPrebuf
     DEF Finish, MaySleep, LateLabels, DsiLabels, Sending, Labels, TypedButBufs
<1>24. CASE WaitDone
  BY <1>24 DEF WaitDone, DsiLabels, Sending, Labels, TypedButBufs
<1>25. CASE Again
  BY <1>25 DEF Again, DsiLabels, Sending, Labels, TypedButBufs
<1>26. CASE LastTime
  BY <1>26 DEF LastTime, DsiLabels, Sending, Labels, TypedButBufs
<1>27. CASE Cleanup
  BY <1>27 DEF Cleanup, DsiLabels, Sending, Labels, TypedButBufs
<1>28. CASE NoKey
  BY <1>28, KeyMoves, KeyDisk DEF NoKey, Key, TypedButBufs
<1>29. CASE VideoStoppedKey
  BY <1>29, KeyMoves, KeyDisk, KeysStop DEF VideoStoppedKey, Key, TypedButBufs
<1>30. CASE PauseOrPlayKey
  BY <1>30, KeyMoves, KeyDisk, KeysStop DEF PauseOrPlayKey, Key, States, TypedButBufs
<1>31. CASE FastKey
  BY <1>31, KeyMoves, KeyDisk, KeysStop DEF FastKey, Key, States, TypedButBufs
<1>32. CASE IFrameKey
  BY <1>32, KeyDisk
     DEF IFrameKey, No, States, Tracks, DsiLabels, Sending, Labels, TypedButBufs
<1>33. CASE ResumeFromTrickMode
  BY <1>33, KeyDisk, KeysStop
     DEF ResumeFromTrickMode, No, States, DsiLabels, Sending, Labels, TypedButBufs
<1>34. CASE ResumeFromIFrameMode
  BY <1>34, KeyDisk
     DEF ResumeFromIFrameMode, MkvSeek, No, None, States, Tracks, DsiLabels, Sending,
         Labels, TypedButBufs
<1>35. CASE StopKey
  <2>1. disk' \in {"DISABLE", "SLEEPING", "RUNNING"}
    BY <1>35, KeyDisk DEF StopKey
  <2>2. CASE MkvSeek(FlushedHere, "stopped")
    BY <1>35, <2>1, <2>2
       DEF StopKey, MkvSeek, TypedButBufs, States, Tracks, None, No, DsiLabels, Sending,
           Labels
  <2>3. CASE ~MkvSeek(FlushedHere, "stopped")
    <3>1. Kept \in [Tracks -> {"none", "packet", "null"}]
      BY DEF Kept, TypedButBufs
    <3> QED
      BY <1>35, <2>1, <2>3, <3>1
         DEF StopKey, TypedButBufs, States, No, DsiLabels, Sending, Labels
  <2> QED
    BY <2>2, <2>3
<1>36. CASE QuitKey
  BY <1>36, KeyDisk DEF QuitKey, Kept, DsiLabels, Sending, Labels, TypedButBufs
<1>37. CASE StopZeroKey
  BY <1>37, KeyDisk
     DEF StopZeroKey, Kept, States, DsiLabels, Sending, Labels, TypedButBufs
<1>38. CASE SeekKey
  BY <1>38, KeyDisk
     DEF SeekKey, MkvSeek, No, None, States, Tracks, DsiLabels, Sending, Labels,
         TypedButBufs
<1>39. CASE SwitchAudio
  BY <1>39, KeyDisk, KeysStop
     DEF SwitchAudio, Tracks, DsiLabels, Sending, Labels, TypedButBufs
<1>40. CASE WaitDSI
  BY <1>40 DEF WaitDSI, vars, TypedButBufs
<1>41. CASE Closed
  BY <1>41 DEF Closed, vars, TypedButBufs
<1>42. ASSUME NEW u \in Tracks, Consume(u) PROVE TypedButBufs'
  BY <1>42 DEF Consume, TypedButBufs
<1>43. CASE UNCHANGED vars
  BY <1>43 DEF vars, TypedButBufs
<1> QED
  BY <1>1, <1>2, <1>3, <1>4, <1>5, <1>6, <1>7, <1>8, <1>9, <1>10, <1>11, <1>12, <1>13,
     <1>14, <1>15, <1>16, <1>17, <1>18, <1>19, <1>20, <1>21, <1>22, <1>23, <1>24,
     <1>25, <1>26, <1>27, <1>28, <1>29, <1>30, <1>31, <1>32, <1>33, <1>34, <1>35,
     <1>36, <1>37, <1>38, <1>39, <1>40, <1>41, <1>42, <1>43
     DEF Next, Main, Command

\* send_videoDSI holds a buffer while it sends it; get_buffer is called for a track
\* that holds none.
Placed ==
  /\ bufs.config = IF pc \in Sending THEN 1 ELSE 0
  /\ Place \in {"get", "keyGet"} => ~bufs.held[track]

-----------------------------------------------------------------------------
(* What the actions do to the buffers.                                     *)

\* A key that releases the buffers, before it stops anything.
LEMMA FlushedHereSound ==
  ASSUME Sound(bufs)
  PROVE  /\ Sound(FlushedHere) /\ FlushedHere.recycled <= bufs.recycled
         /\ FlushedHere.config = bufs.config
         /\ Release => \A t \in Tracks : ~FlushedHere.held[t]
         /\ ~Release => FlushedHere.held = bufs.held
<1>1. CASE Release
  <2>1. /\ Sound(Flushed(bufs)) /\ Flushed(bufs).recycled = 0
        /\ Flushed(bufs).config = bufs.config
        /\ \A t \in Tracks : ~Flushed(bufs).held[t]
    BY FlushedSound
  <2>2. FlushedHere = Flushed(bufs) BY <1>1 DEF FlushedHere
  <2> HIDE DEF Release
  <2> QED BY <1>1, <2>1, <2>2 DEF Sound, NatPools
<1>2. CASE ~Release
  BY <1>2 DEF FlushedHere, Sound, NatPools
<1> QED BY <1>1, <1>2

\* The same, and both decoders stopped.
LEMMA FlushedAndStopped ==
  ASSUME Sound(bufs)
  PROVE  /\ Sound(AllStopped(FlushedHere))
         /\ AllStopped(FlushedHere).recycled <= bufs.recycled
         /\ AllStopped(FlushedHere).config = bufs.config
         /\ Release => \A t \in Tracks : ~AllStopped(FlushedHere).held[t]
         /\ ~Release => AllStopped(FlushedHere).held = bufs.held
         /\ \A t \in Tracks : /\ AllStopped(FlushedHere).queued[t] = 0
                              /\ ~AllStopped(FlushedHere).fed[t]
<1>1. Sound(FlushedHere) /\ FlushedHere.recycled <= bufs.recycled
      /\ FlushedHere.config = bufs.config
      /\ (Release => \A t \in Tracks : ~FlushedHere.held[t])
      /\ (~Release => FlushedHere.held = bufs.held)
  BY FlushedHereSound
<1>2. \A b : Sound(b) =>
        /\ Sound(AllStopped(b)) /\ AllStopped(b).recycled = b.recycled
        /\ AllStopped(b).held = b.held /\ AllStopped(b).config = b.config
        /\ \A t \in Tracks : AllStopped(b).queued[t] = 0 /\ ~AllStopped(b).fed[t]
  BY AllStoppedSound
<1> HIDE DEF Release, FlushedHere
<1> QED BY <1>1, <1>2

\* mainloop_noseek gives every buffer back.
LEMMA NoseekBuffers ==
  ASSUME Sound(bufs), Noseek
  PROVE  /\ Sound(bufs') /\ bufs'.config = bufs.config
         /\ bufs'.recycled = 0 /\ bufs'.recycled <= bufs.recycled
         /\ \A t \in Tracks : ~bufs'.held[t]
         /\ (\A t \in Tracks : ~bufs.fed[t]) =>
              bufs'.queued = bufs.queued /\ \A t \in Tracks : ~bufs'.fed[t]
<1>1. bufs' = Flushed(bufs) BY DEF Noseek
<1>2. /\ Sound(Flushed(bufs)) /\ Flushed(bufs).recycled = 0
      /\ Flushed(bufs).config = bufs.config
      /\ \A t \in Tracks : ~Flushed(bufs).held[t]
      /\ (\A t \in Tracks : ~bufs.fed[t]) =>
           /\ Flushed(bufs).queued = bufs.queued
           /\ \A t \in Tracks : ~Flushed(bufs).fed[t]
  BY FlushedSound
<1> QED BY <1>1, <1>2 DEF Sound, NatPools

\* send_videoDSI takes a buffer from the pool only.
LEMMA TakeDSIBuffers ==
  ASSUME Sound(bufs), Placed, TakeDSI
  PROVE  /\ Sound(bufs') /\ bufs'.config = 1
         /\ bufs'.recycled = bufs.recycled /\ bufs'.held = bufs.held
         /\ bufs'.fed = bufs.fed /\ bufs'.queued = bufs.queued
<1>1. bufs.config = 0 /\ bufs.pool > 0 /\ bufs' = ConfigTaken(bufs)
  BY DEF Placed, TakeDSI, Sending
<1> QED BY <1>1, ConfigTakenSound

\* send_videoDSI leaves one buffer with the video decoder, or none if it is stopped.
LEMMA SendDSIBuffers ==
  ASSUME Sound(bufs), Placed, SendDSI
  PROVE  /\ Sound(bufs') /\ bufs'.config = 0
         /\ bufs'.recycled = bufs.recycled /\ bufs'.held = bufs.held
         /\ after # "stopped" =>
              /\ bufs'.fed = bufs.fed
              /\ bufs'.queued = [bufs.queued EXCEPT !["V"] = bufs.queued["V"] + 1]
         /\ after = "stopped" => \A t \in Tracks : bufs'.queued[t] = 0 /\ ~bufs'.fed[t]
<1> DEFINE c == ConfigSent(bufs)
<1>1. /\ Sound(c) /\ c.recycled = bufs.recycled /\ c.held = bufs.held /\ c.fed = bufs.fed
      /\ c.queued = [bufs.queued EXCEPT !["V"] = bufs.queued["V"] + 1] /\ c.config = 0
  BY ConfigSentSound DEF SendDSI, Placed
<1>2. bufs' = IF after = "stopped" THEN AllStopped(c) ELSE c
  BY DEF SendDSI, LateLabels
<1> HIDE DEF c
<1>3. /\ Sound(AllStopped(c)) /\ AllStopped(c).recycled = c.recycled
      /\ AllStopped(c).held = c.held /\ AllStopped(c).config = c.config
      /\ \A t \in Tracks : AllStopped(c).queued[t] = 0 /\ ~AllStopped(c).fed[t]
  BY <1>1, AllStoppedSound
<1> QED BY <1>1, <1>2, <1>3

\* A buffer set aside is used.
LEMMA GetRecycledBuffers ==
  ASSUME TypedButBufs, Sound(bufs), Placed, GetRecycled
  PROVE  /\ Sound(bufs') /\ bufs'.config = bufs.config
         /\ bufs'.recycled = bufs.recycled - 1
         /\ bufs'.held = [bufs.held EXCEPT ![track] = TRUE]
<1>1. /\ track \in Tracks /\ ~bufs.held[track] /\ bufs.recycled > 0
      /\ bufs' = Reused(bufs, track)
  BY DEF GetRecycled, Placed, TypedButBufs, UseRecycled, Place, DsiLabels, Sending
<1>2. Sound(Reused(bufs, track)) /\ Reused(bufs, track).config = bufs.config
  BY <1>1, ReusedSound
<1>3. bufs \in NatPools /\ bufs' = Reused(bufs, track) BY <1>1 DEF Sound
<1> QED BY <1>1, <1>2, <1>3 DEF Reused, NatPools

\* A buffer of the pool is used.
LEMMA GetFreeBuffers ==
  ASSUME TypedButBufs, Sound(bufs), Placed, GetFree
  PROVE  /\ Sound(bufs') /\ bufs'.config = bufs.config
         /\ bufs'.recycled = bufs.recycled
         /\ bufs'.held = [bufs.held EXCEPT ![track] = TRUE]
<1>1. track \in Tracks /\ ~bufs.held[track] /\ bufs.pool > 0 /\ bufs' = Taken(bufs, track)
  BY DEF GetFree, Placed, TypedButBufs, Place, DsiLabels, Sending
<1>2. Sound(Taken(bufs, track)) /\ Taken(bufs, track).config = bufs.config
  BY <1>1, TakenSound
<1>3. bufs \in NatPools /\ bufs' = Taken(bufs, track) BY <1>1 DEF Sound
<1> QED BY <1>1, <1>2, <1>3 DEF Taken, NatPools

\* A buffer of the pool is set aside.
LEMMA RecycleBuffers ==
  ASSUME Sound(bufs), Recycle
  PROVE  /\ Sound(bufs') /\ bufs'.config = bufs.config
         /\ bufs'.recycled = bufs.recycled + 1
         /\ bufs'.held = bufs.held
<1>1. bufs' = SetAside(bufs) /\ bufs.pool > 0 BY DEF Recycle
<1>2. Sound(SetAside(bufs)) /\ SetAside(bufs).config = bufs.config
  BY <1>1, SetAsideSound
<1>3. bufs \in NatPools BY DEF Sound
<1> QED BY <1>1, <1>2, <1>3 DEF SetAside, NatPools

\* A packet sent moves no buffer.
LEMMA SendAcceptedBuffers ==
  ASSUME TypedButBufs, Sound(bufs), SendAccepted
  PROVE  /\ Sound(bufs') /\ bufs'.config = bufs.config
         /\ bufs'.recycled = bufs.recycled
         /\ bufs'.held = bufs.held
<1>1. bufs' = bufs \/ bufs' = Fed(bufs, track) BY DEF SendAccepted
<1>2. /\ Sound(Fed(bufs, track)) /\ Fed(bufs, track).held = bufs.held
      /\ Fed(bufs, track).recycled = bufs.recycled
      /\ Fed(bufs, track).config = bufs.config
  BY FedSound DEF TypedButBufs
<1> QED BY <1>1, <1>2

\* A full buffer is released, and only on the way to the end of the loop.
LEMMA SentBuffers ==
  ASSUME TypedButBufs, Sound(bufs), Sent
  PROVE  /\ Sound(bufs') /\ bufs'.config = bufs.config
         /\ bufs'.recycled = bufs.recycled
         /\ bufs'.held = bufs.held \/ bufs'.held = [bufs.held EXCEPT ![track] = FALSE]
<1>1. bufs' = bufs \/ bufs' = Released(bufs, track) BY DEF Sent
<1>2. /\ Sound(Released(bufs, track)) /\ Released(bufs, track).recycled = bufs.recycled
      /\ Released(bufs, track).config = bufs.config
      /\ Released(bufs, track).held = [bufs.held EXCEPT ![track] = FALSE]
  BY ReleasedSound DEF TypedButBufs
<1> QED BY <1>1, <1>2

\* Stopping both decoders leaves every buffer the player has where it is.
LEMMA StopBuffers ==
  ASSUME Sound(bufs), Again \/ IFrameKey \/ ResumeFromIFrameMode
  PROVE  /\ Sound(bufs') /\ bufs'.config = bufs.config
         /\ bufs'.recycled <= bufs.recycled
         /\ bufs'.held = bufs.held
         /\ \A t \in Tracks : bufs'.queued[t] = 0 /\ ~bufs'.fed[t]
<1>1. bufs' = AllStopped(bufs)
  BY DEF Again, IFrameKey, ResumeFromIFrameMode, MkvSeek
<1>2. /\ Sound(AllStopped(bufs)) /\ AllStopped(bufs).recycled = bufs.recycled
      /\ AllStopped(bufs).held = bufs.held /\ AllStopped(bufs).config = bufs.config
      /\ \A t \in Tracks : AllStopped(bufs).queued[t] = 0 /\ ~AllStopped(bufs).fed[t]
  BY AllStoppedSound
<1> QED BY <1>1, <1>2 DEF Sound, NatPools

\* cleanup gives back what was set aside.
LEMMA CleanupBuffers ==
  ASSUME Sound(bufs), Cleanup
  PROVE  /\ Sound(bufs') /\ bufs'.config = bufs.config
         /\ bufs'.recycled <= bufs.recycled
         /\ bufs'.held = bufs.held
<1> DEFINE c == AllStopped(bufs)
<1>1. Sound(c) /\ c.held = bufs.held /\ c.config = bufs.config BY AllStoppedSound
<1>2. bufs' = Emptied(c) BY DEF Cleanup
<1> HIDE DEF c
<1>3. /\ Sound(Emptied(c)) /\ Emptied(c).recycled = 0 /\ Emptied(c).held = c.held
      /\ Emptied(c).config = c.config
  BY <1>1, EmptiedSound
<1> QED BY <1>1, <1>2, <1>3 DEF Sound, NatPools

\* Stopping a decoder or two leaves everything else alone.
LEMMA MayStopBuffers ==
  ASSUME NEW b, Sound(b), NEW r, MayStopVideo(b, r) \/ StopsVideo(b, r)
  PROVE  /\ Sound(bufs') /\ bufs'.config = b.config
         /\ bufs'.recycled = b.recycled /\ bufs'.held = b.held
         /\ \A t \in Tracks :
              bufs'.queued[t] <= b.queued[t] /\ (bufs'.fed[t] => b.fed[t])
<1>1. bufs' = b \/ bufs' = Stopped(b, "V")
  BY DEF MayStopVideo, StopsVideo
<1>2. /\ Sound(Stopped(b, "V")) /\ Stopped(b, "V").recycled = b.recycled
      /\ Stopped(b, "V").held = b.held /\ Stopped(b, "V").config = b.config
      /\ Stopped(b, "V").queued = [b.queued EXCEPT !["V"] = 0]
      /\ Stopped(b, "V").fed = [b.fed EXCEPT !["V"] = FALSE]
  BY StoppedSound DEF Tracks
<1>3. b \in NatPools
  BY DEF Sound
<1> QED BY <1>1, <1>2, <1>3 DEF NatPools, Tracks

LEMMA KeyStopBuffers ==
  ASSUME Sound(bufs),
         VideoStoppedKey \/ PauseOrPlayKey \/ FastKey \/ ResumeFromTrickMode \/ SwitchAudio
  PROVE  /\ Sound(bufs') /\ bufs'.config = bufs.config
         /\ bufs'.recycled = bufs.recycled /\ bufs'.held = bufs.held
         /\ \A t \in Tracks :
              bufs'.queued[t] <= bufs.queued[t] /\ (bufs'.fed[t] => bufs.fed[t])
<1>1. CASE VideoStoppedKey
  BY <1>1, MayStopBuffers DEF VideoStoppedKey
<1>2. CASE PauseOrPlayKey
  BY <1>2, MayStopBuffers DEF PauseOrPlayKey
<1>3. CASE ResumeFromTrickMode
  BY <1>3, MayStopBuffers DEF ResumeFromTrickMode
<1>4. CASE FastKey \/ SwitchAudio
  <2> DEFINE c == Stopped(bufs, "A")
             r == IF psm = "Stopped" THEN running \ {"A"} ELSE running \cup {"A"}
  <2>1. /\ Sound(c) /\ c.recycled = bufs.recycled /\ c.held = bufs.held
        /\ c.config = bufs.config /\ bufs \in NatPools
        /\ c.queued = [bufs.queued EXCEPT !["A"] = 0]
        /\ c.fed = [bufs.fed EXCEPT !["A"] = FALSE]
    BY StoppedSound DEF Tracks, Sound
  <2>2. MayStopVideo(c, {"V"}) \/ MayStopVideo(c, r)
    BY <1>4 DEF FastKey, SwitchAudio
  <2> HIDE DEF c, r
  <2>3. /\ Sound(bufs') /\ bufs'.config = c.config
        /\ bufs'.recycled = c.recycled /\ bufs'.held = c.held
        /\ \A t \in Tracks : bufs'.queued[t] <= c.queued[t] /\ (bufs'.fed[t] => c.fed[t])
    BY <2>1, <2>2, MayStopBuffers
  <2>4. \A t \in Tracks : c.queued[t] <= bufs.queued[t] /\ (c.fed[t] => bufs.fed[t])
    BY <2>1 DEF NatPools, Tracks
  <2>5. bufs' \in NatPools /\ c \in NatPools
    BY <2>1, <2>3 DEF Sound
  <2>6. \A t \in Tracks : bufs'.queued[t] <= bufs.queued[t]
    BY <2>1, <2>3, <2>4, <2>5 DEF NatPools
  <2> QED BY <2>1, <2>3, <2>4, <2>6
<1> QED BY <1>1, <1>2, <1>3, <1>4

\* Quitting gives the buffers back where that is allowed.
LEMMA QuitBuffers ==
  ASSUME Sound(bufs), QuitKey
  PROVE  /\ Sound(bufs') /\ bufs'.config = bufs.config
         /\ bufs'.recycled <= bufs.recycled
         /\ Release => \A t \in Tracks : ~bufs'.held[t]
         /\ ~Release => bufs'.held = bufs.held
BY FlushedHereSound DEF QuitKey

\* Stop and seek give the buffers back where that is allowed, and stop the decoders.
LEMMA FlushAndStopBuffers ==
  ASSUME Sound(bufs), StopKey \/ StopZeroKey \/ SeekKey
  PROVE  /\ Sound(bufs') /\ bufs'.config = bufs.config
         /\ bufs'.recycled <= bufs.recycled
         /\ Release => \A t \in Tracks : ~bufs'.held[t]
         /\ ~Release => bufs'.held = bufs.held
         /\ \A t \in Tracks : bufs'.queued[t] = 0 /\ ~bufs'.fed[t]
<1>1. bufs' = AllStopped(FlushedHere) BY DEF StopKey, StopZeroKey, SeekKey, MkvSeek
<1> QED BY <1>1, FlushedAndStopped

\* A decoder takes nothing from the player.
LEMMA ConsumeBuffers ==
  ASSUME Sound(bufs), NEW u \in Tracks, Consume(u)
  PROVE  /\ Sound(bufs') /\ bufs'.config = bufs.config
         /\ bufs'.recycled = bufs.recycled
         /\ bufs'.held = bufs.held
         /\ \A t \in Tracks :
              bufs'.queued[t] <= bufs.queued[t] /\ (bufs'.fed[t] => bufs.fed[t])
<1>1. bufs' = Consumed(bufs, u) BY DEF Consume
<1> QED BY <1>1, ConsumedSound

\* No step loses a buffer, or has one in two places.
LEMMA SoundKept ==
  ASSUME TypedButBufs, Sound(bufs), Placed, [Next]_vars
  PROVE  Sound(bufs') /\ Placed'
<1>1. CASE Begin
  BY <1>1 DEF Begin, Placed, Place, DsiLabels, Sending
<1>2. CASE Mainloop
  BY <1>2 DEF Mainloop, Placed, Place, DsiLabels, Sending
<1>3. CASE Noseek
  BY <1>3, NoseekBuffers DEF Noseek, Placed, Place, DsiLabels, Sending
<1>4. CASE PlayAll
  BY <1>4 DEF PlayAll, Placed, Place, DsiLabels, Sending
<1>5. CASE TakeDSI
  BY <1>5, TakeDSIBuffers DEF TakeDSI, Placed, Place, DsiLabels, Sending
<1>6. CASE RetryDSI
  BY <1>6 DEF RetryDSI, Placed, Place, DsiLabels, Sending
<1>7. CASE SendDSI
  BY <1>7, SendDSIBuffers DEF SendDSI, LateLabels, Placed, Place, DsiLabels, Sending
<1>8. CASE Start
  BY <1>8 DEF Start, Placed, Place, DsiLabels, Sending
<1>9. CASE Choose
  BY <1>9 DEF Choose, Placed, Place, DsiLabels, Sending
<1>10. CASE GetRecycled
  BY <1>10, GetRecycledBuffers DEF GetRecycled, Placed, Place, DsiLabels, Sending
<1>11. CASE GetFree
  BY <1>11, GetFreeBuffers, GetFreePrebuf
     DEF GetFree, Placed, Place, DsiLabels, Sending
<1>12. CASE Recycle
  BY <1>12, RecycleBuffers, RecyclePrebuf
     DEF Recycle, Placed, Place, DsiLabels, Sending
<1>13. CASE GetTimeout
  BY <1>13, GetTimeoutPrebuf DEF GetTimeout, Placed, Place, DsiLabels, Sending
<1>14. CASE SendSilent
  BY <1>14 DEF SendSilent, Placed, Place, DsiLabels, Sending
<1>15. CASE SendEnd
  BY <1>15 DEF SendEnd, Reads, Placed, Place, DsiLabels, Sending
<1>16. CASE SendHangs
  BY <1>16 DEF SendHangs, Reads, Placed, Place, DsiLabels, Sending
<1>17. CASE SendEmpty
  BY <1>17 DEF SendEmpty, Reads, Placed, Place, DsiLabels, Sending
<1>18. CASE SendAccepted
  BY <1>18, SendAcceptedBuffers DEF SendAccepted, Placed, Place, DsiLabels, Sending
<1>19. CASE SendRefused
  BY <1>19 DEF SendRefused, Placed, Place, DsiLabels, Sending
<1>20. CASE SendPending
  BY <1>20, SendPendingPrebuf DEF SendPending, Placed, Place, DsiLabels, Sending
<1>21. CASE Sent
  BY <1>21, SentBuffers DEF Sent, Placed, Place, DsiLabels, Sending
<1>22. CASE EosCheck
  BY <1>22 DEF EosCheck, Placed, Place, DsiLabels, Sending
<1>23. CASE Finish
  BY <1>23, FinishPrebuf DEF Finish, Placed, Place, DsiLabels, Sending
<1>24. CASE WaitDone
  BY <1>24 DEF WaitDone, Placed, Place, DsiLabels, Sending
<1>25. CASE Again
  BY <1>25, StopBuffers DEF Again, Placed, Place, DsiLabels, Sending
<1>26. CASE LastTime
  BY <1>26 DEF LastTime, Placed, Place, DsiLabels, Sending
<1>27. CASE Cleanup
  BY <1>27, CleanupBuffers DEF Cleanup, Placed, Place, DsiLabels, Sending
<1>28. CASE NoKey
  BY <1>28, KeyMoves DEF NoKey, Key, Placed, Place, DsiLabels, Sending
<1>29. CASE VideoStoppedKey
  BY <1>29, KeyStopBuffers, KeyMoves
     DEF VideoStoppedKey, Key, Placed, Place, DsiLabels, Sending
<1>30. CASE PauseOrPlayKey
  BY <1>30, KeyStopBuffers, KeyMoves
     DEF PauseOrPlayKey, Key, Placed, Place, DsiLabels, Sending
<1>31. CASE FastKey
  BY <1>31, KeyStopBuffers, KeyMoves
     DEF FastKey, Key, Placed, Place, DsiLabels, Sending
<1>32. CASE IFrameKey
  BY <1>32, StopBuffers, KeyPlace
     DEF IFrameKey, Key, Placed, Place, DsiLabels, Sending
<1>33. CASE ResumeFromTrickMode
  BY <1>33, KeyStopBuffers, KeyPlace
     DEF ResumeFromTrickMode, Key, Placed, Place, DsiLabels, Sending
<1>34. CASE ResumeFromIFrameMode
  BY <1>34, StopBuffers, KeyPlace
     DEF ResumeFromIFrameMode, Key, MkvSeek, Placed, Place, DsiLabels, Sending
<1>35. CASE StopKey
  BY <1>35, FlushAndStopBuffers, KeyPlace
     DEF StopKey, Key, MkvSeek, Placed, Place, DsiLabels, Sending
<1>36. CASE QuitKey
  BY <1>36, QuitBuffers, KeyPlace DEF QuitKey, Key, Placed, Place, DsiLabels, Sending
<1>37. CASE StopZeroKey
  BY <1>37, FlushAndStopBuffers, KeyPlace
     DEF StopZeroKey, Key, Placed, Place, DsiLabels, Sending
<1>38. CASE SeekKey
  BY <1>38, FlushAndStopBuffers, KeyPlace
     DEF SeekKey, Key, MkvSeek, Placed, Place, DsiLabels, Sending
<1>39. CASE SwitchAudio
  BY <1>39, KeyStopBuffers, KeyPlace
     DEF SwitchAudio, Key, Placed, Place, DsiLabels, Sending
<1>40. CASE WaitDSI
  BY <1>40 DEF WaitDSI, vars, Placed, Place, DsiLabels, Sending
<1>41. CASE Closed
  BY <1>41 DEF Closed, vars, Placed, Place, DsiLabels, Sending
<1>42. ASSUME NEW u \in Tracks, Consume(u) PROVE Sound(bufs') /\ Placed'
  BY <1>42, ConsumeBuffers DEF Consume, Placed, Place, DsiLabels, Sending
<1>43. CASE UNCHANGED vars
  BY <1>43 DEF vars, Placed, Place, DsiLabels, Sending
<1> QED
  BY <1>1, <1>2, <1>3, <1>4, <1>5, <1>6, <1>7, <1>8, <1>9, <1>10, <1>11, <1>12, <1>13,
     <1>14, <1>15, <1>16, <1>17, <1>18, <1>19, <1>20, <1>21, <1>22, <1>23, <1>24,
     <1>25, <1>26, <1>27, <1>28, <1>29, <1>30, <1>31, <1>32, <1>33, <1>34, <1>35,
     <1>36, <1>37, <1>38, <1>39, <1>40, <1>41, <1>42, <1>43
     DEF Next, Main, Command

-----------------------------------------------------------------------------
(* The invariants: each is kept, given those before it.                    *)

\* As many buffers are set aside as RecycleLeavesRoom allows only between the one
\* that wakes the disk and the next, which get_buffer takes back.
RoomLeft ==
  /\ bufs.recycled + LowLevel <= Count + failures
  /\ bufs.recycled + LowLevel = Count + failures => Place = "get" /\ disk = "RUNNING"

\* A track is sent from the buffer it holds, in which what is pending lies.  What is
\* pending outlives a call of send_MKV_* that does not return RM_PENDING only where
\* audio is not sent at all, or as a NULL.
PendingKept ==
  /\ \A t \in Tracks :
       sample[t] = "packet" => bufs.held[t] \/ (t = "A" /\ orphan)
  /\ sample["A"] # "null"
  /\ Place \in {"send", "keyPending"} => bufs.held[track]
  /\ pc = "sent" /\ sample[track] = "packet" =>
       track = "A" /\ psm \in Trick \cup {"Stopped"}

\* Prebuffering ends before the end of the file; the decoder has its DSI in it, and
\* where it ends, unless a key stopped the decoder.
PrebufKept ==
  /\ psm = "Prebuffering" =>
       /\ pc \in {"start", "keyLoop", "wake", "get", "keyGet", "send", "keyPending",
                  "sent", "keyTail", "eosCheck", "cleanup", "hung", "closed"}
       /\ pc # "closed" => ~dsi \/ flushed
  /\ pc \in DsiLabels /\ after \in LateLabels => flushed

\* A NULL is pending in the I-frame mode or behind a key's stop, or it is forgotten
\* before anything is sent.
NullKept ==
  /\ sample["V"] = "null" =>
       \/ psm = "IFrame" \/ flushed
       \/ Place \in {"begin", "paused", "mainloop", "noseek", "stopped", "closed"}
  /\ Place \in {"keyPaused", "playAll", "playing"} => \A t \in Tracks : sample[t] = "none"
  /\ pc \in DsiLabels /\ after = "start" => psm = "IFrame"

\* send_MKV_* reads the file only behind a call that found the disk awake; after
\* RM_PENDING it reads nothing.
AwakeKept ==
  /\ Place = "send" /\ sample[track] = "none" /\ disk = "SLEEPING" => failures > 0
  /\ Place = "keyPending" => sample[track] # "none"

\* With one audio track only mainloop_noseek leads to the sending of data, and a
\* player stopped or paused is started through Play.
Past == {"start", "keyLoop", "wake", "get", "keyGet", "send", "keyPending", "sent",
         "keyTail", "eosCheck", "keyLast", "wait", "ended"}

ConfiguredKept ==
  audioTracks = 1 =>
    /\ pc \in Past => ~dsi \/ flushed
    /\ pc = "keyPaused" => psm \in {"Paused", "Stopped"}

\* From a stop of the decoders to the next Play nothing but one DSI can be queued,
\* and the player that starts holds nothing.
AtRest == {"begin", "mainloop", "noseek", "keyPaused", "playAll"}

QuietKept ==
  /\ pc \in AtRest \/ (pc \in DsiLabels /\ after \notin LateLabels) =>
       bufs.queued["A"] = 0 /\ bufs.queued["V"] <= 1 /\ \A t \in Tracks : ~bufs.fed[t]
  /\ pc = "begin" \/ (pc \in DsiLabels /\ after \notin LateLabels /\ after # "playing") =>
       bufs.queued["V"] = 0
  /\ Place \in {"keyPaused", "playAll", "playing"} =>
       bufs.recycled = 0 /\ \A t \in Tracks : ~bufs.held[t]

\* Setting buffers aside stops in time.
LEMMA RoomKept ==
  ASSUME TypedButBufs, Sound(bufs), Placed, RoomLeft, [Next]_vars
  PROVE  RoomLeft'
<1> USE PlayerAssumption, CountAssumption
<1>a. bufs.recycled \in Nat /\ failures \in Nat /\ Sound(bufs') /\ bufs'.recycled \in Nat
  BY SoundKept DEF TypedButBufs, Sound, NatPools
<1>1. CASE Begin
  BY <1>1, <1>a DEF Begin, RoomLeft, Place, DsiLabels, Sending
<1>2. CASE Mainloop
  BY <1>2, <1>a DEF Mainloop, RoomLeft, Place, DsiLabels, Sending
<1>3. CASE Noseek
  <2>1. bufs'.recycled <= bufs.recycled
    BY <1>3, NoseekBuffers
  <2>2. Place # "get" /\ failures' = failures
    BY <1>3 DEF Noseek, Place, DsiLabels, Sending
  <2> QED
    BY <1>a, <2>1, <2>2 DEF RoomLeft
<1>4. CASE PlayAll
  BY <1>4, <1>a DEF PlayAll, RoomLeft, Place, DsiLabels, Sending
<1>5. CASE TakeDSI
  BY <1>5, <1>a, TakeDSIBuffers DEF TakeDSI, RoomLeft, Place, DsiLabels, Sending
<1>6. CASE RetryDSI
  BY <1>6, <1>a DEF RetryDSI, RoomLeft, Place, DsiLabels, Sending
<1>7. CASE SendDSI
  BY <1>7, <1>a, SendDSIBuffers
     DEF SendDSI, LateLabels, RoomLeft, Place, DsiLabels, Sending
<1>8. CASE Start
  BY <1>8, <1>a DEF Start, Wake, TypedButBufs, RoomLeft, Place, DsiLabels, Sending
<1>9. CASE Choose
  BY <1>9, <1>a DEF Choose, Wake, TypedButBufs, RoomLeft, Place, DsiLabels, Sending
<1>10. CASE GetRecycled
  BY <1>10, <1>a, GetRecycledBuffers
     DEF GetRecycled, RoomLeft, Place, DsiLabels, Sending
<1>11. CASE GetFree
  BY <1>11, <1>a, GetFreeBuffers, GetFreePrebuf
     DEF GetFree, UseRecycled, TypedButBufs, RoomLeft, Place, DsiLabels, Sending
<1>12. CASE Recycle
  <2>1. bufs'.recycled = bufs.recycled + 1 /\ Place' = "get"
    BY <1>12, RecycleBuffers, RecyclePrebuf
  <2>2. SetAside(bufs).recycled = bufs.recycled + 1 /\ bufs.recycled + 1 \in Nat
    BY <1>12, <1>a, <2>1 DEF Recycle
  <2>3. Place = "get" /\ disk = "SLEEPING" /\ bufs.recycled + LowLevel < Count + failures
    BY <1>12, <1>a DEF Recycle, RoomLeft, Place, DsiLabels, Sending
  <2>4. IF bufs.recycled + 1 + LowLevel >= Count THEN Wake ELSE UNCHANGED <<disk, failures>>
    BY <1>12, <2>2 DEF Recycle, WakeLevel
  <2> QED
    BY <1>a, <2>1, <2>3, <2>4 DEF RoomLeft, Wake, TypedButBufs
<1>13. CASE GetTimeout
  BY <1>13, <1>a, GetTimeoutPrebuf
     DEF GetTimeout, UseRecycled, TypedButBufs, RoomLeft, Place, DsiLabels, Sending
<1>14. CASE SendSilent
  BY <1>14, <1>a DEF SendSilent, RoomLeft, Place, DsiLabels, Sending
<1>15. CASE SendEnd
  BY <1>15, <1>a DEF SendEnd, Reads, RoomLeft, Place, DsiLabels, Sending
<1>16. CASE SendHangs
  BY <1>16, <1>a DEF SendHangs, Reads, RoomLeft, Place, DsiLabels, Sending
<1>17. CASE SendEmpty
  BY <1>17, <1>a DEF SendEmpty, Reads, RoomLeft, Place, DsiLabels, Sending
<1>18. CASE SendAccepted
  BY <1>18, <1>a, SendAcceptedBuffers
     DEF SendAccepted, RoomLeft, Place, DsiLabels, Sending
<1>19. CASE SendRefused
  BY <1>19, <1>a DEF SendRefused, RoomLeft, Place, DsiLabels, Sending
<1>20. CASE SendPending
  BY <1>20, <1>a, SendPendingPrebuf
     DEF SendPending, RoomLeft, Place, DsiLabels, Sending
<1>21. CASE Sent
  BY <1>21, <1>a, SentBuffers DEF Sent, RoomLeft, Place, DsiLabels, Sending
<1>22. CASE EosCheck
  BY <1>22, <1>a DEF EosCheck, RoomLeft, Place, DsiLabels, Sending
<1>23. CASE Finish
  BY <1>23, <1>a, FinishPrebuf DEF Finish, RoomLeft, Place, DsiLabels, Sending
<1>24. CASE WaitDone
  BY <1>24, <1>a DEF WaitDone, RoomLeft, Place, DsiLabels, Sending
<1>25. CASE Again
  <2>1. bufs'.recycled <= bufs.recycled
    BY <1>25, StopBuffers
  <2>2. Place # "get" /\ failures' = failures
    BY <1>25 DEF Again, Place, DsiLabels, Sending
  <2> QED
    BY <1>a, <2>1, <2>2 DEF RoomLeft
<1>26. CASE LastTime
  BY <1>26, <1>a DEF LastTime, RoomLeft, Place, DsiLabels, Sending
<1>27. CASE Cleanup
  <2>1. bufs'.recycled <= bufs.recycled
    BY <1>27, CleanupBuffers
  <2>2. Place # "get" /\ failures' = failures
    BY <1>27 DEF Cleanup, Place, DsiLabels, Sending
  <2> QED
    BY <1>a, <2>1, <2>2 DEF RoomLeft
<1>28. CASE NoKey
  BY <1>28, <1>a, KeyMoves DEF NoKey, Key, RoomLeft, Place, DsiLabels, Sending
<1>29. CASE VideoStoppedKey
  BY <1>29, <1>a, KeyStopBuffers, KeyMoves
     DEF VideoStoppedKey, Key, RoomLeft, Place, DsiLabels, Sending
<1>30. CASE PauseOrPlayKey
  BY <1>30, <1>a, KeyStopBuffers, KeyMoves
     DEF PauseOrPlayKey, Key, RoomLeft, Place, DsiLabels, Sending
<1>31. CASE FastKey
  BY <1>31, <1>a, KeyStopBuffers, KeyMoves
     DEF FastKey, Key, RoomLeft, Place, DsiLabels, Sending
<1>32. CASE IFrameKey
  <2>1. bufs'.recycled <= bufs.recycled
    BY <1>32, StopBuffers
  <2>2. Place # "get" /\ failures' = failures
    BY <1>32, KeyPlace DEF IFrameKey, Key, Place, DsiLabels, Sending
  <2> QED
    BY <1>a, <2>1, <2>2 DEF RoomLeft
<1>33. CASE ResumeFromTrickMode
  <2>1. bufs'.recycled <= bufs.recycled
    BY <1>33, <1>a, KeyStopBuffers
  <2>2. Place # "get" /\ failures' = failures
    BY <1>33, KeyPlace DEF ResumeFromTrickMode, Key, Place, DsiLabels, Sending
  <2> QED
    BY <1>a, <2>1, <2>2 DEF RoomLeft
<1>34. CASE ResumeFromIFrameMode
  <2>1. bufs'.recycled <= bufs.recycled
    BY <1>34, StopBuffers
  <2>2. Place # "get" /\ failures' = failures
    BY <1>34, KeyPlace DEF ResumeFromIFrameMode, Key, Place, DsiLabels, Sending
  <2> QED
    BY <1>a, <2>1, <2>2 DEF RoomLeft
<1>35. CASE StopKey
  <2>1. bufs'.recycled <= bufs.recycled
    BY <1>35, FlushAndStopBuffers
  <2>2. Place # "get" /\ failures' = failures
    BY <1>35, KeyPlace DEF StopKey, Key, Place, DsiLabels, Sending
  <2> QED
    BY <1>a, <2>1, <2>2 DEF RoomLeft
<1>36. CASE QuitKey
  <2>1. bufs'.recycled <= bufs.recycled
    BY <1>36, QuitBuffers
  <2>2. Place # "get" /\ failures' = failures
    BY <1>36, KeyPlace DEF QuitKey, Key, Place, DsiLabels, Sending
  <2> QED
    BY <1>a, <2>1, <2>2 DEF RoomLeft
<1>37. CASE StopZeroKey
  <2>1. bufs'.recycled <= bufs.recycled
    BY <1>37, FlushAndStopBuffers
  <2>2. Place # "get" /\ failures' = failures
    BY <1>37, KeyPlace DEF StopZeroKey, Key, Place, DsiLabels, Sending
  <2> QED
    BY <1>a, <2>1, <2>2 DEF RoomLeft
<1>38. CASE SeekKey
  <2>1. bufs'.recycled <= bufs.recycled
    BY <1>38, FlushAndStopBuffers
  <2>2. Place # "get" /\ failures' = failures
    BY <1>38, KeyPlace DEF SeekKey, Key, Place, DsiLabels, Sending
  <2> QED
    BY <1>a, <2>1, <2>2 DEF RoomLeft
<1>39. CASE SwitchAudio
  <2>1. bufs'.recycled <= bufs.recycled
    BY <1>39, <1>a, KeyStopBuffers
  <2>2. Place # "get" /\ failures' = failures
    BY <1>39, KeyPlace DEF SwitchAudio, Key, Place, DsiLabels, Sending
  <2> QED
    BY <1>a, <2>1, <2>2 DEF RoomLeft
<1>40. CASE WaitDSI
  BY <1>40, <1>a DEF WaitDSI, vars, RoomLeft, Place, DsiLabels, Sending
<1>41. CASE Closed
  BY <1>41, <1>a DEF Closed, vars, RoomLeft, Place, DsiLabels, Sending
<1>42. ASSUME NEW u \in Tracks, Consume(u) PROVE RoomLeft'
  BY <1>42, <1>a, ConsumeBuffers DEF Consume, RoomLeft, Place, DsiLabels, Sending
<1>43. CASE UNCHANGED vars
  BY <1>43 DEF vars, RoomLeft, Place, DsiLabels, Sending
<1> QED
  BY <1>1, <1>2, <1>3, <1>4, <1>5, <1>6, <1>7, <1>8, <1>9, <1>10, <1>11, <1>12, <1>13,
     <1>14, <1>15, <1>16, <1>17, <1>18, <1>19, <1>20, <1>21, <1>22, <1>23, <1>24,
     <1>25, <1>26, <1>27, <1>28, <1>29, <1>30, <1>31, <1>32, <1>33, <1>34, <1>35,
     <1>36, <1>37, <1>38, <1>39, <1>40, <1>41, <1>42, <1>43
     DEF Next, Main, Command

\* No step gives a buffer away under a transfer.
LEMMA PendingStep ==
  ASSUME TypedButBufs, Sound(bufs), Placed, PendingKept, [Next]_vars
  PROVE  PendingKept'
<1>a. bufs.held \in [Tracks -> BOOLEAN] /\ sample \in [Tracks -> {"none", "packet", "null"}]
  BY DEF TypedButBufs, Sound, NatPools
<1>1. CASE Begin
  BY <1>1, <1>a DEF Begin, PendingKept, Tracks, Place, DsiLabels, Sending
<1>2. CASE Mainloop
  BY <1>2, <1>a DEF Mainloop, PendingKept, Tracks, Place, DsiLabels, Sending
<1>3. CASE Noseek
  BY <1>3, <1>a, NoseekBuffers
     DEF Noseek, None, PendingKept, Tracks, Place, DsiLabels, Sending
<1>4. CASE PlayAll
  BY <1>4, <1>a DEF PlayAll, PendingKept, Tracks, Place, DsiLabels, Sending
<1>5. CASE TakeDSI
  BY <1>5, <1>a, TakeDSIBuffers
     DEF TakeDSI, PendingKept, Tracks, Place, DsiLabels, Sending
<1>6. CASE RetryDSI
  BY <1>6, <1>a DEF RetryDSI, PendingKept, Tracks, Place, DsiLabels, Sending
<1>7. CASE SendDSI
  BY <1>7, <1>a, SendDSIBuffers
     DEF SendDSI, LateLabels, PendingKept, Tracks, Place, DsiLabels, Sending
<1>8. CASE Start
  BY <1>8, <1>a DEF Start, PendingKept, Tracks, Place, DsiLabels, Sending
<1>9. CASE Choose
  BY <1>9, <1>a DEF Choose, PendingKept, Tracks, Place, DsiLabels, Sending
<1>10. CASE GetRecycled
  BY <1>10, <1>a, GetRecycledBuffers
     DEF GetRecycled, TypedButBufs, PendingKept, Tracks, Place, DsiLabels, Sending
<1>11. CASE GetFree
  BY <1>11, <1>a, GetFreeBuffers, GetFreePrebuf
     DEF GetFree, TypedButBufs, PendingKept, Tracks, Place, DsiLabels, Sending
<1>12. CASE Recycle
  BY <1>12, <1>a, RecycleBuffers, RecyclePrebuf
     DEF Recycle, PendingKept, Tracks, Place, DsiLabels, Sending
<1>13. CASE GetTimeout
  BY <1>13, <1>a, GetTimeoutPrebuf
     DEF GetTimeout, PendingKept, Tracks, Place, DsiLabels, Sending
<1>14. CASE SendSilent
  BY <1>14, <1>a
     DEF SendSilent, Silent, Trick, States, TypedButBufs, PendingKept, Tracks, Place,
         DsiLabels, Sending
<1>15. CASE SendEnd
  BY <1>15, <1>a DEF SendEnd, Reads, PendingKept, Tracks, Place, DsiLabels, Sending
<1>16. CASE SendHangs
  BY <1>16, <1>a DEF SendHangs, Reads, PendingKept, Tracks, Place, DsiLabels, Sending
<1>17. CASE SendEmpty
  BY <1>17, <1>a DEF SendEmpty, Reads, PendingKept, Tracks, Place, DsiLabels, Sending
<1>18. CASE SendAccepted
  BY <1>18, <1>a, SendAcceptedBuffers
     DEF SendAccepted, TypedButBufs, PendingKept, Tracks, Place, DsiLabels, Sending
<1>19. CASE SendRefused
  BY <1>19, <1>a
     DEF SendRefused, TypedButBufs, PendingKept, Tracks, Place, DsiLabels, Sending
<1>20. CASE SendPending
  BY <1>20, <1>a, SendPendingPrebuf
     DEF SendPending, TypedButBufs, PendingKept, Tracks, Place, DsiLabels, Sending
<1>21. CASE Sent
  BY <1>21, <1>a, SentBuffers
     DEF Sent, TypedButBufs, PendingKept, Tracks, Place, DsiLabels, Sending
<1>22. CASE EosCheck
  BY <1>22, <1>a DEF EosCheck, PendingKept, Tracks, Place, DsiLabels, Sending
<1>23. CASE Finish
  BY <1>23, <1>a, FinishPrebuf
     DEF Finish, PendingKept, Tracks, Place, DsiLabels, Sending
<1>24. CASE WaitDone
  BY <1>24, <1>a DEF WaitDone, PendingKept, Tracks, Place, DsiLabels, Sending
<1>25. CASE Again
  BY <1>25, <1>a, StopBuffers
     DEF Again, PendingKept, Tracks, Place, DsiLabels, Sending
<1>26. CASE LastTime
  BY <1>26, <1>a DEF LastTime, PendingKept, Tracks, Place, DsiLabels, Sending
<1>27. CASE Cleanup
  BY <1>27, <1>a, CleanupBuffers
     DEF Cleanup, PendingKept, Tracks, Place, DsiLabels, Sending
<1>28. CASE NoKey
  BY <1>28, <1>a, KeyMoves
     DEF NoKey, Key, PendingKept, Tracks, Place, DsiLabels, Sending
<1>29. CASE VideoStoppedKey
  BY <1>29, <1>a, KeyStopBuffers, KeyMoves
     DEF VideoStoppedKey, Key, PendingKept, Tracks, Place, DsiLabels, Sending
<1>30. CASE PauseOrPlayKey
  BY <1>30, <1>a, KeyStopBuffers, KeyMoves
     DEF PauseOrPlayKey, Key, PendingKept, Tracks, Place, DsiLabels, Sending
<1>31. CASE FastKey
  BY <1>31, <1>a, KeyStopBuffers, KeyMoves
     DEF FastKey, Key, PendingKept, Tracks, Place, DsiLabels, Sending
<1>32. CASE IFrameKey
  BY <1>32, <1>a, StopBuffers, KeyPlace
     DEF IFrameKey, Key, PendingKept, Tracks, Place, DsiLabels, Sending
<1>33. CASE ResumeFromTrickMode
  BY <1>33, <1>a, KeyStopBuffers, KeyPlace
     DEF ResumeFromTrickMode, Key, PendingKept, Tracks, Place, DsiLabels, Sending
<1>34. CASE ResumeFromIFrameMode
  BY <1>34, <1>a, StopBuffers, KeyPlace
     DEF ResumeFromIFrameMode, Key, MkvSeek, None, PendingKept, Tracks, Place,
         DsiLabels, Sending
<1>35. CASE StopKey
  BY <1>35, <1>a, FlushAndStopBuffers, KeyPlace
     DEF StopKey, Key, MkvSeek, None, Kept, PendingKept, Tracks, Place, DsiLabels,
         Sending
<1>36. CASE QuitKey
  BY <1>36, <1>a, QuitBuffers, KeyPlace
     DEF QuitKey, Key, Kept, PendingKept, Tracks, Place, DsiLabels, Sending
<1>37. CASE StopZeroKey
  BY <1>37, <1>a, FlushAndStopBuffers, KeyPlace
     DEF StopZeroKey, Key, Kept, PendingKept, Tracks, Place, DsiLabels, Sending
<1>38. CASE SeekKey
  BY <1>38, <1>a, FlushAndStopBuffers, KeyPlace
     DEF SeekKey, Key, MkvSeek, None, PendingKept, Tracks, Place, DsiLabels, Sending
<1>39. CASE SwitchAudio
  BY <1>39, <1>a, KeyStopBuffers, KeyPlace
     DEF SwitchAudio, Key, PendingKept, Tracks, Place, DsiLabels, Sending
<1>40. CASE WaitDSI
  BY <1>40, <1>a DEF WaitDSI, vars, PendingKept, Tracks, Place, DsiLabels, Sending
<1>41. CASE Closed
  BY <1>41, <1>a DEF Closed, vars, PendingKept, Tracks, Place, DsiLabels, Sending
<1>42. ASSUME NEW u \in Tracks, Consume(u) PROVE PendingKept'
  BY <1>42, ConsumeBuffers DEF Consume, PendingKept, Place, DsiLabels, Sending
<1>43. CASE UNCHANGED vars
  BY <1>43 DEF vars, PendingKept, Tracks, Place, DsiLabels, Sending
<1> QED
  BY <1>1, <1>2, <1>3, <1>4, <1>5, <1>6, <1>7, <1>8, <1>9, <1>10, <1>11, <1>12, <1>13,
     <1>14, <1>15, <1>16, <1>17, <1>18, <1>19, <1>20, <1>21, <1>22, <1>23, <1>24,
     <1>25, <1>26, <1>27, <1>28, <1>29, <1>30, <1>31, <1>32, <1>33, <1>34, <1>35,
     <1>36, <1>37, <1>38, <1>39, <1>40, <1>41, <1>42, <1>43
     DEF Next, Main, Command

\* Prebuffering ends in time.
LEMMA PrebufStep ==
  ASSUME TypedButBufs, PrebufKept, [Next]_vars
  PROVE  PrebufKept'
<1>1. CASE Begin
  BY <1>1 DEF Begin, PrebufKept, DsiLabels, Sending, LateLabels
<1>2. CASE Mainloop
  BY <1>2 DEF Mainloop, PrebufKept, DsiLabels, Sending, LateLabels
<1>3. CASE Noseek
  BY <1>3 DEF Noseek, PrebufKept, DsiLabels, Sending, LateLabels
<1>4. CASE PlayAll
  BY <1>4 DEF PlayAll, PrebufKept, DsiLabels, Sending, LateLabels
<1>5. CASE TakeDSI
  BY <1>5 DEF TakeDSI, PrebufKept, DsiLabels, Sending, LateLabels
<1>6. CASE RetryDSI
  BY <1>6 DEF RetryDSI, PrebufKept, DsiLabels, Sending, LateLabels
<1>7. CASE SendDSI
  BY <1>7 DEF SendDSI, PrebufKept, DsiLabels, Sending, LateLabels
<1>8. CASE Start
  BY <1>8 DEF Start, PrebufKept, DsiLabels, Sending, LateLabels
<1>9. CASE Choose
  BY <1>9 DEF Choose, PrebufKept, DsiLabels, Sending, LateLabels
<1>10. CASE GetRecycled
  BY <1>10 DEF GetRecycled, PrebufKept, DsiLabels, Sending, LateLabels
<1>11. CASE GetFree
  BY <1>11, GetFreePrebuf DEF GetFree, PrebufKept, DsiLabels, Sending, LateLabels
<1>12. CASE Recycle
  BY <1>12, RecyclePrebuf DEF Recycle, PrebufKept, DsiLabels, Sending, LateLabels
<1>13. CASE GetTimeout
  BY <1>13, GetTimeoutPrebuf
     DEF GetTimeout, PrebufKept, DsiLabels, Sending, LateLabels
<1>14. CASE SendSilent
  BY <1>14 DEF SendSilent, PrebufKept, DsiLabels, Sending, LateLabels
<1>15. CASE SendEnd
  BY <1>15 DEF SendEnd, Reads, PrebufKept, DsiLabels, Sending, LateLabels
<1>16. CASE SendHangs
  BY <1>16 DEF SendHangs, Reads, PrebufKept, DsiLabels, Sending, LateLabels
<1>17. CASE SendEmpty
  BY <1>17 DEF SendEmpty, Reads, PrebufKept, DsiLabels, Sending, LateLabels
<1>18. CASE SendAccepted
  BY <1>18 DEF SendAccepted, PrebufKept, DsiLabels, Sending, LateLabels
<1>19. CASE SendRefused
  BY <1>19 DEF SendRefused, PrebufKept, DsiLabels, Sending, LateLabels
<1>20. CASE SendPending
  BY <1>20, SendPendingPrebuf
     DEF SendPending, PrebufKept, DsiLabels, Sending, LateLabels
<1>21. CASE Sent
  BY <1>21 DEF Sent, PrebufKept, DsiLabels, Sending, LateLabels
<1>22. CASE EosCheck
  BY <1>22 DEF EosCheck, PrebufKept, DsiLabels, Sending, LateLabels
<1>23. CASE Finish
  BY <1>23, FinishPrebuf DEF Finish, PrebufKept, DsiLabels, Sending, LateLabels
<1>24. CASE WaitDone
  BY <1>24 DEF WaitDone, PrebufKept, DsiLabels, Sending, LateLabels
<1>25. CASE Again
  BY <1>25 DEF Again, PrebufKept, DsiLabels, Sending, LateLabels
<1>26. CASE LastTime
  BY <1>26 DEF LastTime, PrebufKept, DsiLabels, Sending, LateLabels
<1>27. CASE Cleanup
  BY <1>27 DEF Cleanup, PrebufKept, DsiLabels, Sending, LateLabels
<1>28. CASE NoKey
  BY <1>28, KeyMoves DEF NoKey, Key, PrebufKept, DsiLabels, Sending, LateLabels
<1>29. CASE VideoStoppedKey
  BY <1>29, KeyMoves, KeysStop
     DEF VideoStoppedKey, Key, PrebufKept, DsiLabels, Sending, LateLabels
<1>30. CASE PauseOrPlayKey
  BY <1>30, KeyMoves, KeysStop
     DEF PauseOrPlayKey, Key, PrebufKept, DsiLabels, Sending, LateLabels
<1>31. CASE FastKey
  BY <1>31, KeyMoves, KeysStop
     DEF FastKey, Key, PrebufKept, DsiLabels, Sending, LateLabels
<1>32. CASE IFrameKey
  BY <1>32, KeyPlace DEF IFrameKey, Key, PrebufKept, DsiLabels, Sending, LateLabels
<1>33. CASE ResumeFromTrickMode
  BY <1>33, KeyPlace, KeysStop
     DEF ResumeFromTrickMode, Key, PrebufKept, DsiLabels, Sending, LateLabels
<1>34. CASE ResumeFromIFrameMode
  BY <1>34, KeyPlace
     DEF ResumeFromIFrameMode, Key, MkvSeek, PrebufKept, DsiLabels, Sending,
         LateLabels
<1>35. CASE StopKey
  BY <1>35, KeyPlace
     DEF StopKey, Key, MkvSeek, PrebufKept, DsiLabels, Sending, LateLabels
<1>36. CASE QuitKey
  BY <1>36, KeyPlace DEF QuitKey, Key, PrebufKept, DsiLabels, Sending, LateLabels
<1>37. CASE StopZeroKey
  BY <1>37, KeyPlace DEF StopZeroKey, Key, PrebufKept, DsiLabels, Sending, LateLabels
<1>38. CASE SeekKey
  BY <1>38, KeyPlace
     DEF SeekKey, Key, MkvSeek, PrebufKept, DsiLabels, Sending, LateLabels
<1>39. CASE SwitchAudio
  BY <1>39, KeyPlace, KeysStop
     DEF SwitchAudio, Key, PrebufKept, DsiLabels, Sending, LateLabels
<1>40. CASE WaitDSI
  BY <1>40 DEF WaitDSI, vars, PrebufKept, DsiLabels, Sending, LateLabels
<1>41. CASE Closed
  BY <1>41 DEF Closed, vars, PrebufKept, DsiLabels, Sending, LateLabels
<1>42. ASSUME NEW u \in Tracks, Consume(u) PROVE PrebufKept'
  BY <1>42 DEF Consume, PrebufKept, DsiLabels, Sending, LateLabels
<1>43. CASE UNCHANGED vars
  BY <1>43 DEF vars, PrebufKept, DsiLabels, Sending, LateLabels
<1> QED
  BY <1>1, <1>2, <1>3, <1>4, <1>5, <1>6, <1>7, <1>8, <1>9, <1>10, <1>11, <1>12, <1>13,
     <1>14, <1>15, <1>16, <1>17, <1>18, <1>19, <1>20, <1>21, <1>22, <1>23, <1>24,
     <1>25, <1>26, <1>27, <1>28, <1>29, <1>30, <1>31, <1>32, <1>33, <1>34, <1>35,
     <1>36, <1>37, <1>38, <1>39, <1>40, <1>41, <1>42, <1>43
     DEF Next, Main, Command

\* A NULL is sent in no other mode.
LEMMA NullStep ==
  ASSUME TypedButBufs, PendingKept, PrebufKept, NullKept, [Next]_vars
  PROVE  NullKept'
<1>a. /\ sample \in [Tracks -> {"none", "packet", "null"}] /\ sample["A"] # "null"
      /\ pc \in DsiLabels => after \in {"paused", "playing", "start", "noseek", "stopped"}
                                      \cup LateLabels
  BY DEF TypedButBufs, PendingKept
<1>1. CASE Begin
  BY <1>1, <1>a DEF Begin, NullKept, Tracks, Place, DsiLabels, Sending
<1>2. CASE Mainloop
  BY <1>2, <1>a DEF Mainloop, NullKept, Tracks, Place, DsiLabels, Sending
<1>3. CASE Noseek
  BY <1>3, <1>a DEF Noseek, None, NullKept, Tracks, Place, DsiLabels, Sending
<1>4. CASE PlayAll
  BY <1>4, <1>a DEF PlayAll, NullKept, Tracks, Place, DsiLabels, Sending
<1>5. CASE TakeDSI
  BY <1>5, <1>a DEF TakeDSI, PrebufKept, NullKept, Tracks, Place, DsiLabels, Sending
<1>6. CASE RetryDSI
  BY <1>6, <1>a DEF RetryDSI, NullKept, Tracks, Place, DsiLabels, Sending
<1>7. CASE SendDSI
  BY <1>7, <1>a DEF SendDSI, LateLabels, NullKept, Tracks, Place, DsiLabels, Sending
<1>8. CASE Start
  BY <1>8, <1>a DEF Start, NullKept, Tracks, Place, DsiLabels, Sending
<1>9. CASE Choose
  BY <1>9, <1>a DEF Choose, NullKept, Tracks, Place, DsiLabels, Sending
<1>10. CASE GetRecycled
  BY <1>10, <1>a DEF GetRecycled, NullKept, Tracks, Place, DsiLabels, Sending
<1>11. CASE GetFree
  BY <1>11, <1>a, GetFreePrebuf
     DEF GetFree, NullKept, Tracks, Place, DsiLabels, Sending
<1>12. CASE Recycle
  BY <1>12, <1>a, RecyclePrebuf
     DEF Recycle, NullKept, Tracks, Place, DsiLabels, Sending
<1>13. CASE GetTimeout
  BY <1>13, <1>a, GetTimeoutPrebuf
     DEF GetTimeout, NullKept, Tracks, Place, DsiLabels, Sending
<1>14. CASE SendSilent
  BY <1>14, <1>a DEF SendSilent, NullKept, Tracks, Place, DsiLabels, Sending
<1>15. CASE SendEnd
  BY <1>15, <1>a DEF SendEnd, Reads, NullKept, Tracks, Place, DsiLabels, Sending
<1>16. CASE SendHangs
  BY <1>16, <1>a DEF SendHangs, Reads, NullKept, Tracks, Place, DsiLabels, Sending
<1>17. CASE SendEmpty
  BY <1>17, <1>a DEF SendEmpty, Reads, NullKept, Tracks, Place, DsiLabels, Sending
<1>18. CASE SendAccepted
  BY <1>18, <1>a DEF SendAccepted, NullKept, Tracks, Place, DsiLabels, Sending
<1>19. CASE SendRefused
  BY <1>19, <1>a DEF SendRefused, NullKept, Tracks, Place, DsiLabels, Sending
<1>20. CASE SendPending
  BY <1>20, <1>a, SendPendingPrebuf
     DEF SendPending, NullKept, Tracks, Place, DsiLabels, Sending
<1>21. CASE Sent
  BY <1>21, <1>a DEF Sent, NullKept, Tracks, Place, DsiLabels, Sending
<1>22. CASE EosCheck
  BY <1>22, <1>a DEF EosCheck, NullKept, Tracks, Place, DsiLabels, Sending
<1>23. CASE Finish
  BY <1>23, <1>a, FinishPrebuf DEF Finish, NullKept, Tracks, Place, DsiLabels, Sending
<1>24. CASE WaitDone
  BY <1>24, <1>a DEF WaitDone, NullKept, Tracks, Place, DsiLabels, Sending
<1>25. CASE Again
  BY <1>25, <1>a DEF Again, NullKept, Tracks, Place, DsiLabels, Sending
<1>26. CASE LastTime
  BY <1>26, <1>a DEF LastTime, NullKept, Tracks, Place, DsiLabels, Sending
<1>27. CASE Cleanup
  BY <1>27, <1>a DEF Cleanup, NullKept, Tracks, Place, DsiLabels, Sending
<1>28. CASE NoKey
  BY <1>28, <1>a, KeyMoves DEF NoKey, Key, NullKept, Tracks, Place, DsiLabels, Sending
<1>29. CASE VideoStoppedKey
  BY <1>29, <1>a, KeyMoves, KeysStop
     DEF VideoStoppedKey, Key, NullKept, Tracks, Place, DsiLabels, Sending
<1>30. CASE PauseOrPlayKey
  BY <1>30, <1>a, KeyMoves, KeysStop
     DEF PauseOrPlayKey, Key, NullKept, Tracks, Place, DsiLabels, Sending
<1>31. CASE FastKey
  BY <1>31, <1>a, KeyMoves, KeysStop
     DEF FastKey, Key, NullKept, Tracks, Place, DsiLabels, Sending
<1>32. CASE IFrameKey
  BY <1>32, <1>a, KeyPlace
     DEF IFrameKey, Key, NullKept, Tracks, Place, DsiLabels, Sending
<1>33. CASE ResumeFromTrickMode
  BY <1>33, <1>a, KeyPlace, KeysStop
     DEF ResumeFromTrickMode, Key, NullKept, Tracks, Place, DsiLabels, Sending
<1>34. CASE ResumeFromIFrameMode
  BY <1>34, <1>a, KeyPlace
     DEF ResumeFromIFrameMode, Key, MkvSeek, None, NullKept, Tracks, Place, DsiLabels,
         Sending
<1>35. CASE StopKey
  BY <1>35, <1>a, KeyPlace
     DEF StopKey, Key, MkvSeek, None, Kept, NullKept, Tracks, Place, DsiLabels,
         Sending
<1>36. CASE QuitKey
  BY <1>36, <1>a, KeyPlace
     DEF QuitKey, Key, Kept, NullKept, Tracks, Place, DsiLabels, Sending
<1>37. CASE StopZeroKey
  BY <1>37, <1>a, KeyPlace
     DEF StopZeroKey, Key, Kept, NullKept, Tracks, Place, DsiLabels, Sending
<1>38. CASE SeekKey
  BY <1>38, <1>a, KeyPlace
     DEF SeekKey, Key, MkvSeek, None, NullKept, Tracks, Place, DsiLabels, Sending
<1>39. CASE SwitchAudio
  BY <1>39, <1>a, KeyPlace, KeysStop
     DEF SwitchAudio, Key, NullKept, Tracks, Place, DsiLabels, Sending
<1>40. CASE WaitDSI
  BY <1>40, <1>a DEF WaitDSI, vars, NullKept, Tracks, Place, DsiLabels, Sending
<1>41. CASE Closed
  BY <1>41, <1>a DEF Closed, vars, NullKept, Tracks, Place, DsiLabels, Sending
<1>42. ASSUME NEW u \in Tracks, Consume(u) PROVE NullKept'
  BY <1>42 DEF Consume, NullKept, Tracks, Place, DsiLabels, Sending
<1>43. CASE UNCHANGED vars
  BY <1>43 DEF vars, NullKept, Tracks, Place, DsiLabels, Sending
<1> QED
  BY <1>1, <1>2, <1>3, <1>4, <1>5, <1>6, <1>7, <1>8, <1>9, <1>10, <1>11, <1>12, <1>13,
     <1>14, <1>15, <1>16, <1>17, <1>18, <1>19, <1>20, <1>21, <1>22, <1>23, <1>24,
     <1>25, <1>26, <1>27, <1>28, <1>29, <1>30, <1>31, <1>32, <1>33, <1>34, <1>35,
     <1>36, <1>37, <1>38, <1>39, <1>40, <1>41, <1>42, <1>43
     DEF Next, Main, Command

\* The disk is asleep at a read only after a refusal.
LEMMA AwakeStep ==
  ASSUME TypedButBufs, AwakeKept, [Next]_vars
  PROVE  AwakeKept'
<1>a. sample \in [Tracks -> {"none", "packet", "null"}] /\ track \in Tracks
  BY DEF TypedButBufs
<1>1. CASE Begin
  BY <1>1, <1>a DEF Begin, AwakeKept, Place, DsiLabels, Sending
<1>2. CASE Mainloop
  BY <1>2, <1>a DEF Mainloop, AwakeKept, Place, DsiLabels, Sending
<1>3. CASE Noseek
  BY <1>3, <1>a DEF Noseek, AwakeKept, Place, DsiLabels, Sending
<1>4. CASE PlayAll
  BY <1>4, <1>a DEF PlayAll, AwakeKept, Place, DsiLabels, Sending
<1>5. CASE TakeDSI
  BY <1>5, <1>a DEF TakeDSI, Tracks, AwakeKept, Place, DsiLabels, Sending
<1>6. CASE RetryDSI
  BY <1>6, <1>a DEF RetryDSI, AwakeKept, Place, DsiLabels, Sending
<1>7. CASE SendDSI
  BY <1>7, <1>a DEF SendDSI, LateLabels, AwakeKept, Place, DsiLabels, Sending
<1>8. CASE Start
  BY <1>8, <1>a DEF Start, AwakeKept, Place, DsiLabels, Sending
<1>9. CASE Choose
  BY <1>9, <1>a DEF Choose, Wake, TypedButBufs, AwakeKept, Place, DsiLabels, Sending
<1>10. CASE GetRecycled
  BY <1>10, <1>a DEF GetRecycled, UseRecycled, AwakeKept, Place, DsiLabels, Sending
<1>11. CASE GetFree
  BY <1>11, <1>a, GetFreePrebuf DEF GetFree, AwakeKept, Place, DsiLabels, Sending
<1>12. CASE Recycle
  BY <1>12, <1>a, RecyclePrebuf DEF Recycle, AwakeKept, Place, DsiLabels, Sending
<1>13. CASE GetTimeout
  BY <1>13, <1>a, GetTimeoutPrebuf
     DEF GetTimeout, AwakeKept, Place, DsiLabels, Sending
<1>14. CASE SendSilent
  BY <1>14, <1>a DEF SendSilent, AwakeKept, Place, DsiLabels, Sending
<1>15. CASE SendEnd
  BY <1>15, <1>a DEF SendEnd, Reads, AwakeKept, Place, DsiLabels, Sending
<1>16. CASE SendHangs
  BY <1>16, <1>a DEF SendHangs, Reads, AwakeKept, Place, DsiLabels, Sending
<1>17. CASE SendEmpty
  BY <1>17, <1>a DEF SendEmpty, Reads, AwakeKept, Place, DsiLabels, Sending
<1>18. CASE SendAccepted
  BY <1>18, <1>a DEF SendAccepted, AwakeKept, Place, DsiLabels, Sending
<1>19. CASE SendRefused
  BY <1>19, <1>a DEF SendRefused, AwakeKept, Place, DsiLabels, Sending
<1>20. CASE SendPending
  BY <1>20, <1>a, SendPendingPrebuf
     DEF SendPending, Tracks, AwakeKept, Place, DsiLabels, Sending
<1>21. CASE Sent
  BY <1>21, <1>a DEF Sent, AwakeKept, Place, DsiLabels, Sending
<1>22. CASE EosCheck
  BY <1>22, <1>a DEF EosCheck, AwakeKept, Place, DsiLabels, Sending
<1>23. CASE Finish
  BY <1>23, <1>a, FinishPrebuf DEF Finish, AwakeKept, Place, DsiLabels, Sending
<1>24. CASE WaitDone
  BY <1>24, <1>a DEF WaitDone, AwakeKept, Place, DsiLabels, Sending
<1>25. CASE Again
  BY <1>25, <1>a DEF Again, AwakeKept, Place, DsiLabels, Sending
<1>26. CASE LastTime
  BY <1>26, <1>a DEF LastTime, AwakeKept, Place, DsiLabels, Sending
<1>27. CASE Cleanup
  BY <1>27, <1>a DEF Cleanup, AwakeKept, Place, DsiLabels, Sending
<1>28. CASE NoKey
  BY <1>28, <1>a, KeyMoves DEF NoKey, Key, AwakeKept, Place, DsiLabels, Sending
<1>29. CASE VideoStoppedKey
  BY <1>29, <1>a, KeyMoves
     DEF VideoStoppedKey, Key, AwakeKept, Place, DsiLabels, Sending
<1>30. CASE PauseOrPlayKey
  BY <1>30, <1>a, KeyMoves
     DEF PauseOrPlayKey, Key, AwakeKept, Place, DsiLabels, Sending
<1>31. CASE FastKey
  BY <1>31, <1>a, KeyMoves DEF FastKey, Key, AwakeKept, Place, DsiLabels, Sending
<1>32. CASE IFrameKey
  BY <1>32, <1>a, KeyPlace DEF IFrameKey, Key, AwakeKept, Place, DsiLabels, Sending
<1>33. CASE ResumeFromTrickMode
  BY <1>33, <1>a, KeyPlace
     DEF ResumeFromTrickMode, Key, AwakeKept, Place, DsiLabels, Sending
<1>34. CASE ResumeFromIFrameMode
  BY <1>34, <1>a, KeyPlace
     DEF ResumeFromIFrameMode, Key, MkvSeek, AwakeKept, Place, DsiLabels, Sending
<1>35. CASE StopKey
  BY <1>35, <1>a, KeyPlace
     DEF StopKey, Key, MkvSeek, AwakeKept, Place, DsiLabels, Sending
<1>36. CASE QuitKey
  BY <1>36, <1>a, KeyPlace DEF QuitKey, Key, AwakeKept, Place, DsiLabels, Sending
<1>37. CASE StopZeroKey
  BY <1>37, <1>a, KeyPlace DEF StopZeroKey, Key, AwakeKept, Place, DsiLabels, Sending
<1>38. CASE SeekKey
  BY <1>38, <1>a, KeyPlace
     DEF SeekKey, Key, MkvSeek, AwakeKept, Place, DsiLabels, Sending
<1>39. CASE SwitchAudio
  BY <1>39, <1>a, KeyPlace DEF SwitchAudio, Key, AwakeKept, Place, DsiLabels, Sending
<1>40. CASE WaitDSI
  BY <1>40, <1>a DEF WaitDSI, vars, AwakeKept, Place, DsiLabels, Sending
<1>41. CASE Closed
  BY <1>41, <1>a DEF Closed, vars, AwakeKept, Place, DsiLabels, Sending
<1>42. ASSUME NEW u \in Tracks, Consume(u) PROVE AwakeKept'
  BY <1>42 DEF Consume, AwakeKept, Place, DsiLabels, Sending
<1>43. CASE UNCHANGED vars
  BY <1>43 DEF vars, AwakeKept, Place, DsiLabels, Sending
<1> QED
  BY <1>1, <1>2, <1>3, <1>4, <1>5, <1>6, <1>7, <1>8, <1>9, <1>10, <1>11, <1>12, <1>13,
     <1>14, <1>15, <1>16, <1>17, <1>18, <1>19, <1>20, <1>21, <1>22, <1>23, <1>24,
     <1>25, <1>26, <1>27, <1>28, <1>29, <1>30, <1>31, <1>32, <1>33, <1>34, <1>35,
     <1>36, <1>37, <1>38, <1>39, <1>40, <1>41, <1>42, <1>43
     DEF Next, Main, Command

\* The DSI precedes the frames.
LEMMA ConfiguredStep ==
  ASSUME TypedButBufs, ConfiguredKept, [Next]_vars
  PROVE  ConfiguredKept'
<1>1. CASE Begin
  BY <1>1 DEF Begin, ConfiguredKept, Past
<1>2. CASE Mainloop
  BY <1>2 DEF Mainloop, ConfiguredKept, Past
<1>3. CASE Noseek
  BY <1>3 DEF Noseek, ConfiguredKept, Past
<1>4. CASE PlayAll
  BY <1>4 DEF PlayAll, ConfiguredKept, Past
<1>5. CASE TakeDSI
  BY <1>5 DEF TakeDSI, ConfiguredKept, Past
<1>6. CASE RetryDSI
  BY <1>6 DEF RetryDSI, ConfiguredKept, Past
<1>7. CASE SendDSI
  BY <1>7 DEF SendDSI, LateLabels, ConfiguredKept, Past
<1>8. CASE Start
  BY <1>8 DEF Start, ConfiguredKept, Past
<1>9. CASE Choose
  BY <1>9 DEF Choose, ConfiguredKept, Past
<1>10. CASE GetRecycled
  BY <1>10 DEF GetRecycled, ConfiguredKept, Past
<1>11. CASE GetFree
  BY <1>11, GetFreePrebuf DEF GetFree, DsiLabels, Sending, ConfiguredKept, Past
<1>12. CASE Recycle
  BY <1>12, RecyclePrebuf DEF Recycle, ConfiguredKept, Past
<1>13. CASE GetTimeout
  BY <1>13, GetTimeoutPrebuf DEF GetTimeout, ConfiguredKept, Past
<1>14. CASE SendSilent
  BY <1>14 DEF SendSilent, ConfiguredKept, Past
<1>15. CASE SendEnd
  BY <1>15 DEF SendEnd, Reads, ConfiguredKept, Past
<1>16. CASE SendHangs
  BY <1>16 DEF SendHangs, Reads, ConfiguredKept, Past
<1>17. CASE SendEmpty
  BY <1>17 DEF SendEmpty, Reads, ConfiguredKept, Past
<1>18. CASE SendAccepted
  BY <1>18 DEF SendAccepted, ConfiguredKept, Past
<1>19. CASE SendRefused
  BY <1>19 DEF SendRefused, ConfiguredKept, Past
<1>20. CASE SendPending
  BY <1>20, SendPendingPrebuf DEF SendPending, ConfiguredKept, Past
<1>21. CASE Sent
  BY <1>21 DEF Sent, ConfiguredKept, Past
<1>22. CASE EosCheck
  BY <1>22 DEF EosCheck, ConfiguredKept, Past
<1>23. CASE Finish
  BY <1>23, FinishPrebuf DEF Finish, ConfiguredKept, Past
<1>24. CASE WaitDone
  BY <1>24 DEF WaitDone, ConfiguredKept, Past
<1>25. CASE Again
  BY <1>25 DEF Again, ConfiguredKept, Past
<1>26. CASE LastTime
  BY <1>26 DEF LastTime, ConfiguredKept, Past
<1>27. CASE Cleanup
  BY <1>27 DEF Cleanup, ConfiguredKept, Past
<1>28. CASE NoKey
  BY <1>28, KeyMoves DEF NoKey, Key, ConfiguredKept, Past
<1>29. CASE VideoStoppedKey
  BY <1>29, KeyMoves, KeysStop DEF VideoStoppedKey, Key, ConfiguredKept, Past
<1>30. CASE PauseOrPlayKey
  BY <1>30, KeyMoves, KeysStop DEF PauseOrPlayKey, Key, ConfiguredKept, Past
<1>31. CASE FastKey
  BY <1>31, KeyMoves, KeysStop DEF FastKey, Key, ConfiguredKept, Past
<1>32. CASE IFrameKey
  BY <1>32, KeyPlace DEF IFrameKey, Key, ConfiguredKept, Past
<1>33. CASE ResumeFromTrickMode
  BY <1>33, KeyPlace, KeysStop DEF ResumeFromTrickMode, Key, ConfiguredKept, Past
<1>34. CASE ResumeFromIFrameMode
  BY <1>34, KeyPlace DEF ResumeFromIFrameMode, Key, MkvSeek, ConfiguredKept, Past
<1>35. CASE StopKey
  BY <1>35, KeyPlace DEF StopKey, Key, MkvSeek, ConfiguredKept, Past
<1>36. CASE QuitKey
  BY <1>36, KeyPlace DEF QuitKey, Key, ConfiguredKept, Past
<1>37. CASE StopZeroKey
  BY <1>37, KeyPlace DEF StopZeroKey, Key, ConfiguredKept, Past
<1>38. CASE SeekKey
  BY <1>38, KeyPlace DEF SeekKey, Key, MkvSeek, ConfiguredKept, Past
<1>39. CASE SwitchAudio
  BY <1>39, KeyPlace, KeysStop DEF SwitchAudio, Key, ConfiguredKept, Past
<1>40. CASE WaitDSI
  BY <1>40 DEF WaitDSI, vars, ConfiguredKept, Past
<1>41. CASE Closed
  BY <1>41 DEF Closed, vars, ConfiguredKept, Past
<1>42. ASSUME NEW u \in Tracks, Consume(u) PROVE ConfiguredKept'
  BY <1>42 DEF Consume, ConfiguredKept, Past
<1>43. CASE UNCHANGED vars
  BY <1>43 DEF vars, ConfiguredKept, Past
<1> QED
  BY <1>1, <1>2, <1>3, <1>4, <1>5, <1>6, <1>7, <1>8, <1>9, <1>10, <1>11, <1>12, <1>13,
     <1>14, <1>15, <1>16, <1>17, <1>18, <1>19, <1>20, <1>21, <1>22, <1>23, <1>24,
     <1>25, <1>26, <1>27, <1>28, <1>29, <1>30, <1>31, <1>32, <1>33, <1>34, <1>35,
     <1>36, <1>37, <1>38, <1>39, <1>40, <1>41, <1>42, <1>43
     DEF Next, Main, Command

\* Nothing is queued before Play but one DSI.
LEMMA QuietStep ==
  ASSUME TypedButBufs, Sound(bufs), Placed, QuietKept, [Next]_vars
  PROVE  QuietKept'
<1>a. /\ bufs \in NatPools /\ "A" \in Tracks /\ "V" \in Tracks
      /\ bufs.queued["V"] \in Nat /\ bufs.queued["A"] \in Nat
  BY DEF Sound, NatPools, Tracks
<1>b. /\ bufs' \in NatPools /\ bufs'.queued["V"] \in Nat /\ bufs'.queued["A"] \in Nat
  BY SoundKept, <1>a DEF Sound, NatPools
<1>1. CASE Begin
  BY <1>1, <1>a, <1>b
     DEF Begin, QuietKept, AtRest, Place, DsiLabels, Sending, LateLabels
<1>2. CASE Mainloop
  BY <1>2, <1>a, <1>b
     DEF Mainloop, QuietKept, AtRest, Place, DsiLabels, Sending, LateLabels
<1>3. CASE Noseek
  BY <1>3, <1>a, <1>b, NoseekBuffers
     DEF Noseek, QuietKept, AtRest, Place, DsiLabels, Sending, LateLabels
<1>4. CASE PlayAll
  BY <1>4, <1>a, <1>b
     DEF PlayAll, QuietKept, AtRest, Place, DsiLabels, Sending, LateLabels
<1>5. CASE TakeDSI
  BY <1>5, <1>a, <1>b, TakeDSIBuffers
     DEF TakeDSI, QuietKept, AtRest, Place, DsiLabels, Sending, LateLabels
<1>6. CASE RetryDSI
  BY <1>6, <1>a, <1>b
     DEF RetryDSI, QuietKept, AtRest, Place, DsiLabels, Sending, LateLabels
<1>7. CASE SendDSI
  <2>1. /\ after # "stopped" =>
              /\ bufs'.fed = bufs.fed
              /\ bufs'.queued["A"] = bufs.queued["A"]
              /\ bufs'.queued["V"] = bufs.queued["V"] + 1
        /\ after = "stopped" => /\ bufs'.queued["A"] = 0 /\ bufs'.queued["V"] = 0
                                /\ \A t \in Tracks : ~bufs'.fed[t]
    BY <1>7, <1>a, SendDSIBuffers DEF NatPools, Tracks
  <2>2. /\ pc \in DsiLabels /\ pc' \notin DsiLabels /\ pc' = Place'
        /\ pc' \in {"start", "mainloop", "noseek"} \cup LateLabels
        /\ pc' = "mainloop" => after = "paused"
        /\ pc' = "noseek" => after \in {"noseek", "stopped"}
    BY <1>7 DEF SendDSI, Place, DsiLabels, Sending, LateLabels
  <2> QED
    BY <1>a, <2>1, <2>2 DEF QuietKept, AtRest, LateLabels
<1>8. CASE Start
  BY <1>8, <1>a, <1>b
     DEF Start, QuietKept, AtRest, Place, DsiLabels, Sending, LateLabels
<1>9. CASE Choose
  BY <1>9, <1>a, <1>b
     DEF Choose, QuietKept, AtRest, Place, DsiLabels, Sending, LateLabels
<1>10. CASE GetRecycled
  BY <1>10, <1>a, <1>b, GetRecycledBuffers
     DEF GetRecycled, QuietKept, AtRest, Place, DsiLabels, Sending, LateLabels
<1>11. CASE GetFree
  BY <1>11, <1>a, <1>b, GetFreeBuffers, GetFreePrebuf
     DEF GetFree, QuietKept, AtRest, Place, DsiLabels, Sending, LateLabels
<1>12. CASE Recycle
  BY <1>12, <1>a, <1>b, RecycleBuffers, RecyclePrebuf
     DEF Recycle, QuietKept, AtRest, Place, DsiLabels, Sending, LateLabels
<1>13. CASE GetTimeout
  BY <1>13, <1>a, <1>b, GetTimeoutPrebuf
     DEF GetTimeout, QuietKept, AtRest, Place, DsiLabels, Sending, LateLabels
<1>14. CASE SendSilent
  BY <1>14, <1>a, <1>b
     DEF SendSilent, QuietKept, AtRest, Place, DsiLabels, Sending, LateLabels
<1>15. CASE SendEnd
  BY <1>15, <1>a, <1>b
     DEF SendEnd, Reads, QuietKept, AtRest, Place, DsiLabels, Sending, LateLabels
<1>16. CASE SendHangs
  BY <1>16, <1>a, <1>b
     DEF SendHangs, Reads, QuietKept, AtRest, Place, DsiLabels, Sending, LateLabels
<1>17. CASE SendEmpty
  BY <1>17, <1>a, <1>b
     DEF SendEmpty, Reads, QuietKept, AtRest, Place, DsiLabels, Sending, LateLabels
<1>18. CASE SendAccepted
  BY <1>18, <1>a, <1>b, SendAcceptedBuffers
     DEF SendAccepted, QuietKept, AtRest, Place, DsiLabels, Sending, LateLabels
<1>19. CASE SendRefused
  BY <1>19, <1>a, <1>b
     DEF SendRefused, QuietKept, AtRest, Place, DsiLabels, Sending, LateLabels
<1>20. CASE SendPending
  BY <1>20, <1>a, <1>b, SendPendingPrebuf
     DEF SendPending, QuietKept, AtRest, Place, DsiLabels, Sending, LateLabels
<1>21. CASE Sent
  BY <1>21, <1>a, <1>b, SentBuffers
     DEF Sent, QuietKept, AtRest, Place, DsiLabels, Sending, LateLabels
<1>22. CASE EosCheck
  BY <1>22, <1>a, <1>b
     DEF EosCheck, QuietKept, AtRest, Place, DsiLabels, Sending, LateLabels
<1>23. CASE Finish
  BY <1>23, <1>a, <1>b, FinishPrebuf
     DEF Finish, QuietKept, AtRest, Place, DsiLabels, Sending, LateLabels
<1>24. CASE WaitDone
  BY <1>24, <1>a, <1>b
     DEF WaitDone, QuietKept, AtRest, Place, DsiLabels, Sending, LateLabels
<1>25. CASE Again
  <2>1. bufs'.queued["A"] = 0 /\ bufs'.queued["V"] = 0 /\ \A t \in Tracks : ~bufs'.fed[t]
    BY <1>25, <1>a, StopBuffers
  <2>2. Place' \notin {"keyPaused", "playAll", "playing"}
    BY <1>25 DEF Again, Place, DsiLabels, Sending
  <2> QED
    BY <2>1, <2>2 DEF QuietKept
<1>26. CASE LastTime
  BY <1>26, <1>a, <1>b
     DEF LastTime, QuietKept, AtRest, Place, DsiLabels, Sending, LateLabels
<1>27. CASE Cleanup
  BY <1>27, <1>a, <1>b, CleanupBuffers
     DEF Cleanup, QuietKept, AtRest, Place, DsiLabels, Sending, LateLabels
<1>28. CASE NoKey
  BY <1>28, <1>a, <1>b, KeyMoves
     DEF NoKey, Key, QuietKept, AtRest, Place, DsiLabels, Sending, LateLabels
<1>29. CASE VideoStoppedKey
  BY <1>29, <1>a, <1>b, KeyStopBuffers, KeyMoves
     DEF VideoStoppedKey, Key, QuietKept, AtRest, Place, DsiLabels, Sending,
         LateLabels
<1>30. CASE PauseOrPlayKey
  BY <1>30, <1>a, <1>b, KeyStopBuffers, KeyMoves
     DEF PauseOrPlayKey, Key, QuietKept, AtRest, Place, DsiLabels, Sending, LateLabels
<1>31. CASE FastKey
  BY <1>31, <1>a, <1>b, KeyStopBuffers, KeyMoves
     DEF FastKey, Key, QuietKept, AtRest, Place, DsiLabels, Sending, LateLabels
<1>32. CASE IFrameKey
  <2>1. bufs'.queued["A"] = 0 /\ bufs'.queued["V"] = 0 /\ \A t \in Tracks : ~bufs'.fed[t]
    BY <1>32, <1>a, StopBuffers
  <2>2. Place' \notin {"keyPaused", "playAll", "playing"}
    BY <1>32 DEF IFrameKey, Place, DsiLabels, Sending
  <2> QED
    BY <2>1, <2>2 DEF QuietKept
<1>33. CASE ResumeFromTrickMode
  BY <1>33, <1>a, <1>b, KeyStopBuffers, KeyPlace
     DEF ResumeFromTrickMode, Key, QuietKept, AtRest, Place, DsiLabels, Sending,
         LateLabels
<1>34. CASE ResumeFromIFrameMode
  <2>1. bufs'.queued["A"] = 0 /\ bufs'.queued["V"] = 0 /\ \A t \in Tracks : ~bufs'.fed[t]
    BY <1>34, <1>a, StopBuffers
  <2>2. Place' \notin {"keyPaused", "playAll", "playing"}
    BY <1>34 DEF ResumeFromIFrameMode, MkvSeek, Place, DsiLabels, Sending
  <2> QED
    BY <2>1, <2>2 DEF QuietKept
<1>35. CASE StopKey
  <2>1. bufs'.queued["A"] = 0 /\ bufs'.queued["V"] = 0 /\ \A t \in Tracks : ~bufs'.fed[t]
    BY <1>35, <1>a, FlushAndStopBuffers
  <2>2. Place' \notin {"keyPaused", "playAll", "playing"}
    BY <1>35 DEF StopKey, MkvSeek, Place, DsiLabels, Sending
  <2> QED
    BY <2>1, <2>2 DEF QuietKept
<1>36. CASE QuitKey
  BY <1>36, <1>a, <1>b, QuitBuffers, KeyPlace
     DEF QuitKey, Key, QuietKept, AtRest, Place, DsiLabels, Sending, LateLabels
<1>37. CASE StopZeroKey
  <2>1. bufs'.queued["A"] = 0 /\ bufs'.queued["V"] = 0 /\ \A t \in Tracks : ~bufs'.fed[t]
    BY <1>37, <1>a, FlushAndStopBuffers
  <2>2. Place' \notin {"keyPaused", "playAll", "playing"}
    BY <1>37 DEF StopZeroKey, Place, DsiLabels, Sending
  <2> QED
    BY <2>1, <2>2 DEF QuietKept
<1>38. CASE SeekKey
  <2>1. bufs'.queued["A"] = 0 /\ bufs'.queued["V"] = 0 /\ \A t \in Tracks : ~bufs'.fed[t]
    BY <1>38, <1>a, FlushAndStopBuffers
  <2>2. Place' \notin {"keyPaused", "playAll", "playing"}
    BY <1>38 DEF SeekKey, MkvSeek, Place, DsiLabels, Sending
  <2> QED
    BY <2>1, <2>2 DEF QuietKept
<1>39. CASE SwitchAudio
  BY <1>39, <1>a, <1>b, KeyStopBuffers, KeyPlace
     DEF SwitchAudio, Key, QuietKept, AtRest, Place, DsiLabels, Sending, LateLabels
<1>40. CASE WaitDSI
  BY <1>40, <1>a, <1>b
     DEF WaitDSI, vars, QuietKept, AtRest, Place, DsiLabels, Sending, LateLabels
<1>41. CASE Closed
  BY <1>41, <1>a, <1>b
     DEF Closed, vars, QuietKept, AtRest, Place, DsiLabels, Sending, LateLabels
<1>42. ASSUME NEW u \in Tracks, Consume(u) PROVE QuietKept'
  BY <1>42, <1>a, <1>b, ConsumeBuffers
     DEF Consume, QuietKept, AtRest, Place, DsiLabels, Sending, LateLabels
<1>43. CASE UNCHANGED vars
  BY <1>43 DEF vars, QuietKept, AtRest, Place, DsiLabels, Sending, LateLabels
<1> QED
  BY <1>1, <1>2, <1>3, <1>4, <1>5, <1>6, <1>7, <1>8, <1>9, <1>10, <1>11, <1>12, <1>13,
     <1>14, <1>15, <1>16, <1>17, <1>18, <1>19, <1>20, <1>21, <1>22, <1>23, <1>24,
     <1>25, <1>26, <1>27, <1>28, <1>29, <1>30, <1>31, <1>32, <1>33, <1>34, <1>35,
     <1>36, <1>37, <1>38, <1>39, <1>40, <1>41, <1>42, <1>43
     DEF Next, Main, Command

-----------------------------------------------------------------------------
(* The theorems.                                                           *)

Inv ==
  /\ TypedButBufs /\ Sound(bufs) /\ Placed
  /\ RoomLeft /\ PendingKept /\ PrebufKept /\ NullKept
  /\ AwakeKept /\ ConfiguredKept /\ QuietKept

\* The initial states: all buffers are in the pool.
LEMMA InitInv == Init => Inv
<1> SUFFICES ASSUME Init PROVE Inv
  OBVIOUS
<1> USE DEF Init, DsiLabels, Sending, Place
<1>1. TypedButBufs
  <2>1. /\ sample \in [Tracks -> {"none", "packet", "null"}]
        /\ eos \in [Tracks -> BOOLEAN]
    BY DEF None, No
  <2>2. failures \in 0..MaxFailures /\ running \subseteq Tracks
    BY PlayerAssumption
  <2> QED
    BY <2>1, <2>2 DEF TypedButBufs, States, Tracks, Labels
<1>2. Sound(bufs)
  BY FullSound
<1>3. RoomLeft
  BY PlayerAssumption, CountAssumption DEF RoomLeft, Full
<1>4. PendingKept /\ NullKept
  BY DEF PendingKept, NullKept, None, Tracks
<1>5. AwakeKept /\ Placed
  BY DEF AwakeKept, Placed, Full
<1>6. ConfiguredKept /\ PrebufKept
  BY DEF ConfiguredKept, Past, PrebufKept
<1>7. QuietKept
  BY DEF QuietKept, AtRest, Full, Tracks
<1> QED
  BY <1>1, <1>2, <1>3, <1>4, <1>5, <1>6, <1>7 DEF Inv

\* Every step keeps the invariant.
LEMMA InvKept == Inv /\ [Next]_vars => Inv'
<1> SUFFICES ASSUME Inv, [Next]_vars PROVE Inv'
  OBVIOUS
<1>1. TypedButBufs'
  BY TypesKept DEF Inv
<1>2. Sound(bufs') /\ Placed'
  BY SoundKept DEF Inv
<1>3. RoomLeft'
  BY RoomKept DEF Inv
<1>4. PendingKept'
  BY PendingStep DEF Inv
<1>5. PrebufKept' /\ NullKept'
  BY PrebufStep, NullStep DEF Inv
<1>6. AwakeKept'
  BY AwakeStep DEF Inv
<1>7. ConfiguredKept'
  BY ConfiguredStep DEF Inv
<1>8. QuietKept'
  BY QuietStep DEF Inv
<1> QED
  BY <1>1, <1>2, <1>3, <1>4, <1>5, <1>6, <1>7, <1>8 DEF Inv

\* The invariant holds in every state a player reaches.
THEOREM Invariant == Spec => []Inv
BY InitInv, InvKept, PTL DEF Spec

\* Type correctness: no counter of buffers leaves 0..Count, so none is returned
\* more often than it was taken.
THEOREM TypeCorrect == Spec => []TypeOK
<1>1. Inv => TypeOK
  BY SoundInPools DEF Inv, TypedButBufs, TypeOK
<1> QED BY <1>1, Invariant, PTL

\* No path, label or key of the player loses a DMA buffer or has it twice.
THEOREM NoBufferLost == Spec => []BuffersAccounted
<1>1. Inv => BuffersAccounted
  BY DEF Inv, Sound, BuffersAccounted
<1> QED BY <1>1, Invariant, PTL

\* get_buffer wakes the disk before it has set aside what the others need.
THEOREM RoomIsLeft == Spec => []RecycleLeavesRoom
<1>1. Inv => RecycleLeavesRoom
  BY DEF Inv, RoomLeft, RecycleLeavesRoom
<1> QED BY <1>1, Invariant, PTL

\* No release, flush or label gives a buffer away while a packet in it is pending,
\* but for orphan, and a NULL is sent only in the I-frame mode or behind a stop.
THEOREM PendingIsHeld == Spec => []PendingHeld
<1>1. ASSUME Inv PROVE PendingHeld
  <2>1. track \in Tracks /\ sample["A"] # "null"
    BY <1>1 DEF Inv, TypedButBufs, PendingKept
  <2>2. pc = "send" => Place = "send"
    BY DEF Place, DsiLabels, Sending
  <2>3. sample["V"] = "null" /\ pc = "send" => psm = "IFrame" \/ flushed
    BY <1>1, <2>2 DEF Inv, NullKept
  <2> QED
    BY <1>1, <2>1, <2>3 DEF Inv, PendingKept, PendingHeld, Tracks
<1> QED BY <1>1, Invariant, PTL

\* The buffer of a pending audio packet is given away only where audio is silent.
THEOREM OrphansInSilence == Spec => OrphanedInSilence
<1>1. ASSUME Inv, [Next]_vars
      PROVE  [orphan' /\ ~orphan => psm \in Trick \cup {"Stopped"}]_vars
  <2> SUFFICES ASSUME orphan' /\ ~orphan PROVE psm \in Trick \cup {"Stopped"}
    OBVIOUS
  <2>1. Sent
    BY <1>1
       DEF Next, Main, Command, vars, Begin, Mainloop, Noseek, PlayAll, TakeDSI, RetryDSI,
           SendDSI, Start, Choose, GetRecycled, GetFree, Recycle, GetTimeout, SendSilent,
           SendEnd, SendHangs, SendEmpty, SendAccepted, SendRefused, SendPending, EosCheck,
           Finish, WaitDone, Again, LastTime, Cleanup, NoKey, VideoStoppedKey,
           PauseOrPlayKey, FastKey, IFrameKey, ResumeFromTrickMode, ResumeFromIFrameMode,
           MkvSeek, StopKey, QuitKey, StopZeroKey, SeekKey, SwitchAudio, WaitDSI, Closed,
           Consume
  <2>2. pc = "sent" /\ track = "A" /\ sample["A"] # "none"
    BY <2>1 DEF Sent
  <2>3. sample["A"] = "packet"
    BY <1>1, <2>2 DEF Inv, TypedButBufs, PendingKept, Tracks
  <2> QED
    BY <1>1, <2>2, <2>3 DEF Inv, PendingKept
<1> QED BY <1>1, Invariant, PTL DEF Spec, OrphanedInSilence

\* The file is not read with the disk asleep, unless it refused to wake.
THEOREM ReadsAwake == Spec => []NoReadAsleep
<1>1. Inv => NoReadAsleep
  BY DEF Inv, AwakeKept, NoReadAsleep, Reads, Place, DsiLabels, Sending
<1> QED BY <1>1, Invariant, PTL

\* With one audio track the decoder has its DSI before the first frame, unless a key
\* stopped it and the player went on.
THEOREM DSIFirst == Spec => []ConfiguredFirst
<1>1. Inv => ConfiguredFirst
  BY DEF Inv, ConfiguredKept, ConfiguredFirst, Past
<1> QED BY <1>1, Invariant, PTL

\* send_videoDSI finds a buffer, if the low level is two more than the refusals of
\* the disk so far and no key stopped the decoder: what is set aside, held and queued
\* leaves one.
THEOREM DSIFindsBuffer == Spec => []DsiHasBuffer
<1>1. ASSUME Inv, pc = "dsi", LowLevel >= failures + 2, ~flushed PROVE bufs.pool > 0
  <2>1. /\ bufs \in NatPools /\ Total(bufs) = Count /\ failures \in Nat
        /\ bufs.config = 0 /\ pc \in DsiLabels /\ Place = after
    BY <1>1, PlayerAssumption
       DEF Inv, Sound, TypedButBufs, Placed, Place, DsiLabels, Sending
  <2>2. after \notin LateLabels
    BY <1>1, <2>1 DEF Inv, PrebufKept
  <2>3. bufs.queued["A"] = 0 /\ bufs.queued["V"] <= 1
    BY <1>1, <2>1, <2>2 DEF Inv, QuietKept
  <2>4. Holds(bufs, "A") \in 0..1 /\ Holds(bufs, "V") \in 0..1
    BY DEF Holds
  <2>5. bufs.recycled + LowLevel < Count + failures
    BY <1>1, <2>1, <2>2, PlayerAssumption, CountAssumption
       DEF Inv, RoomLeft, LateLabels, NatPools
  <2>6. /\ bufs.pool \in Nat /\ bufs.recycled \in Nat /\ bufs.queued["V"] \in Nat
        /\ bufs.pool + bufs.recycled + Holds(bufs, "A") + Holds(bufs, "V")
             + bufs.queued["V"] = Count
    BY <2>1, <2>3, <2>4 DEF Total, NatPools, Tracks
  <2>7. CASE after = "playing"
    <3>1. bufs.recycled = 0 /\ Holds(bufs, "A") = 0 /\ Holds(bufs, "V") = 0
      BY <1>1, <2>1, <2>7 DEF Inv, QuietKept, Holds, Tracks
    <3> QED
      BY <1>1, <2>1, <2>3, <2>6, <3>1, PlayerAssumption, CountAssumption
  <2>8. CASE after # "playing"
    <3>1. bufs.queued["V"] = 0
      BY <1>1, <2>1, <2>2, <2>8 DEF Inv, QuietKept
    <3> QED
      BY <1>1, <2>1, <2>4, <2>5, <2>6, <3>1, PlayerAssumption, CountAssumption
  <2> QED BY <2>7, <2>8
<1> QED BY <1>1, Invariant, PTL DEF DsiHasBuffer
=============================================================================
