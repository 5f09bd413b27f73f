--------------------------- MODULE MkvDemuxProofs ---------------------------
(***************************************************************************)
(* Proofs about MkvDemux, for every file, every number of tracks, every    *)
(* capacity of the buffers and every client: the demux thread and the      *)
(* client's thread in any interleaving.                                    *)
(***************************************************************************)
EXTENDS MkvDemux, LeastElement, SequenceTheorems

\* The frames of the file, and what Demux makes of a cluster.
LEMMA ClusterTyped ==
  ASSUME NEW c \in 1..Len(File), gen \in 0..MaxSeeks
  PROVE  Cluster(c) \in Seq(Tagged) /\ \A i \in DOMAIN Cluster(c) : Cluster(c)[i].gen = gen
<1>1. File[c] \in Seq(Block)
  BY FileAssumption
<1>2. \A i \in 1..Len(File[c]) : File[c][i] \in AllFrames
  BY DEF AllFrames, ToSet
<1> QED
  BY <1>1, <1>2 DEF Cluster, Tagged, Tag

LEMMA FramesTyped ==
  /\ \A f \in AllFrames : f \in Block
  /\ \A x \in Tagged : /\ x.id \in Ids /\ x.track \in Tracks /\ x.tick \in Nat
                       /\ x.entry \in BOOLEAN /\ x.size \in 1..RingCap
                       /\ x.gen \in 0..MaxSeeks
<1>1. \A f \in AllFrames : f \in Block
  BY FileAssumption DEF AllFrames, ToSet
<1> QED
  BY <1>1 DEF Tagged, Tag, Block, Ids

LEMMA NextIsReset ==
  ASSUME rest \subseteq Tracks, rest # {}
  PROVE  NextReset \in rest
<1> DEFINE S == {i \in DOMAIN TrackOrder : TrackOrder[i] \in rest}
<1>1. TrackOrder \in Seq(Tracks)
  BY FileAssumption
<1>2. S \subseteq Nat /\ S # {}
  BY <1>1 DEF Tracks, ToSet
<1>3. Min(S) \in S
  <2> HIDE DEF S
  <2> QED
    BY <1>2, LeastOf DEF Min
<1> QED
  BY <1>3 DEF NextReset

\* A sequence cut in two.
LEMMA Halves ==
  ASSUME NEW S, NEW s \in Seq(S), NEW n \in Nat, n <= Len(s)
  PROVE  /\ SubSeq(s, 1, n) \in Seq(S) /\ Len(SubSeq(s, 1, n)) = n
         /\ SubSeq(s, n + 1, Len(s)) \in Seq(S)
         /\ Len(SubSeq(s, n + 1, Len(s))) = Len(s) - n
         /\ \A i \in 1..n : SubSeq(s, 1, n)[i] = s[i]
         /\ \A i \in 1..(Len(s) - n) : SubSeq(s, n + 1, Len(s))[i] = s[n + i]
         /\ s = SubSeq(s, 1, n) \o SubSeq(s, n + 1, Len(s))
<1>1. Len(s) \in Nat /\ \A i \in 1..Len(s) : s[i] \in S
  OBVIOUS
<1>2. /\ SubSeq(s, 1, n) \in Seq(S) /\ Len(SubSeq(s, 1, n)) = n
      /\ \A i \in 1..n : SubSeq(s, 1, n)[i] = s[i]
  <2>1. \A i \in 1..n : s[i] \in S
    BY <1>1
  <2> QED
    BY <2>1, SubSeqProperties, SMT
<1>3. /\ SubSeq(s, n + 1, Len(s)) \in Seq(S)
      /\ Len(SubSeq(s, n + 1, Len(s))) = Len(s) - n
      /\ \A i \in 1..(Len(s) - n) : SubSeq(s, n + 1, Len(s))[i] = s[n + i]
  <2>1. \A i \in (n + 1)..Len(s) : s[i] \in S
    BY <1>1
  <2> QED
    BY <1>1, <2>1, SubSeqProperties, SMT
<1>4. s = SubSeq(s, 1, n) \o SubSeq(s, n + 1, Len(s))
  <2>1. SubSeq(s, 1, n) \o SubSeq(s, n + 1, Len(s)) = SubSeq(s, 1, Len(s))
    <3>1. /\ 1 \in 1..(Len(s) + 1) /\ n \in (1 - 1)..Len(s) /\ Len(s) \in n..Len(s)
      BY <1>1
    <3> QED
      BY <3>1, ConcatAdjacentSubSeq, Zenon
  <2> QED
    BY <2>1, SubSeqFull
<1> QED
  BY <1>2, <1>3, <1>4

\* A member of a sequence per track is set.
LEMMA SetOne ==
  ASSUME NEW S, NEW f \in [Tracks -> S], NEW t \in Tracks, NEW x \in S
  PROVE  /\ [f EXCEPT ![t] = x] \in [Tracks -> S]
         /\ [f EXCEPT ![t] = x][t] = x
         /\ \A u \in Tracks : u # t => [f EXCEPT ![t] = x][u] = f[u]
OBVIOUS

-----------------------------------------------------------------------------
(***************************************************************************)
(* Types.                                                                  *)
(***************************************************************************)
\* The demux thread has a frame in its hands.
InFrame == Holding \ {"block", "unlock"}

\* It waits for room in the cache of a track that the client can see.
WaitsAt(t) == dpc \in {"cacheWait", "cacheWoken"} /\ Cur.track = t /\ ~orphan.on

\* What the places of the two threads say of the rest of the state.
Control ==
  /\ dpc \in InFrame => todo # <<>>
  /\ cpc \in GetPlaces => ctrack \in opened
  /\ cpc = "pop" => frames[ctrack] # <<>>
  /\ cpc \in {"flush", "clear"} => rest # {}
  /\ cpc \in {"finish", "closeReq"} => op = "close"
  /\ cpc = "needSeek" \/ (cpc \in {"flush", "clear", "locked"} /\ op # "close") =>
       gen < MaxSeeks

\* The cache's count of waiting writers.
Spaces ==
  dpc # "crashed" =>
    \A t \in Tracks : IF WaitsAt(t) THEN spaceNeeded[t] \in 0..1 ELSE spaceNeeded[t] \in -1..0

Typed == TypeOK /\ Control /\ Spaces

LEMMA CurTyped ==
  ASSUME TypeOK, Control, dpc \in InFrame
  PROVE  /\ todo # <<>> /\ Cur \in Tagged /\ Tail(todo) \in Seq(Tagged)
         /\ Cur.id \in Ids /\ Cur.track \in Tracks /\ Cur.tick \in Nat
         /\ Cur.size \in 1..RingCap /\ Cur.gen \in 0..MaxSeeks
<1>1. todo # <<>> /\ todo \in Seq(Tagged)
  BY DEF Control, TypeOK
<1>2. Cur \in Tagged /\ Tail(todo) \in Seq(Tagged)
  BY <1>1 DEF Cur
<1> QED
  BY <1>1, <1>2, FramesTyped

LEMMA BytesTyped ==
  ASSUME NEW f, f.id \in Ids, f.gen \in 0..MaxSeeks, NEW n \in Nat
  PROVE  Bytes(f, n) \in Seq(Byte) /\ Len(Bytes(f, n)) = n
BY DEF Bytes, Byte

LEMMA InitTyped == Init => Typed
<1> SUFFICES ASSUME Init PROVE Typed
  OBVIOUS
<1>1. 1 \in 1..Len(File) /\ 0 \in 0..MaxSeeks /\ gen = 0
  BY FileAssumption DEF Init
<1>2. todo \in Seq(Tagged)
  BY <1>1, ClusterTyped DEF Init
<1>3. client.early \subseteq Tracks
  BY FileAssumption DEF Init
<1>4. 2 \in 1..(Len(File) + 1)
  BY <1>1, FileAssumption
<1>5. /\ ring \in [Tracks -> Seq(Byte)] /\ \A t \in Tracks : Len(ring[t]) <= RingCap
      /\ frames \in [Tracks -> Seq(Record)] /\ \A t \in Tracks : Len(frames[t]) <= CacheCap
      /\ spaceNeeded \in [Tracks -> -1..1] /\ delivered \in [Tracks -> Seq(Byte)]
  BY FileAssumption DEF Init
<1>6. /\ running \in BOOLEAN /\ needSeek \in BOOLEAN /\ closeReq \in BOOLEAN
      /\ skip \in BOOLEAN /\ eof \in BOOLEAN /\ released \in BOOLEAN /\ lost \in BOOLEAN
  BY Zenon DEF Init
<1>7. orphan \in [on : BOOLEAN, bytes : 0..RingCap, records : 0..CacheCap]
  BY FileAssumption DEF Init, NoOrphan
<1>8. sample \in [kind : {"none", "junk", "found"}, from : Nat,
                  time : Nat \cup {Taken}, end : BOOLEAN]
  BY DEF Init, NoSample
<1>9. TypeOK
  BY <1>1, <1>2, <1>3, <1>4, <1>5, <1>6, <1>7, <1>8
     DEF Init, TypeOK, OpenedByParsing, DemuxPlaces, ClientPlaces, Holding
<1>10. Control /\ Spaces
  BY DEF Init, Control, Spaces, WaitsAt, InFrame, Holding, GetPlaces
<1> QED
  BY <1>9, <1>10 DEF Typed

\* TypeOK by the groups of variables that the steps leave unchanged as a whole.
TypeFlags ==
  /\ running \in BOOLEAN /\ needSeek \in BOOLEAN /\ closeReq \in BOOLEAN
  /\ skip \in BOOLEAN /\ state \in {"PLAY", "PAUSE", "FINISH"} /\ seekTime \in Nat
TypeFile ==
  pos \in 1..(Len(File) + 1) /\ eof \in BOOLEAN /\ released \in BOOLEAN
TypeTracks ==
  /\ open \subseteq Tracks /\ half \subseteq Tracks /\ opened \subseteq Tracks
  /\ orphan \in [on : BOOLEAN, bytes : 0..RingCap, records : 0..CacheCap]
TypeRing ==
  ring \in [Tracks -> Seq(Byte)] /\ \A t \in Tracks : Len(ring[t]) <= RingCap
TypeFrames ==
  frames \in [Tracks -> Seq(Record)] /\ \A t \in Tracks : Len(frames[t]) <= CacheCap
TypeSpace == spaceNeeded \in [Tracks -> -1..1]
TypeDemux == dpc \in DemuxPlaces /\ todo \in Seq(Tagged) /\ lost \in BOOLEAN
TypeCall ==
  /\ cpc \in ClientPlaces /\ op \in SeekKinds \cup {"none", "get", "close"}
  /\ ctrack \in Tracks \cup {NoTrack} /\ room \in Nat
  /\ target \in Targets \cup {0} /\ rest \subseteq Tracks
TypeHistory ==
  /\ delivered \in [Tracks -> Seq(Byte)] /\ gen \in 0..MaxSeeks
  /\ sample \in [kind : {"none", "junk", "found"}, from : Nat,
                 time : Nat \cup {Taken}, end : BOOLEAN]
TypeOthers == preBuffering \in Tracks \cup {NoTrack} /\ client \in Profiles

LEMMA TypeParts ==
  TypeOK <=> /\ TypeFlags /\ TypeFile /\ TypeTracks /\ TypeRing /\ TypeFrames /\ TypeSpace
             /\ TypeDemux /\ TypeCall /\ TypeHistory /\ TypeOthers
BY DEF TypeOK, TypeFlags, TypeFile, TypeTracks, TypeRing, TypeFrames, TypeSpace,
       TypeDemux, TypeCall, TypeHistory, TypeOthers

LEMMA TypePartsNext ==
  TypeOK' <=> /\ TypeFlags' /\ TypeFile' /\ TypeTracks' /\ TypeRing' /\ TypeFrames'
              /\ TypeSpace' /\ TypeDemux' /\ TypeCall' /\ TypeHistory' /\ TypeOthers'
BY TypeParts, PTL

\* A group that does not change keeps its types.
LEMMA TypesKept ==
  ASSUME TypeOK
  PROVE  /\ UNCHANGED <<flags, skips>> => TypeFlags'
         /\ UNCHANGED file => TypeFile'
         /\ UNCHANGED tracks => TypeTracks'
         /\ UNCHANGED ring => TypeRing'
         /\ UNCHANGED frames => TypeFrames'
         /\ UNCHANGED spaceNeeded => TypeSpace'
         /\ UNCHANGED demux => TypeDemux'
         /\ UNCHANGED call => TypeCall'
         /\ UNCHANGED <<delivered, gen, sample>> => TypeHistory'
         /\ UNCHANGED <<preBuffering, client>> => TypeOthers'
<1>1. UNCHANGED <<flags, skips>> => TypeFlags'
  BY TypeParts DEF flags, skips, TypeFlags
<1>2. UNCHANGED file => TypeFile'
  BY TypeParts DEF file, TypeFile
<1>3. UNCHANGED tracks => TypeTracks'
  BY TypeParts DEF tracks, TypeTracks
<1>4. /\ UNCHANGED ring => TypeRing'
      /\ UNCHANGED frames => TypeFrames'
      /\ UNCHANGED spaceNeeded => TypeSpace'
  BY TypeParts DEF TypeRing, TypeFrames, TypeSpace
<1>5. UNCHANGED demux => TypeDemux'
  BY TypeParts DEF demux, TypeDemux
<1>6. UNCHANGED call => TypeCall'
  BY TypeParts DEF call, TypeCall
<1>7. UNCHANGED <<delivered, gen, sample>> => TypeHistory'
  BY TypeParts DEF TypeHistory
<1>8. UNCHANGED <<preBuffering, client>> => TypeOthers'
  BY TypeParts DEF TypeOthers
<1> QED
  BY <1>1, <1>2, <1>3, <1>4, <1>5, <1>6, <1>7, <1>8

\* What push_back does to the count of waiting writers.
LEMMA SpaceSteps ==
  ASSUME TypeOK, Control, Spaces, Pushing
  PROVE  /\ dpc \in InFrame /\ Cur.track \in Tracks
         /\ orphan.on => spaceNeeded[Cur.track] \in -1..0
         /\ SpaceUndone(Cur.track) \in -1..0
<1>1. dpc \in InFrame /\ dpc # "crashed"
  BY DEF Pushing, InFrame, Holding
<1>2. Cur.track \in Tracks
  BY <1>1, CurTyped
<1>3. IF WaitsAt(Cur.track) THEN spaceNeeded[Cur.track] \in 0..1
      ELSE spaceNeeded[Cur.track] \in -1..0
  BY <1>1, <1>2 DEF Spaces
<1> QED
  BY <1>1, <1>2, <1>3 DEF WaitsAt, SpaceUndone, Pushing

LEMMA WriteStoreTyped ==
  ASSUME TypeOK, Control, DWriteStore
  PROVE  TypeOK'
<1> DEFINE t == Cur.track
           b == Bytes(Cur, Cur.size)
           x == ring[t] \o b
<1>1. dpc \in InFrame
  BY DEF DWriteStore, Writing, InFrame, Holding
<1>2. t \in Tracks /\ b \in Seq(Byte) /\ Len(b) = Cur.size /\ Cur.size \in Nat
  <2>1. /\ Cur.track \in Tracks /\ Cur.size \in 1..RingCap /\ Cur.id \in Ids
        /\ Cur.gen \in 0..MaxSeeks
    BY <1>1, CurTyped
  <2>2. Cur.size \in Nat
    BY <2>1, FileAssumption
  <2> QED
    BY <2>1, <2>2, BytesTyped
<1>3. ring \in [Tracks -> Seq(Byte)] /\ ring[t] \in Seq(Byte)
  BY <1>2, TypeParts DEF TypeRing
<1>4. x \in Seq(Byte) /\ Len(x) = Len(ring[t]) + Cur.size
  <2>1. b \in Seq(Byte) /\ ring[t] \in Seq(Byte) /\ Len(b) = Cur.size
    BY <1>2, <1>3
  <2> HIDE DEF t, b
  <2> QED
    BY <2>1
<1>5. TypeRing'
  <2>1. CASE orphan.on
    BY <2>1, TypesKept DEF DWriteStore
  <2>2. CASE ~orphan.on
    <3>1. Len(x) <= RingCap
      <4>1. Len(ring[t]) + Cur.size <= RingCap
        BY <2>2 DEF DWriteStore, Fits, BytesHeld
      <4> QED
        BY <1>4, <4>1
    <3>2. ring' = [ring EXCEPT ![t] = x]
      BY <2>2 DEF DWriteStore
    <3>3. \A u \in Tracks : Len(ring[u]) <= RingCap
      BY TypeParts DEF TypeRing
    <3> HIDE DEF x, t
    <3>4. ring' \in [Tracks -> Seq(Byte)] /\ ring'[t] = x
          /\ \A u \in Tracks : u # t => ring'[u] = ring[u]
      BY <1>2, <1>3, <1>4, <3>2, SetOne
    <3> QED
      BY <3>1, <3>3, <3>4 DEF TypeRing
  <2> QED
    BY <2>1, <2>2
<1>6. TypeDemux'
  BY TypeParts DEF DWriteStore, TypeDemux, DemuxPlaces, Holding
<1> HIDE DEF t, b, x
<1> QED
  BY <1>5, <1>6, TypesKept, TypePartsNext DEF DWriteStore, history

LEMMA PushStoreTyped ==
  ASSUME TypeOK, Control, Spaces, DPushStore
  PROVE  TypeOK'
<1> DEFINE t == Cur.track
           r == [id |-> Cur.id, gen |-> Cur.gen, left |-> Cur.size,
                 pts |-> Cur.tick * NsPerTick]
           x == Append(frames[t], r)
           s == SpaceUndone(t)
<1>1. dpc \in InFrame /\ t \in Tracks /\ s \in -1..1
  BY SpaceSteps DEF DPushStore
<1>2. r \in Record
  <2>1. /\ Cur.tick \in Nat /\ Cur.size \in 1..RingCap /\ Cur.id \in Ids
        /\ Cur.gen \in 0..MaxSeeks
    BY <1>1, CurTyped
  <2>2. Cur.tick * NsPerTick \in Nat /\ Cur.size \in 0..RingCap
    BY <2>1, FileAssumption
  <2> QED
    BY <2>1, <2>2 DEF Record
<1>3. TypeDemux'
  <2>1. todo' \in Seq(Tagged)
    BY <1>1, CurTyped DEF DPushStore
  <2> QED
    BY <2>1, TypeParts DEF DPushStore, TypeDemux, DemuxPlaces, Holding
<1>4. frames \in [Tracks -> Seq(Record)] /\ frames[t] \in Seq(Record)
  BY <1>1, TypeParts DEF TypeFrames
<1>5. x \in Seq(Record) /\ Len(x) = Len(frames[t]) + 1
  <2> HIDE DEF r, t
  <2> QED
    BY <1>2, <1>4
<1>6. /\ spaceNeeded' = [spaceNeeded EXCEPT ![t] = s]
      /\ frames' = IF orphan.on THEN frames ELSE [frames EXCEPT ![t] = x]
  BY DEF DPushStore
<1>7. TypeSpace'
  <2>1. spaceNeeded \in [Tracks -> -1..1]
    BY TypeParts DEF TypeSpace
  <2> HIDE DEF t, s
  <2> QED
    BY <1>1, <1>6, <2>1 DEF TypeSpace
<1>8. TypeFrames'
  <2>1. CASE orphan.on
    BY <1>6, <2>1, TypesKept
  <2>2. CASE ~orphan.on
    <3>1. Len(x) <= CacheCap
      <4>1. ~(Len(frames[t]) >= CacheCap)
        BY <2>2 DEF DPushStore, CacheFull, RecordsHeld
      <4> HIDE DEF x, t
      <4> QED
        BY <1>4, <1>5, <4>1, FileAssumption
    <3>2. \A u \in Tracks : Len(frames[u]) <= CacheCap
      BY TypeParts DEF TypeFrames
    <3> HIDE DEF x, t
    <3>3. frames' \in [Tracks -> Seq(Record)] /\ frames'[t] = x
          /\ \A u \in Tracks : u # t => frames'[u] = frames[u]
      BY <1>1, <1>4, <1>5, <1>6, <2>2, SetOne
    <3> QED
      BY <3>1, <3>2, <3>3 DEF TypeFrames
  <2> QED
    BY <2>1, <2>2
<1>9. TypeTracks'
  BY FileAssumption, TypeParts DEF DPushStore, NoOrphan, TypeTracks
<1> HIDE DEF t, r, x, s
<1> QED
  BY <1>3, <1>7, <1>8, <1>9, TypesKept, TypePartsNext DEF DPushStore, history

LEMMA PushWaitTyped ==
  ASSUME TypeOK, Control, Spaces, DPushWait
  PROVE  TypeOK'
<1> DEFINE t == Cur.track
           s == IF orphan.on THEN spaceNeeded[t] ELSE SpaceUndone(t) + 1
<1>1. t \in Tracks /\ s \in -1..1
  BY SpaceSteps DEF DPushWait
<1>2. spaceNeeded' = [spaceNeeded EXCEPT ![t] = s]
  BY DEF DPushWait
<1>3. TypeSpace'
  <2>1. spaceNeeded \in [Tracks -> -1..1]
    BY TypeParts DEF TypeSpace
  <2> HIDE DEF t, s
  <2> QED
    BY <1>1, <1>2, <2>1 DEF TypeSpace
<1>4. TypeDemux'
  BY TypeParts DEF DPushWait, TypeDemux, DemuxPlaces, Holding
<1> HIDE DEF t, s
<1> QED
  BY <1>3, <1>4, TypesKept, TypePartsNext DEF DPushWait, history

\* The end of both threads.
LEMMA CrashTyped == TypeOK /\ Crash => TypeOK'
<1> SUFFICES ASSUME TypeOK, Crash PROVE TypeOK'
  OBVIOUS
<1>1. TypeDemux' /\ TypeCall'
  BY TypeParts DEF Crash, TypeDemux, TypeCall, DemuxPlaces, ClientPlaces
<1> QED
  BY <1>1, TypesKept, TypePartsNext DEF Crash, bufs, history

LEMMA DemuxTyped == Typed /\ DemuxStep => TypeOK'
<1> SUFFICES ASSUME Typed, DemuxStep PROVE TypeOK'
  OBVIOUS
<1>0. TypeOK /\ Control /\ Spaces
  BY DEF Typed
<1>a. TypeDemux /\ TypeCall /\ TypeFile /\ TypeFlags
  BY <1>0, TypeParts
<1>1. CASE DCheck
  <2>1. TypeDemux'
    BY <1>a, <1>1 DEF DCheck, TypeDemux, DemuxPlaces
  <2> QED
    BY <1>0, <1>1, <2>1, TypesKept, TypePartsNext DEF DCheck, bufs, history
<1>2. CASE DSwitch
  <2>1. TypeDemux'
    BY <1>a, <1>2 DEF DSwitch, TypeDemux, DemuxPlaces
  <2> QED
    BY <1>0, <1>2, <2>1, TypesKept, TypePartsNext DEF DSwitch, bufs, history
<1>3. CASE DLock
  <2>1. TypeDemux' /\ TypeFile'
    <3>1. CASE pos <= Len(File)
      <4>1. /\ pos \in 1..Len(File) /\ gen \in 0..MaxSeeks
            /\ pos + 1 \in 1..(Len(File) + 1)
        BY <1>0, <3>1, FileAssumption DEF TypeOK
      <4>2. todo' \in Seq(Tagged)
        BY <1>3, <3>1, <4>1, ClusterTyped DEF DLock
      <4> QED
        BY <1>a, <1>3, <3>1, <4>1, <4>2
           DEF DLock, TypeDemux, TypeFile, DemuxPlaces, Holding
    <3>2. CASE ~(pos <= Len(File))
      <4>1. eof' \in BOOLEAN
        BY <1>3, <3>2, Zenon DEF DLock
      <4> QED
        BY <1>a, <1>3, <3>2, <4>1 DEF DLock, TypeDemux, TypeFile, DemuxPlaces, Holding
    <3> QED
      BY <3>1, <3>2
  <2> QED
    BY <1>0, <1>3, <2>1, TypesKept, TypePartsNext DEF DLock, bufs, history
<1>4. CASE DLockReleased
  BY <1>0, <1>4, CrashTyped DEF DLockReleased
<1>5. CASE DLeave
  <2>1. TypeDemux'
    BY <1>a, <1>5 DEF DLeave, TypeDemux, DemuxPlaces, Holding
  <2> QED
    BY <1>0, <1>5, <2>1, TypesKept, TypePartsNext DEF DLeave, bufs, history
<1>6. CASE DDrop
  <2>1. TypeDemux'
    BY <1>a, <1>6 DEF DDrop, TypeDemux
  <2> QED
    BY <1>0, <1>6, <2>1, TypesKept, TypePartsNext DEF DDrop, bufs, history
<1>7. CASE DTake
  <2>1. TypeDemux'
    BY <1>a, <1>7 DEF DTake, TypeDemux, DemuxPlaces, Holding
  <2> QED
    BY <1>0, <1>7, <2>1, TypesKept, TypePartsNext DEF DTake, bufs, history
<1>8. CASE DUnskip
  <2>1. TypeDemux'
    BY <1>a, <1>8 DEF DUnskip, TypeDemux, DemuxPlaces, Holding
  <2>2. TypeFlags'
    <3>1. skip' \in BOOLEAN
      BY <1>8, Zenon DEF DUnskip
    <3> QED
      BY <1>a, <1>8, <3>1 DEF DUnskip, TypeFlags, flags
  <2> QED
    BY <1>0, <1>8, <2>1, <2>2, TypesKept, TypePartsNext DEF DUnskip, bufs, history
<1>9. CASE DUnskipTime
  <2>1. TypeDemux'
    BY <1>a, <1>9 DEF DUnskipTime, TypeDemux, DemuxPlaces, Holding
  <2>2. TypeFlags'
    BY <1>a, <1>9 DEF DUnskipTime, TypeFlags, flags
  <2> QED
    BY <1>0, <1>9, <2>1, <2>2, TypesKept, TypePartsNext DEF DUnskipTime, bufs, history
<1>10. CASE DWriteHalf
  BY <1>0, <1>10, CrashTyped DEF DWriteHalf
<1>11. CASE DWriteStore
  BY <1>0, <1>11, WriteStoreTyped
<1>12. CASE DWriteFull
  <2>1. TypeDemux'
    BY <1>a, <1>12 DEF DWriteFull, TypeDemux, DemuxPlaces, Holding
  <2> QED
    BY <1>0, <1>12, <2>1, TypesKept, TypePartsNext DEF DWriteFull, bufs, history
<1>13. CASE DAnnounce
  <2>1. TypeDemux' /\ TypeCall'
    BY <1>a, <1>13
       DEF DAnnounce, TypeDemux, TypeCall, DemuxPlaces, ClientPlaces, Holding
  <2> QED
    BY <1>0, <1>13, <2>1, TypesKept, TypePartsNext DEF DAnnounce, bufs, history
<1>14. CASE DRelock
  <2>1. TypeDemux'
    <3>1. lost' \in BOOLEAN
      <4>1. CASE dpc = "relock1" /\ preBuffering = Cur.track
        BY <1>a, <1>14, <4>1 DEF DRelock, TypeDemux
      <4>2. CASE ~(dpc = "relock1" /\ preBuffering = Cur.track)
        <5>1. lost' = (BytesHeld + Cur.size <= RingCap)
          BY <1>14, <4>2, Zenon DEF DRelock, Fits
        <5> HIDE DEF BytesHeld
        <5>2. (BytesHeld + Cur.size <= RingCap) \in BOOLEAN
          OBVIOUS
        <5> QED
          BY <5>1, <5>2, Zenon
      <4> QED
        BY <4>1, <4>2
    <3> QED
      BY <1>a, <1>14, <3>1 DEF DRelock, TypeDemux, DemuxPlaces, Holding
  <2> QED
    BY <1>0, <1>14, <2>1, TypesKept, TypePartsNext DEF DRelock, bufs, history
<1>15. CASE DPushStore
  BY <1>0, <1>15, PushStoreTyped
<1>16. CASE DPushWait
  BY <1>0, <1>16, PushWaitTyped
<1>17. CASE DUnlock
  <2>1. TypeDemux'
    BY <1>a, <1>17 DEF DUnlock, TypeDemux, DemuxPlaces
  <2> QED
    BY <1>0, <1>17, <2>1, TypesKept, TypePartsNext DEF DUnlock, bufs, history
<1> QED
  BY <1>1, <1>2, <1>3, <1>4, <1>5, <1>6, <1>7, <1>8, <1>9, <1>10, <1>11, <1>12, <1>13,
     <1>14, <1>15, <1>16, <1>17 DEF DemuxStep

\* A broadcast moves the demux thread to another of its places, if at all.
LEMMA WakeTyped ==
  ASSUME TypeOK, todo' = todo,
         NEW wake, NEW from, NEW t, NEW to \in DemuxPlaces, Wake(wake, from, t, to)
  PROVE  TypeDemux'
<1>0. TypeDemux
  BY TypeParts
<1>1. CASE wake /\ At(from, t)
  <2>1. dpc' = to /\ lost' = FALSE
    BY <1>1 DEF Wake
  <2>2. lost' \in BOOLEAN
    BY <2>1, Zenon
  <2> QED
    BY <1>0, <2>1, <2>2 DEF TypeDemux
<1>2. CASE ~(wake /\ At(from, t))
  BY <1>0, <1>2 DEF Wake, TypeDemux
<1> QED
  BY <1>1, <1>2

\* One track's ring or cache is emptied.
LEMMA EmptyTyped ==
  ASSUME TypeOK, NEW t \in Tracks
  PROVE  /\ ring' = [ring EXCEPT ![t] = <<>>] => TypeRing'
         /\ frames' = [frames EXCEPT ![t] = <<>>] => TypeFrames'
         /\ spaceNeeded' = [spaceNeeded EXCEPT ![t] = 0] => TypeSpace'
<1>1. RingCap \in Nat /\ CacheCap \in Nat
  BY FileAssumption
<1>2. TypeRing /\ TypeFrames /\ TypeSpace
  BY TypeParts
<1>3. ring' = [ring EXCEPT ![t] = <<>>] => TypeRing'
  BY <1>1, <1>2 DEF TypeRing
<1>4. frames' = [frames EXCEPT ![t] = <<>>] => TypeFrames'
  BY <1>1, <1>2 DEF TypeFrames
<1>5. spaceNeeded' = [spaceNeeded EXCEPT ![t] = 0] => TypeSpace'
  BY <1>2 DEF TypeSpace
<1> QED
  BY <1>3, <1>4, <1>5

LEMMA AllResetTyped == AllReset => TypeRing' /\ TypeFrames' /\ TypeSpace'
BY FileAssumption DEF AllReset, TypeRing, TypeFrames, TypeSpace

\* What GetRead reads: the rest of the record, or as much as there is room for.
LEMMA ReadFacts ==
  ASSUME TypeOK, Control, cpc = "get", frames[ctrack] # <<>>
  PROVE  /\ ctrack \in Tracks /\ ring[ctrack] \in Seq(Byte) /\ Len(ring[ctrack]) <= RingCap
         /\ frames[ctrack] \in Seq(Record) /\ Head(frames[ctrack]) \in Record
         /\ 1 \in DOMAIN frames[ctrack] /\ frames[ctrack][1] = Head(frames[ctrack])
         /\ NextSize = Head(frames[ctrack]).left /\ NextSize \in 0..RingCap
         /\ delivered[ctrack] \in Seq(Byte) /\ room \in Nat
         /\ (IF room < NextSize THEN room ELSE NextSize) \in Nat
         /\ (IF room < NextSize THEN room ELSE NextSize) <= NextSize
         /\ (IF room < NextSize THEN room ELSE NextSize) <= room
<1>1. ctrack \in Tracks
  BY DEF Control, TypeOK, GetPlaces
<1>2. /\ ring[ctrack] \in Seq(Byte) /\ Len(ring[ctrack]) <= RingCap
      /\ frames[ctrack] \in Seq(Record)
      /\ delivered[ctrack] \in Seq(Byte) /\ room \in Nat
  BY <1>1 DEF TypeOK
<1>3. /\ Head(frames[ctrack]) \in Record
      /\ 1 \in DOMAIN frames[ctrack] /\ frames[ctrack][1] = Head(frames[ctrack])
  BY <1>2
<1>4. NextSize = Head(frames[ctrack]).left /\ NextSize \in 0..RingCap
  BY <1>3 DEF NextSize, Record
<1>5. NextSize \in Nat
  BY <1>4, FileAssumption
<1> QED
  BY <1>1, <1>2, <1>3, <1>4, <1>5

LEMMA GetReadTyped ==
  ASSUME TypeOK, Control, GetRead
  PROVE  TypeOK'
<1> DEFINE n == IF room < NextSize THEN room ELSE NextSize
           c == ctrack
           taken == SubSeq(ring[c], 1, n)
           left == SubSeq(ring[c], n + 1, Len(ring[c]))
           r == Shrunk(frames[c][1], n)
<1>1. /\ c \in Tracks /\ ring[c] \in Seq(Byte) /\ Len(ring[c]) <= RingCap
      /\ frames[c] \in Seq(Record) /\ 1 \in DOMAIN frames[c] /\ frames[c][1] \in Record
      /\ frames[c][1] = Head(frames[c]) /\ frames[c][1].left = NextSize
      /\ delivered[c] \in Seq(Byte) /\ n \in Nat /\ n <= NextSize /\ n <= room
      /\ NextSize \in 0..RingCap /\ room \in Nat /\ RingCap \in Nat
  BY ReadFacts, FileAssumption DEF GetRead
<1>2. n <= Len(ring[c])
  BY DEF GetRead
<1>3. taken \in Seq(Byte) /\ left \in Seq(Byte) /\ Len(left) = Len(ring[c]) - n
  <2> HIDE DEF n, c
  <2> QED
    BY <1>1, <1>2, Halves
<1>4. TypeRing'
  <2>1. ring' = [ring EXCEPT ![c] = left]
    BY DEF GetRead
  <2>2. TypeRing
    BY TypeParts
  <2>3. Len(left) <= RingCap
    BY <1>1, <1>2, <1>3
  <2> HIDE DEF n, c, left
  <2> QED
    BY <1>1, <1>3, <2>1, <2>2, <2>3 DEF TypeRing
<1>5. TypeFrames'
  <2>1. r \in Record
    <3> HIDE DEF n, c
    <3>1. NextSize - n \in 0..RingCap
      BY <1>1
    <3> QED
      BY <1>1, <3>1 DEF Shrunk, Record
  <2>2. [frames[c] EXCEPT ![1] = r] \in Seq(Record)
        /\ Len([frames[c] EXCEPT ![1] = r]) = Len(frames[c])
    <3> HIDE DEF r, c
    <3> QED
      BY <1>1, <2>1
  <2>3. frames' = [frames EXCEPT ![c] = [frames[c] EXCEPT ![1] = r]]
    BY DEF GetRead
  <2>4. TypeFrames
    BY TypeParts
  <2> HIDE DEF r, c
  <2> QED
    BY <1>1, <2>2, <2>3, <2>4 DEF TypeFrames
<1>6. TypeHistory'
  <2>0. TypeHistory
    BY TypeParts
  <2>1. delivered' = [delivered EXCEPT ![c] = delivered[c] \o taken]
    BY DEF GetRead
  <2>2. delivered' \in [Tracks -> Seq(Byte)]
    <3> HIDE DEF c, taken
    <3>1. delivered[c] \o taken \in Seq(Byte)
      BY <1>1, <1>3
    <3> QED
      BY <1>1, <2>0, <2>1, <3>1 DEF TypeHistory
  <2>3. sample' \in [kind : {"none", "junk", "found"}, from : Nat,
                     time : Nat \cup {Taken}, end : BOOLEAN]
    <3>1. (n = NextSize) \in BOOLEAN
      OBVIOUS
    <3>2. Len(delivered[c]) + 1 \in Nat
      BY <1>1
    <3>3. Head(frames[c]).pts \in Nat \cup {Taken}
      BY <1>1 DEF Record
    <3>4. sample' = IF sample # NoSample THEN sample
                    ELSE [kind |-> "found", from |-> Len(delivered[c]) + 1,
                          time |-> Head(frames[c]).pts, end |-> n = NextSize]
      BY DEF GetRead, FirstRound
    <3> HIDE DEF n, c
    <3> QED
      BY <2>0, <3>1, <3>2, <3>3, <3>4 DEF TypeHistory
  <2> QED
    BY <2>0, <2>2, <2>3 DEF GetRead, TypeHistory
<1>7. TypeDemux'
  BY WakeTyped DEF GetRead, FreeAvailable, DemuxPlaces, Holding
<1>8. TypeCall'
  <2>1. room' \in Nat
    <3>1. room' = room - n
      BY DEF GetRead
    <3> HIDE DEF n
    <3> QED
      BY <1>1, <3>1
  <2> QED
    BY <2>1, TypeParts DEF GetRead, TypeCall, ClientPlaces, GetPlaces
<1> HIDE DEF n, c, taken, left, r
<1> QED
  BY <1>4, <1>5, <1>6, <1>7, <1>8, TypesKept, TypePartsNext DEF GetRead

\* The cue that a seek goes to.
LEMMA CueTyped ==
  ASSUME client \in Profiles, client.cues # <<>>
  PROVE  /\ CueIndex \in 1..Len(client.cues)
         /\ client.cues[CueIndex].cluster \in 1..Len(File)
         /\ client.cues[CueIndex].time \in Nat
<1> DEFINE late == {i \in 1..Len(client.cues) : client.cues[i].time > target}
<1>1. client.cues \in Seq(Cuts) /\ Len(client.cues) \in Nat /\ Len(client.cues) > 0
  BY FileAssumption
<1>2. late # {} => Min(late) \in late
  <2>1. late \subseteq Nat
    BY <1>1
  <2> HIDE DEF late
  <2> QED
    BY <2>1, LeastOf DEF Min
<1>3. CueIndex \in 1..Len(client.cues)
  <2>1. late # {} => Min(late) \in 1..Len(client.cues)
    BY <1>2
  <2>2. CueIndex = LET stop == IF late = {} THEN Len(client.cues) ELSE Min(late) - 1
                   IN  IF stop > 0 THEN stop ELSE 1
    BY DEF CueIndex
  <2> HIDE DEF late
  <2> QED
    BY <1>1, <2>1, <2>2
<1>4. client.cues[CueIndex] \in Cuts
  BY <1>1, <1>3
<1> QED
  BY <1>3, <1>4 DEF Cuts

LEMMA ClientTyped == Typed /\ ClientStep => TypeOK'
<1> SUFFICES ASSUME Typed, ClientStep PROVE TypeOK'
  OBVIOUS
<1>0. TypeOK /\ Control /\ Spaces
  BY DEF Typed
<1>a. /\ TypeFlags /\ TypeFile /\ TypeTracks /\ TypeRing /\ TypeFrames /\ TypeSpace
      /\ TypeDemux /\ TypeCall /\ TypeHistory /\ TypeOthers
  BY <1>0, TypeParts
<1>1. CASE OpenReturn
  <2>1. TypeFile' /\ TypeDemux'
    BY <1>a, <1>1, FileAssumption DEF OpenReturn, TypeFile, TypeDemux, DemuxPlaces
  <2>2. TypeCall'
    BY <1>a, <1>1 DEF OpenReturn, TypeCall, ClientPlaces
  <2> QED
    BY <1>0, <1>1, <2>1, <2>2, TypesKept, TypePartsNext DEF OpenReturn, bufs, history
<1>2. CASE CreateFile
  <2>1. TypeTracks' /\ TypeCall'
    BY <1>a, <1>2 DEF CreateFile, TypeTracks, TypeCall, ClientPlaces
  <2> QED
    BY <1>0, <1>2, <2>1, TypesKept, TypePartsNext DEF CreateFile, bufs, history
<1>3. CASE GetRead
  BY <1>0, <1>3, GetReadTyped
<1>4. CASE GetNothing
  <2>1. TypeCall'
    BY <1>a, <1>4 DEF GetNothing, TypeCall, ClientPlaces, GetPlaces
  <2>2. TypeHistory'
    <3>1. NoSample \in [kind : {"none", "junk", "found"}, from : Nat,
                        time : Nat \cup {Taken}, end : BOOLEAN]
      BY DEF NoSample
    <3>2. Junk \in [kind : {"none", "junk", "found"}, from : Nat,
                    time : Nat \cup {Taken}, end : BOOLEAN]
      BY DEF NoSample, Junk
    <3> QED
      BY <1>a, <1>4, <3>1, <3>2 DEF GetNothing, TypeHistory
  <2> QED
    BY <1>0, <1>4, <2>1, <2>2, TypesKept, TypePartsNext DEF GetNothing, bufs
<1>5. CASE GetPop
  <2>1. TypeCall'
    BY <1>a, <1>5 DEF GetPop, TypeCall, ClientPlaces, GetPlaces
  <2>2. TypeDemux'
    BY <1>0, <1>5, WakeTyped DEF GetPop, DemuxPlaces, Holding
  <2>3. TypeFrames'
    <3>1. /\ ctrack \in Tracks /\ frames[ctrack] \in Seq(Record) /\ frames[ctrack] # <<>>
          /\ \A t \in Tracks : Len(frames[t]) <= CacheCap
      BY <1>0, <1>5 DEF GetPop, Control, TypeOK, GetPlaces
    <3>2. Tail(frames[ctrack]) \in Seq(Record) /\ Len(Tail(frames[ctrack])) <= CacheCap
      BY <3>1, FileAssumption
    <3>3. frames' = [frames EXCEPT ![ctrack] = Tail(frames[ctrack])]
      BY <1>5 DEF GetPop
    <3> QED
      BY <1>a, <3>1, <3>2, <3>3 DEF TypeFrames
  <2> QED
    BY <1>0, <1>5, <2>1, <2>2, <2>3, TypesKept, TypePartsNext DEF GetPop, history
<1>6. CASE GetMore
  <2>1. TypeCall'
    BY <1>a, <1>6 DEF GetMore, TypeCall, ClientPlaces, GetPlaces
  <2> QED
    BY <1>0, <1>6, <2>1, TypesKept, TypePartsNext DEF GetMore, bufs, history
<1>7. CASE GetReturn
  <2>1. TypeCall'
    BY <1>a, <1>7 DEF GetReturn, TypeCall, ClientPlaces
  <2>2. TypeHistory'
    BY <1>a, <1>7 DEF GetReturn, TypeHistory, NoSample
  <2> QED
    BY <1>0, <1>7, <2>1, <2>2, TypesKept, TypePartsNext DEF GetReturn, bufs
<1>8. CASE SeekFlag
  <2>1. TypeCall'
    BY <1>a, <1>8 DEF SeekFlag, StartReset, TypeCall, TypeTracks, ClientPlaces, ResetPlaces
  <2>2. TypeFlags'
    <3>1. needSeek' \in BOOLEAN
      BY <1>8, Zenon DEF SeekFlag
    <3> QED
      BY <1>a, <1>8, <3>1 DEF SeekFlag, TypeFlags, skips
  <2> QED
    BY <1>0, <1>8, <2>1, <2>2, TypesKept, TypePartsNext DEF SeekFlag, bufs, history
<1>9. CASE CloseState
  <2>1. TypeCall' /\ TypeFlags'
    BY <1>a, <1>9 DEF CloseState, TypeCall, TypeFlags, skips, ClientPlaces, ResetPlaces
  <2> QED
    BY <1>0, <1>9, <2>1, TypesKept, TypePartsNext DEF CloseState, bufs, history
<1>10. CASE CloseFlag
  <2>1. TypeCall'
    BY <1>a, <1>10 DEF CloseFlag, StartReset, TypeCall, TypeTracks, ClientPlaces, ResetPlaces
  <2>2. TypeFlags'
    <3>1. closeReq' \in BOOLEAN
      BY <1>10, Zenon DEF CloseFlag
    <3> QED
      BY <1>a, <1>10, <3>1 DEF CloseFlag, TypeFlags, skips
  <2> QED
    BY <1>0, <1>10, <2>1, <2>2, TypesKept, TypePartsNext DEF CloseFlag, bufs, history
<1>11. CASE FlushTrack
  <2>1. NextReset \in Tracks
    BY <1>0, <1>11, NextIsReset DEF FlushTrack, Control, TypeOK
  <2>2. TypeRing'
    BY <1>0, <1>11, <2>1, EmptyTyped DEF FlushTrack
  <2>3. TypeDemux'
    BY <1>0, <1>11, WakeTyped DEF FlushTrack, FreeAvailable, DemuxPlaces, Holding
  <2>4. TypeCall'
    BY <1>a, <1>11 DEF FlushTrack, TypeCall, ClientPlaces, ResetPlaces
  <2> QED
    BY <1>0, <1>11, <2>2, <2>3, <2>4, TypesKept, TypePartsNext DEF FlushTrack, history
<1>12. CASE ClearTrack
  <2>1. NextReset \in Tracks
    BY <1>0, <1>12, NextIsReset DEF ClearTrack, Control, TypeOK
  <2>2. TypeFrames' /\ TypeSpace'
    BY <1>0, <1>12, <2>1, EmptyTyped DEF ClearTrack
  <2>3. TypeDemux'
    <3>1. lost' \in BOOLEAN
      BY <1>12, Zenon DEF ClearTrack
    <3> QED
      BY <1>a, <1>12, <3>1 DEF ClearTrack, TypeDemux
  <2>4. TypeCall'
    BY <1>a, <1>12 DEF ClearTrack, TypeCall, ClientPlaces, ResetPlaces
  <2> QED
    BY <1>0, <1>12, <2>2, <2>3, <2>4, TypesKept, TypePartsNext DEF ClearTrack, history
<1>13. CASE SeekLocked
  <2>1. TypeRing' /\ TypeFrames' /\ TypeSpace'
    BY <1>13, AllResetTyped DEF SeekLocked
  <2>2. TypeCall'
    BY <1>a, <1>13 DEF SeekLocked, TypeCall, ClientPlaces
  <2>3. TypeHistory'
    <3>1. gen + 1 \in 0..MaxSeeks
      BY <1>0, <1>13, FileAssumption DEF SeekLocked, Control, TypeOK
    <3>2. delivered' \in [Tracks -> Seq(Byte)]
      BY <1>13 DEF SeekLocked
    <3> QED
      BY <1>a, <1>13, <3>1, <3>2 DEF SeekLocked, TypeHistory
  <2>4. client.cues # <<>> /\ client \in Profiles
    BY <1>a, <1>13 DEF SeekLocked, TypeOthers
  <2>5. TypeFlags'
    <3>1. needSeek' \in BOOLEAN
      BY <1>13, Zenon DEF SeekLocked
    <3>2. seekTime' \in Nat
      BY <1>13, <2>4, CueTyped DEF SeekLocked
    <3> QED
      BY <1>a, <1>13, <3>1, <3>2 DEF SeekLocked, TypeFlags
  <2>6. TypeFile'
    <3>1. eof' \in BOOLEAN
      BY <1>13, Zenon DEF SeekLocked
    <3>2. pos' \in 1..(Len(File) + 1)
      <4>1. pos' \in 1..Len(File) /\ Len(File) \in Nat
        BY <1>13, <2>4, CueTyped, FileAssumption DEF SeekLocked
      <4> QED
        BY <4>1
    <3> QED
      BY <1>a, <1>13, <3>1, <3>2 DEF SeekLocked, TypeFile
  <2> QED
    BY <1>0, <1>13, <2>1, <2>2, <2>3, <2>5, <2>6, TypesKept, TypePartsNext DEF SeekLocked
<1>14. CASE SeekLockedNoCues
  <2>1. TypeRing' /\ TypeFrames' /\ TypeSpace'
    BY <1>14, AllResetTyped DEF SeekLockedNoCues
  <2>2. TypeCall'
    BY <1>a, <1>14 DEF SeekLockedNoCues, TypeCall, ClientPlaces
  <2>3. TypeHistory'
    <3>1. gen + 1 \in 0..MaxSeeks
      BY <1>0, <1>14, FileAssumption DEF SeekLockedNoCues, Control, TypeOK
    <3>2. delivered' \in [Tracks -> Seq(Byte)]
      BY <1>14 DEF SeekLockedNoCues
    <3> QED
      BY <1>a, <1>14, <3>1, <3>2 DEF SeekLockedNoCues, TypeHistory
  <2> QED
    BY <1>0, <1>14, <2>1, <2>2, <2>3, TypesKept, TypePartsNext DEF SeekLockedNoCues
<1>15. CASE SeekLockedJunkCues
  BY <1>0, <1>15, CrashTyped DEF SeekLockedJunkCues
<1>16. CASE SeekTime
  <2>1. target \in Nat
    BY <1>a, FileAssumption DEF TypeCall
  <2>2. TypeFlags'
    BY <1>a, <1>16, <2>1 DEF SeekTime, TypeFlags, flags
  <2>3. TypeCall'
    BY <1>a, <1>16 DEF SeekTime, TypeCall, ClientPlaces
  <2> QED
    BY <1>0, <1>16, <2>2, <2>3, TypesKept, TypePartsNext DEF SeekTime, bufs, history
<1>17. CASE SeekSkip
  <2>1. TypeFlags'
    <3>1. skip' \in BOOLEAN
      BY <1>17, Zenon DEF SeekSkip
    <3> QED
      BY <1>a, <1>17, <3>1 DEF SeekSkip, TypeFlags, flags
  <2>2. TypeCall'
    BY <1>a, <1>17 DEF SeekSkip, TypeCall, ClientPlaces
  <2> QED
    BY <1>0, <1>17, <2>1, <2>2, TypesKept, TypePartsNext DEF SeekSkip, bufs, history
<1>18. CASE SeekPlay
  <2>1. TypeFlags'
    BY <1>a, <1>18 DEF SeekPlay, TypeFlags, skips
  <2>2. PreTrack # NoTrack => PreTrack \in Tracks
    <3>1. open \cap VideoTracks \subseteq Tracks /\ open \subseteq Tracks
      BY <1>a DEF TypeTracks
    <3> QED
      BY <3>1 DEF PreTrack
  <2>3. TypeCall'
    <3>1. CASE op = "seek" /\ PreTrack # NoTrack
      BY <1>a, <1>18, <2>2, <3>1 DEF SeekPlay, TypeCall, ClientPlaces
    <3>2. CASE ~(op = "seek" /\ PreTrack # NoTrack)
      BY <1>a, <1>18, <3>2 DEF SeekPlay, Idle, TypeCall, ClientPlaces
    <3> QED
      BY <3>1, <3>2
  <2> QED
    BY <1>0, <1>18, <2>1, <2>3, TypesKept, TypePartsNext DEF SeekPlay, bufs, history
<1>19. CASE PreBuffer
  <2>1. TypeCall' /\ TypeOthers'
    BY <1>a, <1>19 DEF PreBuffer, TypeCall, TypeOthers, ClientPlaces
  <2> QED
    BY <1>0, <1>19, <2>1, TypesKept, TypePartsNext DEF PreBuffer, history
<1>20. CASE PreTimeout
  <2>1. TypeCall'
    BY <1>a, <1>20 DEF PreTimeout, TypeCall, ClientPlaces
  <2> QED
    BY <1>0, <1>20, <2>1, TypesKept, TypePartsNext DEF PreTimeout, bufs, history
<1>21. CASE PreReturn
  <2>1. TypeCall' /\ TypeOthers'
    BY <1>a, <1>21 DEF PreReturn, Idle, TypeCall, TypeOthers, ClientPlaces
  <2> QED
    BY <1>0, <1>21, <2>1, TypesKept, TypePartsNext DEF PreReturn, history
<1>22. CASE CloseLocked
  <2>1. TypeRing' /\ TypeFrames' /\ TypeSpace'
    BY <1>22, AllResetTyped DEF CloseLocked
  <2>2. TypeCall' /\ TypeTracks'
    BY <1>a, <1>22 DEF CloseLocked, TypeCall, TypeTracks, ClientPlaces
  <2>3. TypeFile'
    <3>1. released' \in BOOLEAN
      BY <1>22, Zenon DEF CloseLocked
    <3> QED
      BY <1>a, <1>22, <3>1 DEF CloseLocked, TypeFile
  <2> QED
    BY <1>0, <1>22, <2>1, <2>2, <2>3, TypesKept, TypePartsNext DEF CloseLocked, history
<1>23. CASE CloseJoin
  <2>1. TypeCall'
    BY <1>a, <1>23 DEF CloseJoin, TypeCall, ClientPlaces
  <2> QED
    BY <1>0, <1>23, <2>1, TypesKept, TypePartsNext DEF CloseJoin, bufs, history
<1> QED
  BY <1>1, <1>2, <1>3, <1>4, <1>5, <1>6, <1>7, <1>8, <1>9, <1>10, <1>11, <1>12, <1>13,
     <1>14, <1>15, <1>16, <1>17, <1>18, <1>19, <1>20, <1>21, <1>22, <1>23 DEF ClientStep

LEMMA CallTyped == Typed /\ (ClientCall \/ SpuriousWakeup) => TypeOK'
<1> SUFFICES ASSUME Typed, ClientCall \/ SpuriousWakeup PROVE TypeOK'
  OBVIOUS
<1>0. TypeOK /\ Control /\ Spaces
  BY DEF Typed
<1>a. /\ TypeFlags /\ TypeFile /\ TypeTracks /\ TypeRing /\ TypeFrames /\ TypeSpace
      /\ TypeDemux /\ TypeCall /\ TypeHistory /\ TypeOthers
  BY <1>0, TypeParts
<1>1. ASSUME NEW t \in Tracks, CallOpen(t)
      PROVE  TypeOK'
  <2>1. TypeRing' /\ TypeFrames' /\ TypeSpace'
    BY <1>0, <1>1, EmptyTyped DEF CallOpen
  <2>2. TypeTracks'
    <3>1. Len(ring[t]) \in 0..RingCap /\ Len(frames[t]) \in 0..CacheCap
      BY <1>a, FileAssumption DEF TypeRing, TypeFrames
    <3>2. orphan' \in [on : BOOLEAN, bytes : 0..RingCap, records : 0..CacheCap]
      <4>1. CASE InHand(t)
        BY <1>1, <3>1, <4>1 DEF CallOpen
      <4>2. CASE ~InHand(t)
        BY <1>a, <1>1, <4>2 DEF CallOpen, TypeTracks
      <4> QED
        BY <4>1, <4>2
    <3> QED
      BY <1>a, <1>1, <3>2 DEF CallOpen, TypeTracks
  <2>3. TypeCall'
    BY <1>a, <1>1 DEF CallOpen, TypeCall, ClientPlaces
  <2> QED
    BY <1>0, <1>1, <2>1, <2>2, <2>3, TypesKept, TypePartsNext DEF CallOpen, history
<1>2. ASSUME NEW t \in Tracks, NEW n \in Rooms, CallGet(t, n)
      PROVE  TypeOK'
  <2>1. TypeCall'
    BY <1>a, <1>2, FileAssumption DEF CallGet, TypeCall, ClientPlaces, GetPlaces
  <2> QED
    BY <1>0, <1>2, <2>1, TypesKept, TypePartsNext DEF CallGet, bufs, history
<1>3. ASSUME NEW kind \in SeekKinds, NEW time \in Targets, CallSeek(kind, time)
      PROVE  TypeOK'
  <2>1. TypeFlags'
    BY <1>a, <1>3 DEF CallSeek, TypeFlags, skips
  <2>2. TypeCall'
    BY <1>a, <1>3 DEF CallSeek, TypeCall, ClientPlaces, ResetPlaces
  <2> QED
    BY <1>0, <1>3, <2>1, <2>2, TypesKept, TypePartsNext DEF CallSeek, bufs, history
<1>4. CASE CallClose
  <2>1. TypeFlags'
    <3>1. running' \in BOOLEAN
      BY <1>4, Zenon DEF CallClose
    <3> QED
      BY <1>a, <1>4, <3>1 DEF CallClose, TypeFlags, skips
  <2>2. TypeCall'
    BY <1>a, <1>4 DEF CallClose, TypeCall, ClientPlaces, ResetPlaces
  <2> QED
    BY <1>0, <1>4, <2>1, <2>2, TypesKept, TypePartsNext DEF CallClose, bufs, history
<1>5. CASE SpuriousWakeup
  <2>1. TypeDemux'
    <3>1. lost' \in BOOLEAN
      BY <1>5, Zenon DEF SpuriousWakeup
    <3> QED
      BY <1>a, <1>5, <3>1 DEF SpuriousWakeup, TypeDemux, DemuxPlaces, Holding
  <2> QED
    BY <1>0, <1>5, <2>1, TypesKept, TypePartsNext DEF SpuriousWakeup, bufs, history
<1> QED
  BY <1>1, <1>2, <1>3, <1>4, <1>5 DEF ClientCall

\* The places of the threads and what they say, step by step.
LEMMA DemuxControl == Typed /\ DemuxStep => Control'
<1> SUFFICES ASSUME Typed, DemuxStep PROVE Control'
  OBVIOUS
<1> USE DEF history, call, tracks, bufs
<1>0. TypeOK /\ Control /\ TypeDemux /\ TypeCall
  BY TypeParts DEF Typed
<1>1. CASE DCheck
  BY <1>0, <1>1 DEF DCheck, Control, InFrame, Holding
<1>2. CASE DSwitch
  BY <1>0, <1>2 DEF DSwitch, Control, InFrame, Holding
<1>3. CASE DLock
  BY <1>0, <1>3 DEF DLock, Control, InFrame, Holding
<1>4. CASE DLockReleased
  BY <1>4 DEF DLockReleased, Crash, Control, InFrame, Holding, GetPlaces
<1>5. CASE DLeave
  BY <1>0, <1>5 DEF DLeave, Control, InFrame, Holding
<1>6. CASE DDrop
  BY <1>0, <1>6 DEF DDrop, Control, InFrame, Holding
<1>7. CASE DTake
  BY <1>0, <1>7 DEF DTake, Control, InFrame, Holding
<1>8. CASE DUnskip
  BY <1>0, <1>8 DEF DUnskip, Control, InFrame, Holding
<1>9. CASE DUnskipTime
  BY <1>0, <1>9 DEF DUnskipTime, Control, InFrame, Holding
<1>10. CASE DWriteHalf
  BY <1>10 DEF DWriteHalf, Crash, Control, InFrame, Holding, GetPlaces
<1>11. CASE DWriteStore
  BY <1>0, <1>11 DEF DWriteStore, Writing, Control, InFrame, Holding
<1>12. CASE DWriteFull
  BY <1>0, <1>12 DEF DWriteFull, Writing, Control, InFrame, Holding
<1>13. CASE DAnnounce
  BY <1>0, <1>13 DEF DAnnounce, Control, InFrame, Holding, GetPlaces
<1>14. CASE DRelock
  BY <1>0, <1>14 DEF DRelock, Control, InFrame, Holding
<1>15. CASE DPushStore
  <2>1. dpc \in InFrame /\ Cur.track \in Tracks
    BY <1>15, <1>0, CurTyped DEF DPushStore, Pushing, InFrame, Holding
  <2>2. cpc = "pop" => frames'[ctrack] # <<>>
    <3> SUFFICES ASSUME cpc = "pop" PROVE frames'[ctrack] # <<>>
      OBVIOUS
    <3>1. ctrack \in Tracks /\ frames[ctrack] \in Seq(Record) /\ frames[ctrack] # <<>>
          /\ frames \in [Tracks -> Seq(Record)]
      BY <1>0 DEF Control, GetPlaces, TypeOK
    <3> DEFINE r == [id |-> Cur.id, gen |-> Cur.gen, left |-> Cur.size,
                     pts |-> Cur.tick * NsPerTick]
    <3>2. frames' = frames \/ frames' = [frames EXCEPT ![Cur.track] = Append(frames[Cur.track], r)]
      BY <1>15 DEF DPushStore
    <3>3. Append(frames[ctrack], r) # <<>>
      <4> HIDE DEF r
      <4> QED
        BY <3>1
    <3> HIDE DEF r
    <3> QED
      BY <2>1, <3>1, <3>2, <3>3
  <2> QED
    BY <1>0, <1>15, <2>2 DEF DPushStore, Control, InFrame, Holding
<1>16. CASE DPushWait
  BY <1>0, <1>16 DEF DPushWait, Pushing, Control, InFrame, Holding
<1>17. CASE DUnlock
  BY <1>0, <1>17 DEF DUnlock, Control, InFrame, Holding
<1> QED
  BY <1>1, <1>2, <1>3, <1>4, <1>5, <1>6, <1>7, <1>8, <1>9, <1>10, <1>11, <1>12, <1>13,
     <1>14, <1>15, <1>16, <1>17 DEF DemuxStep

LEMMA ClientControl == Typed /\ ClientStep => Control'
<1> SUFFICES ASSUME Typed, ClientStep PROVE Control'
  OBVIOUS
<1> USE DEF history, call, tracks, bufs, demux, InFrame, Holding, GetPlaces
<1>0. TypeOK /\ Control /\ TypeDemux /\ TypeCall
  BY TypeParts DEF Typed
<1>1. CASE OpenReturn
  BY <1>0, <1>1 DEF OpenReturn, Control
<1>2. CASE CreateFile
  BY <1>0, <1>2 DEF CreateFile, Control
<1>3. CASE GetRead
  <2>1. cpc' = "pop" => frames'[ctrack'] # <<>>
    <3> DEFINE n == IF room < NextSize THEN room ELSE NextSize
               r == Shrunk(frames[ctrack][1], n)
    <3>1. ctrack \in Tracks /\ frames[ctrack] \in Seq(Record) /\ frames[ctrack] # <<>>
          /\ frames \in [Tracks -> Seq(Record)]
      BY <1>0, <1>3, ReadFacts DEF GetRead, TypeOK
    <3>2. frames' = [frames EXCEPT ![ctrack] = [frames[ctrack] EXCEPT ![1] = r]]
          /\ ctrack' = ctrack
      BY <1>3 DEF GetRead
    <3>3. [frames[ctrack] EXCEPT ![1] = r] # <<>>
      <4> HIDE DEF r
      <4>1. 1 \in DOMAIN frames[ctrack]
        BY <3>1
      <4>2. DOMAIN [frames[ctrack] EXCEPT ![1] = r] = DOMAIN frames[ctrack]
        OBVIOUS
      <4> QED
        BY <4>1, <4>2
    <3> HIDE DEF r
    <3> QED
      BY <3>1, <3>2, <3>3
  <2>2. cpc' \in {"pop", "next"} /\ ctrack' = ctrack /\ opened' = opened /\ todo' = todo
        /\ gen' = gen /\ op' = op /\ rest' = rest /\ ctrack \in opened
    BY <1>0, <1>3 DEF GetRead, Control
  <2>3. dpc' = dpc \/ (dpc = "ringWait" /\ dpc' = "write")
    BY <1>3 DEF GetRead, FreeAvailable, Wake, At
  <2> QED
    BY <1>0, <2>1, <2>2, <2>3 DEF Control
<1>4. CASE GetNothing
  BY <1>0, <1>4 DEF GetNothing, Control
<1>5. CASE GetPop
  <2>1. dpc' = dpc \/ (dpc = "cacheWait" /\ dpc' = "cacheWoken")
    BY <1>5 DEF GetPop, Wake, At
  <2> QED
    BY <1>0, <1>5, <2>1 DEF GetPop, Control
<1>6. CASE GetMore
  BY <1>0, <1>6 DEF GetMore, Control
<1>7. CASE GetReturn
  BY <1>0, <1>7 DEF GetReturn, Control
<1>8. CASE SeekFlag
  BY <1>0, <1>8 DEF SeekFlag, StartReset, Control
<1>9. CASE CloseState
  BY <1>0, <1>9 DEF CloseState, Control
<1>10. CASE CloseFlag
  BY <1>0, <1>10 DEF CloseFlag, StartReset, Control
<1>11. CASE FlushTrack
  <2>1. dpc' = dpc \/ (dpc = "ringWait" /\ dpc' = "write")
    BY <1>11 DEF FlushTrack, FreeAvailable, Wake, At
  <2> QED
    BY <1>0, <1>11, <2>1 DEF FlushTrack, Control
<1>12. CASE ClearTrack
  <2>1. cpc' = "flush" => rest' # {}
    <3>1. rest \subseteq Tracks /\ rest # {}
      BY <1>0, <1>12 DEF ClearTrack, Control, TypeOK
    <3>2. NextReset \in rest
      BY <3>1, NextIsReset
    <3>3. rest' = rest \ {NextReset} /\ (cpc' = "flush" => rest # {NextReset})
      BY <1>12 DEF ClearTrack
    <3> QED
      BY <3>1, <3>2, <3>3
  <2> QED
    BY <1>0, <1>12, <2>1 DEF ClearTrack, Control
<1>13. CASE SeekLocked
  BY <1>0, <1>13 DEF SeekLocked, Control
<1>14. CASE SeekLockedNoCues
  BY <1>0, <1>14 DEF SeekLockedNoCues, Control
<1>15. CASE SeekLockedJunkCues
  BY <1>15 DEF SeekLockedJunkCues, Crash, Control
<1>16. CASE SeekTime
  BY <1>0, <1>16 DEF SeekTime, Control
<1>17. CASE SeekSkip
  BY <1>0, <1>17 DEF SeekSkip, Control
<1>18. CASE SeekPlay
  BY <1>0, <1>18 DEF SeekPlay, Idle, Control
<1>19. CASE PreBuffer
  BY <1>0, <1>19 DEF PreBuffer, Control
<1>20. CASE PreTimeout
  BY <1>0, <1>20 DEF PreTimeout, Control
<1>21. CASE PreReturn
  BY <1>0, <1>21 DEF PreReturn, Idle, Control
<1>22. CASE CloseLocked
  BY <1>0, <1>22 DEF CloseLocked, Control
<1>23. CASE CloseJoin
  BY <1>0, <1>23 DEF CloseJoin, Control
<1> QED
  BY <1>1, <1>2, <1>3, <1>4, <1>5, <1>6, <1>7, <1>8, <1>9, <1>10, <1>11, <1>12, <1>13,
     <1>14, <1>15, <1>16, <1>17, <1>18, <1>19, <1>20, <1>21, <1>22, <1>23 DEF ClientStep

LEMMA CallControl == Typed /\ (ClientCall \/ SpuriousWakeup) => Control'
<1> SUFFICES ASSUME Typed, ClientCall \/ SpuriousWakeup PROVE Control'
  OBVIOUS
<1> USE DEF history, call, tracks, bufs, demux, InFrame, Holding, GetPlaces
<1>0. TypeOK /\ Control /\ TypeDemux /\ TypeCall
  BY TypeParts DEF Typed
<1>1. ASSUME NEW t \in Tracks, CallOpen(t)
      PROVE  Control'
  BY <1>0, <1>1 DEF CallOpen, Control
<1>2. ASSUME NEW t \in Tracks, NEW n \in Rooms, CallGet(t, n)
      PROVE  Control'
  BY <1>0, <1>2 DEF CallGet, Control
<1>3. ASSUME NEW kind \in SeekKinds, NEW time \in Targets, CallSeek(kind, time)
      PROVE  Control'
  BY <1>0, <1>3 DEF CallSeek, Control
<1>4. CASE CallClose
  BY <1>0, <1>4 DEF CallClose, Control
<1>5. CASE SpuriousWakeup
  BY <1>0, <1>5 DEF SpuriousWakeup, Control
<1> QED
  BY <1>1, <1>2, <1>3, <1>4, <1>5 DEF ClientCall

\* The count of waiting writers: what each step makes of it.
LEMMA SpacesKept ==
  ASSUME Typed, Next
  PROVE  Spaces'
<1>0. TypeOK /\ Control /\ Spaces
  BY DEF Typed
<1> DEFINE Kept == /\ UNCHANGED spaceNeeded
                   /\ \A t \in Tracks : WaitsAt(t)' = WaitsAt(t)
                   /\ dpc' = "crashed" \/ dpc # "crashed"
<1>k. Kept => Spaces'
  BY <1>0 DEF Spaces
<1>c. Crash => Spaces'
  BY DEF Crash, Spaces
<1>1. CASE DemuxStep
  <2> USE DEF bufs, tracks, WaitsAt
  <2>1. CASE DPushStore
    <3>1. /\ Cur.track \in Tracks /\ SpaceUndone(Cur.track) \in -1..0
          /\ dpc \in {"push", "cacheWoken"}
      BY <1>0, <2>1, SpaceSteps DEF DPushStore, Pushing
    <3>2. spaceNeeded \in [Tracks -> -1..1]
      BY <1>0 DEF TypeOK
    <3>3. /\ spaceNeeded' = [spaceNeeded EXCEPT ![Cur.track] = SpaceUndone(Cur.track)]
          /\ dpc' = "block"
      BY <2>1 DEF DPushStore
    <3>4. \A t \in Tracks \ {Cur.track} : spaceNeeded[t] \in -1..0
      BY <1>0, <3>1 DEF Spaces
    <3> QED
      BY <3>1, <3>2, <3>3, <3>4 DEF Spaces
  <2>2. CASE DPushWait
    <3> DEFINE s == IF orphan.on THEN spaceNeeded[Cur.track] ELSE SpaceUndone(Cur.track) + 1
    <3>1. /\ Cur.track \in Tracks /\ SpaceUndone(Cur.track) \in -1..0
          /\ orphan.on => spaceNeeded[Cur.track] \in -1..0
          /\ dpc \in {"push", "cacheWoken"}
      BY <1>0, <2>2, SpaceSteps DEF DPushWait, Pushing
    <3>2. spaceNeeded \in [Tracks -> -1..1]
      BY <1>0 DEF TypeOK
    <3>3. /\ spaceNeeded' = [spaceNeeded EXCEPT ![Cur.track] = s]
          /\ dpc' = "cacheWait" /\ todo' = todo /\ orphan' = orphan
      BY <2>2 DEF DPushWait
    <3>4. \A t \in Tracks \ {Cur.track} : spaceNeeded[t] \in -1..0
      BY <1>0, <3>1 DEF Spaces
    <3>5. IF orphan.on THEN s \in -1..0 ELSE s \in 0..1
      BY <3>1
    <3>6. Cur' = Cur
      BY <3>3 DEF Cur
    <3> HIDE DEF s
    <3>7. spaceNeeded'[Cur.track] = s
          /\ \A t \in Tracks : t # Cur.track => spaceNeeded'[t] = spaceNeeded[t]
      BY <3>1, <3>2, <3>3
    <3> QED
      BY <3>1, <3>3, <3>4, <3>5, <3>6, <3>7 DEF Spaces
  <2>3. ASSUME ~DPushStore, ~DPushWait
        PROVE  Crash \/ Kept
    <3>1. CASE DCheck \/ DSwitch \/ DLock \/ DLeave \/ DTake \/ DUnskip \/ DUnskipTime
               \/ DWriteStore \/ DWriteFull
      BY <3>1 DEF DCheck, DSwitch, DLock, DLeave, DTake, DUnskip, DUnskipTime,
                  DWriteStore, DWriteFull, Writing
    <3>2. CASE DDrop
      BY <3>2 DEF DDrop
    <3>3. CASE DLockReleased \/ DWriteHalf
      BY <3>3 DEF DLockReleased, DWriteHalf
    <3>4. CASE DAnnounce \/ DRelock \/ DUnlock
      BY <3>4 DEF DAnnounce, DRelock, DUnlock
    <3> QED
      BY <1>1, <2>3, <3>1, <3>2, <3>3, <3>4 DEF DemuxStep
  <2> HIDE DEF Kept
  <2> QED
    BY <1>k, <1>c, <2>1, <2>2, <2>3
<1>2. CASE ClientStep \/ ClientCall \/ SpuriousWakeup
  <2> USE DEF bufs, tracks, demux, WaitsAt
  <2>0. spaceNeeded \in [Tracks -> -1..1]
    BY <1>0 DEF TypeOK
  <2>1. CASE \E t \in Tracks : CallOpen(t)
    <3>1. PICK t \in Tracks : CallOpen(t)
      BY <2>1
    <3>2. /\ spaceNeeded' = [spaceNeeded EXCEPT ![t] = 0]
          /\ dpc' = dpc /\ todo' = todo /\ Cur' = Cur
          /\ orphan' = IF InHand(t)
                       THEN [on |-> TRUE, bytes |-> Len(ring[t]), records |-> Len(frames[t])]
                       ELSE orphan
      BY <3>1 DEF CallOpen, Cur
    <3>3. \A u \in Tracks : u # t => WaitsAt(u)' = WaitsAt(u)
      BY <3>1, <3>2 DEF InHand
    <3>4. spaceNeeded'[t] = 0 /\ \A u \in Tracks : u # t => spaceNeeded'[u] = spaceNeeded[u]
      BY <2>0, <3>2
    <3> HIDE DEF WaitsAt
    <3> QED
      BY <1>0, <3>2, <3>3, <3>4 DEF Spaces
  <2>2. CASE ClearTrack
    <3>1. /\ spaceNeeded' = [spaceNeeded EXCEPT ![NextReset] = 0]
          /\ dpc' = dpc /\ todo' = todo /\ Cur' = Cur /\ orphan' = orphan
      BY <2>2 DEF ClearTrack, Cur
    <3>2. \A u \in Tracks : spaceNeeded'[u] = 0 \/ spaceNeeded'[u] = spaceNeeded[u]
      BY <2>0, <3>1
    <3>3. \A u \in Tracks : WaitsAt(u)' = WaitsAt(u)
      BY <3>1
    <3> HIDE DEF WaitsAt
    <3> QED
      BY <1>0, <3>1, <3>2, <3>3 DEF Spaces
  <2>3. CASE SeekLocked \/ SeekLockedNoCues \/ CloseLocked
    <3>1. \A t \in Tracks : spaceNeeded'[t] = 0
      BY <2>3 DEF SeekLocked, SeekLockedNoCues, CloseLocked, AllReset
    <3> QED
      BY <3>1 DEF Spaces
  <2>4. CASE SeekLockedJunkCues
    BY <1>c, <2>4 DEF SeekLockedJunkCues
  <2>5. ASSUME GetRead \/ GetPop \/ FlushTrack \/ SpuriousWakeup
        PROVE  Kept
    <3>1. /\ UNCHANGED <<spaceNeeded, orphan, todo>>
          /\ \/ dpc' = dpc
             \/ dpc = "ringWait" /\ dpc' = "write"
             \/ dpc = "cacheWait" /\ dpc' = "cacheWoken"
      BY <2>5 DEF GetRead, GetPop, FlushTrack, SpuriousWakeup, FreeAvailable, Wake, At
    <3>2. Cur' = Cur
      BY <3>1 DEF Cur
    <3> QED
      BY <3>1, <3>2
  <2>6. ASSUME ClientStep, ~ClearTrack, ~SeekLocked, ~SeekLockedNoCues, ~CloseLocked,
               ~SeekLockedJunkCues, ~GetRead, ~GetPop, ~FlushTrack
        PROVE  Kept
    <3>1. UNCHANGED <<spaceNeeded, orphan, todo>>
          /\ (dpc' = dpc \/ (dpc = "block" /\ dpc' = "check"))
      <4>1. CASE OpenReturn \/ CreateFile \/ GetNothing \/ GetMore \/ GetReturn
        BY <4>1 DEF OpenReturn, CreateFile, GetNothing, GetMore, GetReturn
      <4>2. CASE SeekFlag \/ CloseState \/ CloseFlag \/ SeekTime \/ SeekSkip \/ SeekPlay
        BY <4>2 DEF SeekFlag, CloseState, CloseFlag, SeekTime, SeekSkip, SeekPlay
      <4>3. CASE PreBuffer \/ PreTimeout \/ PreReturn \/ CloseJoin
        BY <4>3 DEF PreBuffer, PreTimeout, PreReturn, CloseJoin
      <4> QED
        BY <2>6, <4>1, <4>2, <4>3 DEF ClientStep
    <3>2. Cur' = Cur
      BY <3>1 DEF Cur
    <3> QED
      BY <3>1, <3>2
  <2>7. ASSUME ClientCall, ~(\E t \in Tracks : CallOpen(t))
        PROVE  Kept
    <3>1. UNCHANGED <<spaceNeeded, orphan, todo, dpc>>
      BY <2>7 DEF ClientCall, CallGet, CallSeek, CallClose
    <3>2. Cur' = Cur
      BY <3>1 DEF Cur
    <3> QED
      BY <3>1, <3>2
  <2> HIDE DEF Kept
  <2> QED
    BY <1>2, <1>k, <2>1, <2>2, <2>3, <2>4, <2>5, <2>6, <2>7
<1> QED
  BY <1>1, <1>2 DEF Next

LEMMA TypedKept == Typed /\ [Next]_vars => Typed'
<1> SUFFICES ASSUME Typed, [Next]_vars PROVE Typed'
  OBVIOUS
<1>1. CASE Next
  <2>1. TypeOK'
    BY <1>1, DemuxTyped, ClientTyped, CallTyped DEF Next
  <2>2. Control'
    BY <1>1, DemuxControl, ClientControl, CallControl DEF Next
  <2> QED
    BY <1>1, <2>1, <2>2, SpacesKept DEF Typed
<1>2. CASE UNCHANGED vars
  <2>1. TypeOK'
    BY <1>2, TypesKept, TypePartsNext DEF Typed, vars, bufs, history
  <2>2. Control' /\ Spaces'
    BY <1>2 DEF Typed, Control, Spaces, WaitsAt, Cur, vars, bufs, history, tracks, demux, call
  <2> QED
    BY <2>1, <2>2 DEF Typed
<1> QED
  BY <1>1, <1>2

(***************************************************************************)
(* Whatever the interleaving of the demux thread and the client's calls,   *)
(* whatever the file and the capacities: ring and frame cache stay within  *)
(* their bounds, and a cache's count of waiting writers between -1, which  *)
(* clear() can leave it at, and 1.                                         *)
(***************************************************************************)
THEOREM TypeCorrect == Spec => []TypeOK
<1>1. Spec => []Typed
  BY InitTyped, TypedKept, PTL DEF Spec
<1>2. Typed => TypeOK
  BY DEF Typed
<1> QED
  BY <1>1, <1>2, PTL

-----------------------------------------------------------------------------
(***************************************************************************)
(* Nothing stale.  While it is under way, a seek leaves the tracks with    *)
(* what the demux thread has put into them meanwhile; that too was read at *)
(* the file position of the same generation, and the next one begins when  *)
(* the tracks have been reset under m_lock.                                *)
(***************************************************************************)
\* Between two clusters the demux thread has no frames.
Between == {"unlock", "check", "switch", "lock", "exited"}
AllOf(s, g) == \A i \in DOMAIN s : s[i].gen = g

Fresh ==
  /\ \A t \in Tracks : AllOf(ring[t], gen) /\ AllOf(frames[t], gen) /\ AllOf(delivered[t], gen)
  /\ dpc \in Holding => AllOf(todo, gen)
  /\ dpc \in Between => todo = <<>>

LEMMA AllOfEmpty == \A g : AllOf(<<>>, g)
BY DEF AllOf

LEMMA AllOfJoined ==
  ASSUME NEW S, NEW u \in Seq(S), NEW v \in Seq(S), NEW g, AllOf(u, g), AllOf(v, g)
  PROVE  AllOf(u \o v, g)
BY DEF AllOf

LEMMA AllOfHeadTail ==
  ASSUME NEW S, NEW u \in Seq(S), NEW g, AllOf(u, g), u # <<>>
  PROVE  Head(u).gen = g /\ AllOf(Tail(u), g)
BY DEF AllOf

LEMMA AllOfHalves ==
  ASSUME NEW S, NEW s \in Seq(S), NEW n \in Nat, n <= Len(s), NEW g, AllOf(s, g)
  PROVE  AllOf(SubSeq(s, 1, n), g) /\ AllOf(SubSeq(s, n + 1, Len(s)), g)
<1>1. /\ DOMAIN SubSeq(s, 1, n) = 1..n /\ Len(s) \in Nat
      /\ DOMAIN SubSeq(s, n + 1, Len(s)) = 1..(Len(s) - n)
      /\ \A i \in 1..n : SubSeq(s, 1, n)[i] = s[i]
      /\ \A i \in 1..(Len(s) - n) : SubSeq(s, n + 1, Len(s))[i] = s[n + i]
      /\ DOMAIN s = 1..Len(s)
  <2>1. /\ SubSeq(s, 1, n) \in Seq(S) /\ Len(SubSeq(s, 1, n)) = n
        /\ SubSeq(s, n + 1, Len(s)) \in Seq(S)
        /\ Len(SubSeq(s, n + 1, Len(s))) = Len(s) - n
    BY Halves
  <2> QED
    BY <2>1, Halves, LenProperties
<1>2. \A i \in 1..n : i \in DOMAIN s
  BY <1>1
<1>3. \A i \in 1..(Len(s) - n) : n + i \in DOMAIN s
  BY <1>1
<1> QED
  BY <1>1, <1>2, <1>3 DEF AllOf

LEMMA AllOfBytes ==
  ASSUME NEW f, NEW n \in Nat
  PROVE  AllOf(Bytes(f, n), f.gen)
BY DEF AllOf, Bytes

\* One track's sequence is replaced by one of the same generation.
LEMMA AllOfSetOne ==
  ASSUME NEW S, NEW f \in [Tracks -> S], NEW t \in Tracks, NEW x \in S, NEW g, AllOf(x, g),
         \A u \in Tracks : AllOf(f[u], g)
  PROVE  \A u \in Tracks : AllOf([f EXCEPT ![t] = x][u], g)
OBVIOUS

LEMMA InitFresh == Init => Fresh
<1> SUFFICES ASSUME Init PROVE Fresh
  OBVIOUS
<1>1. AllOf(todo, gen)
  <2>1. 1 \in 1..Len(File) /\ gen \in 0..MaxSeeks
    BY FileAssumption DEF Init
  <2> QED
    BY <2>1, ClusterTyped DEF Init, AllOf
<1> QED
  BY <1>1, AllOfEmpty DEF Init, Fresh, Between

LEMMA DemuxFresh == Typed /\ Fresh /\ DemuxStep => Fresh'
<1> SUFFICES ASSUME Typed, Fresh, DemuxStep PROVE Fresh'
  OBVIOUS
<1>0. TypeOK /\ Control /\ Spaces
  BY DEF Typed
<1> DEFINE Kept == /\ UNCHANGED <<ring, frames, delivered, gen, todo>>
                   /\ dpc' \in Holding => dpc \in Holding
                   /\ dpc' \in Between => dpc \in Between \/ todo = <<>>
<1>k. Kept => Fresh'
  BY DEF Fresh
<1>1. CASE DLock
  <2>1. UNCHANGED <<ring, frames, delivered, gen>>
    BY <1>1 DEF DLock, bufs, history
  <2>2. AllOf(todo', gen)
    <3>1. CASE pos <= Len(File)
      <4>1. pos \in 1..Len(File) /\ gen \in 0..MaxSeeks
        BY <1>0, <3>1, FileAssumption DEF TypeOK
      <4> QED
        BY <1>1, <3>1, <4>1, ClusterTyped DEF DLock, AllOf
    <3>2. CASE ~(pos <= Len(File))
      BY <1>1, <3>2, AllOfEmpty DEF DLock, Fresh, Between
    <3> QED
      BY <1>1, <3>1, <3>2 DEF DLock
  <2>3. dpc' \in Between => todo' = <<>>
    BY <1>1 DEF DLock, Fresh, Between
  <2> QED
    BY <2>1, <2>2, <2>3 DEF Fresh
<1>2. CASE DLeave
  BY <1>2, AllOfEmpty DEF DLeave, Fresh, bufs, history
<1>3. CASE DDrop
  <2>1. todo \in Seq(Tagged) /\ todo # <<>> /\ AllOf(todo, gen)
    BY <1>0, <1>3 DEF DDrop, Fresh, Holding, TypeOK
  <2> QED
    BY <1>3, <2>1, AllOfHeadTail DEF DDrop, Fresh, Between, bufs, history
<1>4. CASE DWriteStore
  <2> DEFINE t == Cur.track
             b == Bytes(Cur, Cur.size)
  <2>1. dpc \in InFrame /\ dpc \in Holding
    BY <1>4 DEF DWriteStore, Writing, InFrame, Holding
  <2>2. t \in Tracks /\ todo \in Seq(Tagged) /\ todo # <<>> /\ Cur.size \in Nat
        /\ Cur.id \in Ids /\ Cur.gen \in 0..MaxSeeks
    <3>1. /\ todo # <<>> /\ Cur.id \in Ids /\ Cur.track \in Tracks
          /\ Cur.size \in 1..RingCap /\ Cur.gen \in 0..MaxSeeks
      BY <1>0, <2>1, CurTyped
    <3>2. Cur.size \in Nat
      BY <3>1, FileAssumption
    <3>3. todo \in Seq(Tagged)
      BY <1>0 DEF TypeOK
    <3> QED
      BY <3>1, <3>2, <3>3
  <2>3. b \in Seq(Byte) /\ AllOf(b, gen)
    <3>1. Cur.gen = gen
      BY <2>1, <2>2, AllOfHeadTail DEF Fresh, Cur
    <3> QED
      BY <2>2, <3>1, BytesTyped, AllOfBytes
  <2>4. ring \in [Tracks -> Seq(Byte)] /\ ring[t] \in Seq(Byte) /\ AllOf(ring[t], gen)
    BY <1>0, <2>2 DEF TypeOK, Fresh
  <2>5. ring' = ring \/ ring' = [ring EXCEPT ![t] = ring[t] \o b]
    BY <1>4 DEF DWriteStore
  <2>6. \A u \in Tracks : AllOf(ring'[u], gen)
    <3> HIDE DEF t, b
    <3>1. AllOf(ring[t] \o b, gen) /\ ring[t] \o b \in Seq(Byte)
      BY <2>3, <2>4, AllOfJoined
    <3> DEFINE x == ring[t] \o b
    <3>2. ring' = ring \/ ring' = [ring EXCEPT ![t] = x]
      BY <2>5
    <3> HIDE DEF x
    <3> QED
      BY <2>2, <2>4, <3>1, <3>2, AllOfSetOne DEF Fresh, x
  <2> QED
    BY <1>4, <2>1, <2>6 DEF DWriteStore, Fresh, Between, history
<1>5. CASE DPushStore
  <2> DEFINE t == Cur.track
             r == [id |-> Cur.id, gen |-> Cur.gen, left |-> Cur.size,
                   pts |-> Cur.tick * NsPerTick]
             x == Append(frames[t], r)
  <2>1. dpc \in InFrame /\ dpc \in Holding
    BY <1>5 DEF DPushStore, Pushing, InFrame, Holding
  <2>2. t \in Tracks /\ todo \in Seq(Tagged) /\ todo # <<>>
    BY <1>0, <2>1, CurTyped DEF TypeOK
  <2>3. r.gen = gen /\ AllOf(Tail(todo), gen)
    BY <2>1, <2>2, AllOfHeadTail DEF Fresh, Cur
  <2>4. frames \in [Tracks -> Seq(Record)] /\ frames[t] \in Seq(Record) /\ AllOf(frames[t], gen)
    BY <1>0, <2>2 DEF TypeOK, Fresh
  <2>5. AllOf(x, gen)
    <3> HIDE DEF r, t
    <3> QED
      BY <2>3, <2>4 DEF AllOf
  <2>6. frames' = frames \/ frames' = [frames EXCEPT ![t] = x]
    BY <1>5 DEF DPushStore
  <2>7. \A u \in Tracks : AllOf(frames'[u], gen)
    <3> HIDE DEF x, t
    <3> QED
      BY <2>2, <2>4, <2>5, <2>6 DEF Fresh
  <2> QED
    BY <1>5, <2>3, <2>7 DEF DPushStore, Fresh, Between, history
<1>6. CASE DCheck \/ DSwitch \/ DLockReleased \/ DTake \/ DUnskip \/ DUnskipTime \/ DWriteHalf
  <2>1. Kept
    BY <1>6 DEF DCheck, DSwitch, DLockReleased, DTake, DUnskip, DUnskipTime, DWriteHalf,
                Crash, Holding, Between, bufs, history
  <2> QED
    BY <1>k, <2>1
<1>7. CASE DWriteFull \/ DAnnounce \/ DRelock \/ DPushWait \/ DUnlock
  <2>1. Kept
    BY <1>7 DEF DWriteFull, Writing, DAnnounce, DRelock, DPushWait, Pushing, DUnlock,
                Holding, Between, bufs, history
  <2> QED
    BY <1>k, <2>1
<1> QED
  BY <1>1, <1>2, <1>3, <1>4, <1>5, <1>6, <1>7 DEF DemuxStep

LEMMA ClientFresh == Typed /\ Fresh /\ (ClientStep \/ ClientCall \/ SpuriousWakeup) => Fresh'
<1> SUFFICES ASSUME Typed, Fresh, ClientStep \/ ClientCall \/ SpuriousWakeup PROVE Fresh'
  OBVIOUS
<1>0. TypeOK /\ Control /\ Spaces
  BY DEF Typed
<1>a. /\ ring \in [Tracks -> Seq(Byte)] /\ frames \in [Tracks -> Seq(Record)]
      /\ delivered \in [Tracks -> Seq(Byte)]
  BY <1>0 DEF TypeOK
<1> DEFINE Kept == /\ UNCHANGED <<ring, frames, delivered, gen, todo>>
                   /\ dpc' \in Holding => dpc \in Holding
                   /\ dpc' \in Between => dpc \in Between \/ todo = <<>>
<1>k. Kept => Fresh'
  BY DEF Fresh
<1>1. CASE GetRead
  <2> DEFINE n == IF room < NextSize THEN room ELSE NextSize
             c == ctrack
             taken == SubSeq(ring[c], 1, n)
             left == SubSeq(ring[c], n + 1, Len(ring[c]))
             r == Shrunk(frames[c][1], n)
             rs == [frames[c] EXCEPT ![1] = r]
             out == delivered[c] \o taken
  <2>1. /\ c \in Tracks /\ ring[c] \in Seq(Byte) /\ frames[c] \in Seq(Record)
        /\ delivered[c] \in Seq(Byte) /\ n \in Nat /\ n <= Len(ring[c])
        /\ 1 \in DOMAIN frames[c] /\ frames[c][1] \in Record
    BY <1>0, <1>1, ReadFacts DEF GetRead
  <2>2. AllOf(ring[c], gen) /\ AllOf(frames[c], gen) /\ AllOf(delivered[c], gen)
    BY <2>1 DEF Fresh
  <2>3. AllOf(taken, gen) /\ AllOf(left, gen) /\ taken \in Seq(Byte) /\ left \in Seq(Byte)
    <3> HIDE DEF n, c
    <3> QED
      BY <2>1, <2>2, AllOfHalves, Halves
  <2>4. AllOf(out, gen)
    <3> HIDE DEF taken, c
    <3> QED
      BY <2>1, <2>2, <2>3, AllOfJoined
  <2>5. AllOf(rs, gen)
    <3>1. r.gen = gen
      <4>1. frames[c][1].gen = gen
        BY <2>1, <2>2 DEF AllOf
      <4> HIDE DEF n, c
      <4> QED
        BY <2>1, <4>1 DEF Shrunk, Record
    <3> HIDE DEF r, c
    <3> QED
      BY <2>1, <2>2, <3>1 DEF AllOf
  <2>6. /\ ring' = [ring EXCEPT ![c] = left] /\ frames' = [frames EXCEPT ![c] = rs]
        /\ delivered' = [delivered EXCEPT ![c] = out] /\ gen' = gen /\ todo' = todo
    BY <1>1 DEF GetRead
  <2>7. /\ dpc' \in Holding => dpc \in Holding
        /\ dpc' \in Between => dpc \in Between
    BY <1>1 DEF GetRead, FreeAvailable, Wake, At, Holding, Between
  <2> HIDE DEF left, rs, out, c
  <2>8. \A t \in Tracks :
          AllOf(ring'[t], gen) /\ AllOf(frames'[t], gen) /\ AllOf(delivered'[t], gen)
    BY <1>a, <2>1, <2>3, <2>4, <2>5, <2>6 DEF Fresh
  <2> QED
    BY <2>6, <2>7, <2>8 DEF Fresh
<1>2. CASE GetPop
  <2>1. ctrack \in Tracks /\ frames[ctrack] \in Seq(Record) /\ frames[ctrack] # <<>>
    BY <1>0, <1>2 DEF GetPop, Control, TypeOK, GetPlaces
  <2>2. AllOf(Tail(frames[ctrack]), gen)
    BY <2>1, AllOfHeadTail DEF Fresh
  <2>3. /\ frames' = [frames EXCEPT ![ctrack] = Tail(frames[ctrack])]
        /\ UNCHANGED <<ring, delivered, gen, todo>>
    BY <1>2 DEF GetPop, history
  <2>4. /\ dpc' \in Holding => dpc \in Holding
        /\ dpc' \in Between => dpc \in Between
    BY <1>2 DEF GetPop, Wake, At, Holding, Between
  <2>5. \A t \in Tracks : AllOf(frames'[t], gen)
    BY <1>a, <2>1, <2>2, <2>3 DEF Fresh
  <2> QED
    BY <2>3, <2>4, <2>5 DEF Fresh
<1>3. CASE FlushTrack
  <2>1. /\ ring' = [ring EXCEPT ![NextReset] = <<>>]
        /\ UNCHANGED <<frames, delivered, gen, todo>>
    BY <1>3 DEF FlushTrack, history
  <2>2. /\ dpc' \in Holding => dpc \in Holding
        /\ dpc' \in Between => dpc \in Between
    BY <1>3 DEF FlushTrack, FreeAvailable, Wake, At, Holding, Between
  <2>3. \A t \in Tracks : AllOf(ring'[t], gen)
    BY <1>a, <2>1, AllOfEmpty DEF Fresh
  <2> QED
    BY <2>1, <2>2, <2>3 DEF Fresh
<1>4. CASE ClearTrack
  <2>1. /\ frames' = [frames EXCEPT ![NextReset] = <<>>]
        /\ UNCHANGED <<ring, delivered, gen, todo, dpc>>
    BY <1>4 DEF ClearTrack, history
  <2>2. \A t \in Tracks : AllOf(frames'[t], gen)
    BY <1>a, <2>1, AllOfEmpty DEF Fresh
  <2> QED
    BY <2>1, <2>2 DEF Fresh
<1>5. CASE SeekLocked \/ SeekLockedNoCues \/ CloseLocked
  <2>1. /\ \A t \in Tracks : ring'[t] = <<>> /\ frames'[t] = <<>>
        /\ dpc' \notin Holding /\ dpc' = dpc /\ todo' = todo
    BY <1>5 DEF SeekLocked, SeekLockedNoCues, CloseLocked, AllReset, LockFree, demux
  <2>2. \A t \in Tracks : AllOf(delivered'[t], gen')
    <3>1. CASE SeekLocked \/ SeekLockedNoCues
      BY <3>1, AllOfEmpty DEF SeekLocked, SeekLockedNoCues
    <3>2. CASE CloseLocked
      BY <3>2 DEF CloseLocked, history, Fresh
    <3> QED
      BY <1>5, <3>1, <3>2
  <2> QED
    BY <2>1, <2>2, AllOfEmpty DEF Fresh
<1>6. CASE \E t \in Tracks : CallOpen(t)
  <2>1. PICK t \in Tracks : CallOpen(t)
    BY <1>6
  <2>2. /\ ring' = [ring EXCEPT ![t] = <<>>] /\ frames' = [frames EXCEPT ![t] = <<>>]
        /\ UNCHANGED <<delivered, gen, todo, dpc>>
    BY <2>1 DEF CallOpen, history, demux
  <2>3. \A u \in Tracks : AllOf(ring'[u], gen) /\ AllOf(frames'[u], gen)
    BY <1>a, <2>2, AllOfEmpty DEF Fresh
  <2> QED
    BY <2>2, <2>3 DEF Fresh
<1>7. ASSUME ClientStep, ~GetRead, ~GetPop, ~FlushTrack, ~ClearTrack, ~SeekLocked,
             ~SeekLockedNoCues, ~CloseLocked
      PROVE  Kept
  <2> USE DEF bufs, history, demux
  <2>1. CASE OpenReturn \/ CreateFile \/ GetNothing \/ GetMore \/ GetReturn
    BY <2>1 DEF OpenReturn, CreateFile, GetNothing, GetMore, GetReturn, Holding
  <2>2. CASE SeekFlag \/ CloseState \/ CloseFlag \/ SeekTime \/ SeekSkip \/ SeekPlay
    BY <2>2 DEF SeekFlag, CloseState, CloseFlag, SeekTime, SeekSkip, SeekPlay
  <2>3. CASE SeekLockedJunkCues \/ PreBuffer \/ PreTimeout \/ PreReturn \/ CloseJoin
    BY <2>3 DEF SeekLockedJunkCues, Crash, Holding, Between, PreBuffer, PreTimeout, PreReturn, CloseJoin
  <2> QED
    BY <1>7, <2>1, <2>2, <2>3 DEF ClientStep
<1>8. ASSUME ClientCall, ~(\E t \in Tracks : CallOpen(t))
      PROVE  Kept
  BY <1>8 DEF ClientCall, CallGet, CallSeek, CallClose, bufs, history, demux
<1>9. ASSUME SpuriousWakeup
      PROVE  Kept
  BY <1>9 DEF SpuriousWakeup, bufs, history, Holding, Between
<1> HIDE DEF Kept
<1> QED
  BY <1>k, <1>1, <1>2, <1>3, <1>4, <1>5, <1>6, <1>7, <1>8, <1>9

LEMMA FreshKept == Typed /\ Fresh /\ [Next]_vars => Fresh'
<1> SUFFICES ASSUME Typed, Fresh, [Next]_vars PROVE Fresh'
  OBVIOUS
<1>1. CASE UNCHANGED vars
  BY <1>1 DEF Fresh, vars, bufs, history, demux
<1> QED
  BY <1>1, DemuxFresh, ClientFresh DEF Next

LEMMA FreshIsNothingStale == TypeOK /\ Fresh => NothingStale
<1> SUFFICES ASSUME TypeOK, Fresh, Settled PROVE
        /\ \A t \in open \cap Tracks :
             \A b \in Range(ring[t]) \cup Range(frames[t]) \cup Range(delivered[t]) :
               b.gen = gen
        /\ dpc \in Holding => \A f \in Range(todo) : f.gen = gen
  BY DEF NothingStale, TypeOK
<1>1. \A s : AllOf(s, gen) => \A b \in Range(s) : b.gen = gen
  BY DEF AllOf, Range
<1> QED
  BY <1>1 DEF Fresh

(***************************************************************************)
(* After a seek has moved the file pointer nothing read before is in a     *)
(* ring or a cache, in the demux thread's hands, or handed out: although   *)
(* the demux thread may go on writing into tracks that the seek has reset  *)
(* already, until the seek gets m_lock.                                    *)
(***************************************************************************)
THEOREM NothingStaleHolds == Spec => []NothingStale
<1>1. Spec => [](Typed /\ Fresh)
  <2>1. Init => Typed /\ Fresh
    BY InitTyped, InitFresh
  <2>2. Typed /\ Fresh /\ [Next]_vars => (Typed /\ Fresh)'
    BY TypedKept, FreshKept
  <2> QED
    BY <2>1, <2>2, PTL DEF Spec
<1>2. Typed /\ Fresh => NothingStale
  BY FreshIsNothingStale DEF Typed
<1> QED
  BY <1>1, <1>2, PTL

-----------------------------------------------------------------------------
(***************************************************************************)
(* FlattenSeq, with which Described strings the records of a track         *)
(* together, when a sequence gains a last element or loses its first.      *)
(***************************************************************************)
\* g holds what the first elements of ss, one after the other, make.
PartsJoined(g, ss) ==
  /\ DOMAIN g = 1..Len(ss)
  /\ \A i \in 1..Len(ss) : g[i] = IF i = 1 THEN ss[i] ELSE g[i - 1] \o ss[i]

\* Three sequences in a row.
Grouped(u, v, w) == (u \o v) \o w = u \o (v \o w)

LEMMA Grouping ==
  ASSUME NEW T, NEW u \in Seq(T), NEW v \in Seq(T), NEW w \in Seq(T)
  PROVE  Grouped(u, v, w)
<1>1. (u \o v) \o w = u \o (v \o w)
  BY ConcatAssociative, SMTT(30)
<1> QED
  BY <1>1 DEF Grouped

LEMMA PrefixesExist ==
  ASSUME NEW T, NEW ss \in Seq(Seq(T))
  PROVE  \E g : PartsJoined(g, ss)
<1> DEFINE Upto(g, n) ==
             /\ DOMAIN g = 1..n
             /\ \A i \in 1..n : g[i] = IF i = 1 THEN ss[i] ELSE g[i - 1] \o ss[i]
           S == {n \in Nat : \E g : Upto(g, n)}
<1>1. 0 \in S
  <2>1. Upto([i \in 1..0 |-> 0], 0)
    OBVIOUS
  <2> QED
    BY <2>1
<1>2. ASSUME NEW n \in Nat, n \in S
      PROVE  n + 1 \in S
  <2>1. PICK g : Upto(g, n)
    BY <1>2
  <2> DEFINE x == IF n + 1 = 1 THEN ss[n + 1] ELSE g[n] \o ss[n + 1]
             h == [i \in 1..(n + 1) |-> IF i <= n THEN g[i] ELSE x]
  <2>2. \A i \in 1..n : h[i] = g[i] /\ i \in 1..(n + 1)
    <3> HIDE DEF x
    <3> QED
      OBVIOUS
  <2>3. h[n + 1] = x /\ DOMAIN h = 1..(n + 1)
    <3> HIDE DEF x
    <3> QED
      OBVIOUS
  <2>4. ASSUME NEW i \in 1..(n + 1)
        PROVE  h[i] = IF i = 1 THEN ss[i] ELSE h[i - 1] \o ss[i]
    <3>1. CASE i <= n
      <4>1. i \in 1..n /\ h[i] = g[i]
        BY <2>2, <3>1
      <4>2. i # 1 => i - 1 \in 1..n /\ h[i - 1] = g[i - 1]
        BY <2>2, <4>1
      <4> HIDE DEF h
      <4> QED
        BY <2>1, <4>1, <4>2
    <3>2. CASE i = n + 1
      <4>1. i # 1 => n \in 1..n /\ i - 1 = n
        BY <3>2
      <4>2. i # 1 => h[i - 1] = g[n]
        BY <2>2, <4>1
      <4> HIDE DEF h
      <4> QED
        BY <2>3, <3>2, <4>2
    <3> QED
      BY <3>1, <3>2
  <2> HIDE DEF h
  <2>5. Upto(h, n + 1)
    BY <2>3, <2>4
  <2> HIDE DEF Upto
  <2>6. n + 1 \in Nat
    OBVIOUS
  <2> QED
    BY <2>5, <2>6
<1>3. Len(ss) \in S
  <2> HIDE DEF S
  <2>1. \A n \in Nat : n \in S
    BY <1>1, <1>2, Induction
  <2> QED
    BY <2>1
<1> QED
  BY <1>3 DEF PartsJoined

LEMMA FlattenIsPrefix ==
  ASSUME NEW T, NEW ss \in Seq(Seq(T)), ss # <<>>
  PROVE  \E g : PartsJoined(g, ss) /\ FlattenSeq(ss) = g[Len(ss)]
<1> DEFINE Step(g) == [i \in 1..Len(ss) |-> IF i = 1 THEN ss[i] ELSE g[i - 1] \o ss[i]]
           f == CHOOSE g : g = Step(g)
<1>1. FlattenSeq(ss) = f[Len(ss)]
  <2>1. Len(ss) # 0
    OBVIOUS
  <2> QED
    BY <2>1 DEF FlattenSeq
<1>2. \E g : g = Step(g)
  <2>1. PICK g : PartsJoined(g, ss)
    BY PrefixesExist
  <2> DEFINE h == Step(g)
  <2>2. DOMAIN h = 1..Len(ss)
        /\ \A i \in 1..Len(ss) : h[i] = IF i = 1 THEN ss[i] ELSE g[i - 1] \o ss[i]
    OBVIOUS
  <2>3. \A i \in 1..Len(ss) : h[i] = g[i]
    BY <2>1, <2>2 DEF PartsJoined
  <2>4. h = Step(h)
    <3> HIDE DEF h
    <3>1. \A i \in 1..Len(ss) : i # 1 => i - 1 \in 1..Len(ss)
      OBVIOUS
    <3>2. \A i \in 1..Len(ss) : h[i] = IF i = 1 THEN ss[i] ELSE h[i - 1] \o ss[i]
      BY <2>2, <2>3, <3>1
    <3>3. h = [i \in 1..Len(ss) |-> h[i]]
      BY <2>2 DEF h
    <3> QED
      BY <3>2, <3>3
  <2> HIDE DEF h
  <2> QED
    BY <2>4
<1>3. f = Step(f)
  BY <1>2
<1>4. PartsJoined(f, ss)
  <2> HIDE DEF f
  <2> QED
    BY <1>3 DEF PartsJoined
<1> QED
  BY <1>1, <1>4

\* Up to where two sequences agree, so do what their elements make.
SameUpto(u, v, n) == \A i \in 1..n : u[i] = v[i]

LEMMA PrefixesAgree ==
  ASSUME NEW u, NEW v, NEW p, NEW q, PartsJoined(p, u), PartsJoined(q, v),
         Len(u) \in Nat, Len(v) \in Nat, Len(v) <= Len(u),
         SameUpto(u, v, Len(v))
  PROVE  SameUpto(p, q, Len(v))
<1> DEFINE n == Len(v)
           S == {i \in Nat : i \in 1..n => p[i] = q[i]}
<1>1. 0 \in S
  OBVIOUS
<1>2. ASSUME NEW i \in Nat, i \in S
      PROVE  i + 1 \in S
  <2>1. CASE i + 1 \in 1..n
    <3>1. i + 1 \in 1..Len(u) /\ i + 1 \in 1..Len(v) /\ (i + 1) - 1 = i
      BY <2>1
    <3>2. u[i + 1] = v[i + 1]
      BY <2>1 DEF SameUpto
    <3>3. i + 1 # 1 => p[i] = q[i]
      BY <1>2, <2>1
    <3>4. p[i + 1] = IF i + 1 = 1 THEN u[i + 1] ELSE p[i] \o u[i + 1]
      BY <3>1 DEF PartsJoined
    <3>5. q[i + 1] = IF i + 1 = 1 THEN v[i + 1] ELSE q[i] \o v[i + 1]
      BY <3>1 DEF PartsJoined
    <3> QED
      BY <3>2, <3>3, <3>4, <3>5
  <2> QED
    BY <2>1
<1>3. \A i \in Nat : i \in S
  <2> HIDE DEF S
  <2> QED
    BY <1>1, <1>2, Induction
<1> QED
  BY <1>3 DEF SameUpto

LEMMA PrefixesTyped ==
  ASSUME NEW T, NEW ss \in Seq(Seq(T)), NEW g, PartsJoined(g, ss)
  PROVE  \A i \in 1..Len(ss) : g[i] \in Seq(T)
<1> DEFINE S == {i \in Nat : i \in 1..Len(ss) => g[i] \in Seq(T)}
<1>1. 0 \in S
  OBVIOUS
<1>2. ASSUME NEW i \in Nat, i \in S
      PROVE  i + 1 \in S
  <2>1. CASE i + 1 \in 1..Len(ss)
    <3>1. ss[i + 1] \in Seq(T)
      BY <2>1
    <3>2. i + 1 # 1 => g[i] \in Seq(T)
      BY <1>2, <2>1
    <3>3. g[i + 1] = IF i + 1 = 1 THEN ss[i + 1] ELSE g[i] \o ss[i + 1]
      <4>1. (i + 1) - 1 = i
        OBVIOUS
      <4> QED
        BY <2>1, <4>1 DEF PartsJoined
    <3>4. g[i + 1] \in Seq(T)
      <4>1. CASE i + 1 = 1
        BY <3>1, <3>3, <4>1
      <4>2. CASE i + 1 # 1
        <5>1. g[i + 1] = g[i] \o ss[i + 1]
          BY <3>3, <4>2
        <5>2. g[i] \o ss[i + 1] \in Seq(T)
          BY <3>1, <3>2, <4>2, ConcatProperties
        <5> QED
          BY <5>1, <5>2
      <4> QED
        BY <4>1, <4>2
    <3> QED
      BY <3>4
  <2> QED
    BY <2>1
<1>3. \A i \in Nat : i \in S
  <2> HIDE DEF S
  <2> QED
    BY <1>1, <1>2, Induction
<1> QED
  BY <1>3

LEMMA FlattenTyped ==
  ASSUME NEW T, NEW ss \in Seq(Seq(T))
  PROVE  FlattenSeq(ss) \in Seq(T) /\ FlattenSeq(<<>>) = <<>>
<1>1. FlattenSeq(<<>>) = <<>>
  BY DEF FlattenSeq
<1>2. CASE ss # <<>>
  <2>1. PICK g : PartsJoined(g, ss) /\ FlattenSeq(ss) = g[Len(ss)]
    BY <1>2, FlattenIsPrefix
  <2>2. Len(ss) \in 1..Len(ss)
    BY <1>2
  <2> QED
    BY <1>1, <2>1, <2>2, PrefixesTyped
<1> QED
  BY <1>1, <1>2

LEMMA FlattenAppend ==
  ASSUME NEW T, NEW ss \in Seq(Seq(T)), NEW x \in Seq(T)
  PROVE  FlattenSeq(Append(ss, x)) = FlattenSeq(ss) \o x
<1> DEFINE tt == Append(ss, x)
           n == Len(ss)
<1>1. /\ tt \in Seq(Seq(T)) /\ tt # <<>> /\ Len(tt) = n + 1 /\ tt[n + 1] = x /\ n \in Nat
      /\ \A i \in 1..n : tt[i] = ss[i]
  BY AppendProperties
<1> HIDE DEF tt
<1>2. PICK g : PartsJoined(g, tt) /\ FlattenSeq(tt) = g[n + 1]
  BY <1>1, FlattenIsPrefix
<1>3. g[n + 1] = IF n + 1 = 1 THEN x ELSE g[n] \o x
  <2>1. n + 1 \in 1..Len(tt) /\ (n + 1) - 1 = n
    BY <1>1
  <2> QED
    BY <1>1, <1>2, <2>1 DEF PartsJoined
<1>4. CASE ss = <<>>
  <2>0. n + 1 = 1
    BY <1>4
  <2>1. FlattenSeq(ss) = <<>>
    BY <1>4, FlattenTyped, Zenon
  <2>2. <<>> \o x = x
    BY ConcatEmptySeq
  <2> QED
    BY <1>2, <1>3, <2>0, <2>1, <2>2 DEF tt
<1>5. CASE ss # <<>>
  <2>1. PICK h : PartsJoined(h, ss) /\ FlattenSeq(ss) = h[n]
    BY <1>5, FlattenIsPrefix
  <2>2. \A i \in 1..n : g[i] = h[i]
    <3>1. PartsJoined(g, tt) /\ PartsJoined(h, ss)
      BY <1>2, <2>1
    <3>2. SameUpto(tt, ss, Len(ss))
      BY <1>1 DEF SameUpto
    <3>3. Len(tt) \in Nat /\ Len(ss) \in Nat /\ Len(ss) <= Len(tt)
      BY <1>1
    <3>4. SameUpto(g, h, Len(ss))
      BY <3>1, <3>2, <3>3, PrefixesAgree
    <3> QED
      BY <3>4 DEF SameUpto
  <2>3. n \in 1..n /\ n + 1 # 1
    BY <1>1, <1>5
  <2> QED
    BY <1>2, <1>3, <2>1, <2>2, <2>3 DEF tt
<1> QED
  BY <1>4, <1>5

LEMMA FlattenHeadTail ==
  ASSUME NEW T, NEW ss \in Seq(Seq(T)), ss # <<>>
  PROVE  FlattenSeq(ss) = Head(ss) \o FlattenSeq(Tail(ss))
<1> DEFINE tt == Tail(ss)
           n == Len(tt)
           x == Head(ss)
<1>1. /\ tt \in Seq(Seq(T)) /\ n \in Nat /\ Len(ss) = n + 1 /\ ss[1] = x /\ x \in Seq(T)
      /\ \A i \in 1..n : tt[i] = ss[i + 1]
  OBVIOUS
<1> HIDE DEF tt, x
<1>2. PICK g : PartsJoined(g, ss) /\ FlattenSeq(ss) = g[n + 1]
  BY <1>1, FlattenIsPrefix
<1>3. g[1] = x
  BY <1>1, <1>2 DEF PartsJoined
<1>4. CASE tt = <<>>
  <2>1. x \o FlattenSeq(tt) = x
    BY <1>1, <1>4, FlattenTyped
  <2>2. n + 1 = 1
    BY <1>4
  <2> QED
    BY <1>2, <1>3, <2>1, <2>2 DEF tt, x
<1>5. CASE tt # <<>>
  <2>1. PICK h : PartsJoined(h, tt) /\ FlattenSeq(tt) = h[n]
    BY <1>1, <1>5, FlattenIsPrefix
  <2>2. \A i \in 1..n : h[i] \in Seq(T)
    BY <1>1, <2>1, PrefixesTyped
  <2> DEFINE Good == {i \in Nat : i \in 1..n => g[i + 1] = x \o h[i]}
  <2>3. 0 \in Good
    OBVIOUS
  <2>4. ASSUME NEW i \in Nat, i \in Good
        PROVE  i + 1 \in Good
    <3>1. CASE i + 1 \in 1..n
      <4>1. /\ i + 2 \in 1..Len(ss) /\ (i + 2) - 1 = i + 1 /\ i + 2 # 1
            /\ (i + 1) + 1 = i + 2 /\ (i + 1) - 1 = i
        BY <1>1, <3>1
      <4>2. g[i + 2] = g[i + 1] \o ss[i + 2]
        BY <1>2, <4>1 DEF PartsJoined
      <4>3. ss[i + 2] = tt[i + 1]
        BY <1>1, <3>1, <4>1
      <4>4. tt[i + 1] \in Seq(T)
        BY <1>1, <3>1
      <4>5. h[i + 1] = IF i + 1 = 1 THEN tt[i + 1] ELSE h[i] \o tt[i + 1]
        BY <2>1, <3>1, <4>1 DEF PartsJoined
      <4>6. CASE i = 0
        <5>1. i + 1 = 1
          BY <4>6
        <5>2. g[i + 1] = x
          BY <1>3, <5>1
        <5>3. g[i + 2] = x \o h[i + 1]
          BY <4>2, <4>3, <4>5, <5>1, <5>2
        <5> QED
          BY <4>1, <5>3
      <4>7. CASE i # 0
        <5>1. i \in 1..n /\ i + 1 # 1
          BY <3>1, <4>7
        <5>2. g[i + 1] = x \o h[i]
          BY <2>4, <5>1
        <5>5. h[i] \in Seq(T)
          BY <2>2, <5>1
        <5>3. (x \o h[i]) \o tt[i + 1] = x \o (h[i] \o tt[i + 1])
          <6>1. PICK u, v \in Seq(T) : u = h[i] /\ v = tt[i + 1]
            BY <4>4, <5>5
          <6>2. x \in Seq(T)
            BY <1>1
          <6>3. Grouped(x, u, v)
            BY <6>1, <6>2, Grouping
          <6> QED
            BY <6>1, <6>3 DEF Grouped
        <5>4. g[i + 2] = x \o h[i + 1]
          BY <4>2, <4>3, <4>5, <5>1, <5>2, <5>3
        <5> QED
          BY <4>1, <5>4
      <4> QED
        BY <4>6, <4>7
    <3> QED
      BY <3>1
  <2>5. \A i \in Nat : i \in Good
    <3> HIDE DEF Good
    <3> QED
      BY <2>3, <2>4, Induction
  <2>6. n \in Nat /\ n \in 1..n
    BY <1>1, <1>5
  <2>7. n \in Good
    <3> HIDE DEF Good
    <3> QED
      BY <2>5, <2>6
  <2>8. g[n + 1] = x \o h[n]
    BY <2>6, <2>7
  <2> QED
    BY <1>2, <2>1, <2>8 DEF tt, x
<1> QED
  BY <1>4, <1>5

-----------------------------------------------------------------------------
(***************************************************************************)
(* Agreement.                                                              *)
(***************************************************************************)
\* The bytes of each record of fs: Described(t) is FlattenSeq(Parts(frames[t])).
Parts(fs) == [i \in 1..Len(fs) |-> Bytes(fs[i], fs[i].left)]

LEMMA PartsTyped ==
  ASSUME NEW fs \in Seq(Record)
  PROVE  /\ Parts(fs) \in Seq(Seq(Byte)) /\ Len(Parts(fs)) = Len(fs)
         /\ \A i \in 1..Len(fs) : Parts(fs)[i] = Bytes(fs[i], fs[i].left)
<1>1. \A i \in 1..Len(fs) : fs[i] \in Record
  OBVIOUS
<1>2. \A i \in 1..Len(fs) : Bytes(fs[i], fs[i].left) \in Seq(Byte)
  <2> SUFFICES ASSUME NEW i \in 1..Len(fs) PROVE Bytes(fs[i], fs[i].left) \in Seq(Byte)
    OBVIOUS
  <2>1. PICK r \in Record : r = fs[i]
    BY <1>1
  <2>2. r.id \in Ids /\ r.gen \in 0..MaxSeeks /\ r.left \in Nat
    BY FileAssumption DEF Record
  <2>3. Bytes(r, r.left) \in Seq(Byte)
    BY <2>2, BytesTyped
  <2> QED
    BY <2>1, <2>3
<1> QED
  BY <1>2 DEF Parts

LEMMA PartsAppend ==
  ASSUME NEW fs \in Seq(Record), NEW r \in Record
  PROVE  Parts(Append(fs, r)) = Append(Parts(fs), Bytes(r, r.left))
<1> DEFINE gs == Append(fs, r)
           b == Bytes(r, r.left)
<1>1. /\ gs \in Seq(Record) /\ Len(gs) = Len(fs) + 1 /\ gs[Len(fs) + 1] = r
      /\ \A i \in 1..Len(fs) : gs[i] = fs[i]
  OBVIOUS
<1> HIDE DEF gs
<1>2. b \in Seq(Byte)
  <2>1. r.id \in Ids /\ r.gen \in 0..MaxSeeks /\ r.left \in Nat
    BY FileAssumption DEF Record
  <2> QED
    BY <2>1, BytesTyped
<1>3. /\ Parts(gs) \in Seq(Seq(Byte)) /\ Len(Parts(gs)) = Len(fs) + 1
      /\ Parts(gs)[Len(fs) + 1] = b
      /\ \A i \in 1..Len(fs) : Parts(gs)[i] = Parts(fs)[i]
  <2>1. /\ Parts(gs) \in Seq(Seq(Byte)) /\ Len(Parts(gs)) = Len(gs)
        /\ \A i \in 1..Len(gs) : Parts(gs)[i] = Bytes(gs[i], gs[i].left)
    BY <1>1, PartsTyped
  <2>2. \A i \in 1..Len(fs) : Parts(fs)[i] = Bytes(fs[i], fs[i].left)
    BY PartsTyped
  <2>3. ASSUME NEW i \in 1..Len(fs)
        PROVE  Parts(gs)[i] = Parts(fs)[i]
    <3>1. i \in 1..Len(gs) /\ gs[i] = fs[i]
      BY <1>1
    <3>2. Parts(gs)[i] = Bytes(gs[i], gs[i].left)
      BY <2>1, <3>1
    <3> QED
      BY <2>2, <3>1, <3>2
  <2>4. Parts(gs)[Len(fs) + 1] = b
    <3>1. Len(fs) + 1 \in 1..Len(gs)
      BY <1>1
    <3> QED
      BY <1>1, <2>1, <3>1
  <2> QED
    BY <1>1, <2>1, <2>3, <2>4
<1>4. Parts(fs) \in Seq(Seq(Byte)) /\ Len(Parts(fs)) = Len(fs)
  BY PartsTyped
<1> HIDE DEF b
<1>5. Parts(gs) = Append(Parts(fs), b)
  BY <1>2, <1>3, <1>4
<1> QED
  BY <1>5 DEF gs, b

LEMMA PartsHeadTail ==
  ASSUME NEW fs \in Seq(Record), fs # <<>>
  PROVE  /\ Parts(fs) # <<>> /\ Head(Parts(fs)) = Bytes(Head(fs), Head(fs).left)
         /\ Tail(Parts(fs)) = Parts(Tail(fs))
<1> DEFINE gs == Tail(fs)
<1>1. /\ gs \in Seq(Record) /\ Len(fs) = Len(gs) + 1 /\ Len(gs) \in Nat
      /\ \A i \in 1..Len(gs) : gs[i] = fs[i + 1]
  OBVIOUS
<1>2. /\ Parts(fs) \in Seq(Seq(Byte)) /\ Len(Parts(fs)) = Len(fs)
      /\ \A i \in 1..Len(fs) : Parts(fs)[i] = Bytes(fs[i], fs[i].left)
  BY PartsTyped
<1> HIDE DEF gs
<1>3. /\ Parts(gs) \in Seq(Seq(Byte)) /\ Len(Parts(gs)) = Len(gs)
      /\ \A i \in 1..Len(gs) : Parts(gs)[i] = Bytes(gs[i], gs[i].left)
  BY <1>1, PartsTyped
<1>4. Parts(fs) # <<>> /\ Head(Parts(fs)) = Bytes(Head(fs), Head(fs).left)
  BY <1>1, <1>2
<1>5. Tail(Parts(fs)) = Parts(gs)
  <2> DEFINE ps == Parts(fs)
             qs == Parts(gs)
  <2>1. ASSUME NEW i \in 1..Len(gs)
        PROVE  qs[i] = ps[i + 1]
    <3>1. i + 1 \in 1..Len(fs) /\ gs[i] = fs[i + 1]
      BY <1>1
    <3>2. ps[i + 1] = Bytes(fs[i + 1], fs[i + 1].left)
      BY <1>2, <3>1
    <3>3. qs[i] = Bytes(gs[i], gs[i].left)
      BY <1>3
    <3> QED
      BY <3>1, <3>2, <3>3
  <2>2. ps \in Seq(Seq(Byte)) /\ qs \in Seq(Seq(Byte)) /\ Len(ps) = Len(qs) + 1
        /\ Len(qs) = Len(gs) /\ ps # <<>>
    BY <1>1, <1>2, <1>3, <1>4
  <2> HIDE DEF ps, qs
  <2>3. Tail(ps) = qs
    <3> DEFINE p == Tail(ps)
    <3>1. /\ p \in Seq(Seq(Byte)) /\ Len(p) = Len(ps) - 1
          /\ \A i \in 1..Len(p) : p[i] = ps[i + 1]
      BY <2>2, HeadTailProperties
    <3>2. Len(gs) \in Nat
      BY <1>1
    <3> HIDE DEF p
    <3>3. Len(p) = Len(qs) /\ \A i \in 1..Len(p) : p[i] = qs[i]
      BY <2>1, <2>2, <3>1, <3>2
    <3>4. p = qs
      BY <2>2, <3>1, <3>3, SeqEqual
    <3> QED
      BY <3>4 DEF p
  <2> QED
    BY <2>3 DEF ps, qs
<1> QED
  BY <1>4, <1>5 DEF gs

\* What the records describe when one is added, and of the first one.
LEMMA DescribedAppend ==
  ASSUME NEW fs \in Seq(Record), NEW r \in Record
  PROVE  FlattenSeq(Parts(Append(fs, r))) = FlattenSeq(Parts(fs)) \o Bytes(r, r.left)
<1>1. r.id \in Ids /\ r.gen \in 0..MaxSeeks /\ r.left \in Nat
  BY FileAssumption DEF Record
<1>2. Bytes(r, r.left) \in Seq(Byte) /\ Parts(fs) \in Seq(Seq(Byte))
  BY <1>1, BytesTyped, PartsTyped
<1> QED
  BY <1>2, PartsAppend, FlattenAppend

LEMMA DescribedHead ==
  ASSUME NEW fs \in Seq(Record), fs # <<>>
  PROVE  /\ FlattenSeq(Parts(fs)) = Bytes(Head(fs), Head(fs).left) \o FlattenSeq(Parts(Tail(fs)))
         /\ Bytes(Head(fs), Head(fs).left) \in Seq(Byte)
         /\ FlattenSeq(Parts(Tail(fs))) \in Seq(Byte)
<1>1. Tail(fs) \in Seq(Record) /\ Head(fs) \in Record
  OBVIOUS
<1>2. Parts(fs) \in Seq(Seq(Byte)) /\ Parts(Tail(fs)) \in Seq(Seq(Byte))
  BY <1>1, PartsTyped
<1>3. FlattenSeq(Parts(fs)) = Head(Parts(fs)) \o FlattenSeq(Tail(Parts(fs)))
  BY <1>2, PartsHeadTail, FlattenHeadTail
<1>4. Bytes(Head(fs), Head(fs).left) \in Seq(Byte)
  <2>1. Head(fs).id \in Ids /\ Head(fs).gen \in 0..MaxSeeks /\ Head(fs).left \in Nat
    BY <1>1, FileAssumption DEF Record
  <2> QED
    BY <2>1, BytesTyped
<1> QED
  BY <1>2, <1>3, <1>4, PartsHeadTail, FlattenTyped

LEMMA DescribedTyped ==
  ASSUME NEW fs \in Seq(Record)
  PROVE  FlattenSeq(Parts(fs)) \in Seq(Byte) /\ FlattenSeq(Parts(<<>>)) = <<>>
<1>1. Parts(<<>>) = <<>> /\ Parts(fs) \in Seq(Seq(Byte))
  BY PartsTyped DEF Parts
<1> QED
  BY <1>1, FlattenTyped

\* Reading n bytes of a frame leaves the others.
LEMMA BytesCut ==
  ASSUME NEW f \in Record, NEW g \in Record, f.id = g.id, f.gen = g.gen,
         NEW n \in Nat, NEW m \in Nat, n <= m, NEW rs \in Seq(Byte)
  PROVE  SubSeq(Bytes(f, m) \o rs, n + 1, Len(Bytes(f, m) \o rs)) = Bytes(g, m - n) \o rs
<1> DEFINE b == Bytes(f, m)
           d == Bytes(g, m - n)
           u == b \o rs
           v == d \o rs
           w == SubSeq(u, n + 1, Len(u))
<1>0. f.id \in Ids /\ f.gen \in 0..MaxSeeks /\ g.id \in Ids /\ g.gen \in 0..MaxSeeks
  BY DEF Record
<1>1. m - n \in Nat
  OBVIOUS
<1>2. b \in Seq(Byte) /\ Len(b) = m /\ d \in Seq(Byte) /\ Len(d) = m - n
  BY <1>0, <1>1, BytesTyped
<1>3. \A i \in 1..(m - n) : d[i] = b[n + i]
  BY <1>1 DEF Bytes
<1> HIDE DEF b, d
<1>4. /\ u \in Seq(Byte) /\ Len(u) = m + Len(rs)
      /\ \A i \in 1..(m + Len(rs)) : u[i] = IF i <= m THEN b[i] ELSE rs[i - m]
  BY <1>2, ConcatProperties
<1>5. /\ v \in Seq(Byte) /\ Len(v) = (m - n) + Len(rs)
      /\ \A i \in 1..((m - n) + Len(rs)) :
           v[i] = IF i <= m - n THEN d[i] ELSE rs[i - (m - n)]
  <2> DEFINE k == m - n
  <2>1. k \in Nat /\ d \in Seq(Byte) /\ Len(d) = k
    BY <1>1, <1>2
  <2> HIDE DEF k
  <2>2. /\ v \in Seq(Byte) /\ Len(v) = k + Len(rs)
        /\ \A i \in 1..(k + Len(rs)) : v[i] = IF i <= k THEN d[i] ELSE rs[i - k]
    BY <2>1, ConcatProperties
  <2> QED
    BY <2>2 DEF k
<1>6. Len(rs) \in Nat
  OBVIOUS
<1> HIDE DEF u, v
<1>7. /\ w \in Seq(Byte) /\ Len(w) = Len(u) - n
      /\ \A i \in 1..(Len(u) - n) : w[i] = u[n + i]
  <2>1. n <= Len(u)
    BY <1>4, <1>6
  <2> QED
    BY <1>4, <2>1, Halves
<1> HIDE DEF w
<1>8. Len(w) = Len(v)
  BY <1>4, <1>5, <1>6, <1>7
<1>9. ASSUME NEW i \in 1..Len(w)
      PROVE  w[i] = v[i]
  <2>1. /\ i \in 1..(Len(u) - n) /\ n + i \in 1..(m + Len(rs))
        /\ i \in 1..((m - n) + Len(rs))
    BY <1>4, <1>6, <1>7
  <2>2. w[i] = IF n + i <= m THEN b[n + i] ELSE rs[(n + i) - m]
    BY <1>4, <1>7, <2>1
  <2>3. v[i] = IF i <= m - n THEN d[i] ELSE rs[i - (m - n)]
    BY <1>5, <2>1
  <2>4. (n + i) - m = i - (m - n) /\ (n + i <= m <=> i <= m - n)
    BY <2>1
  <2>5. i <= m - n => d[i] = b[n + i]
    BY <1>3, <2>1
  <2> QED
    BY <2>2, <2>3, <2>4, <2>5
<1>10. w = v
  BY <1>5, <1>7, <1>8, <1>9, SeqEqual
<1> QED
  BY <1>10 DEF w, v, u, b, d

\* The places where a frame's bytes are in the ring but its record is not in
\* the cache; and those after handle_frame has looked its extractor up.
InPush == {"push", "cacheWait", "cacheWoken"}
Behind == InFrame \ {"unskip", "unskipTime", "write"}

\* While a track has an extractor without a ring, it is empty, and the demux
\* thread, if it is at work on that track, is so in the extractor it had before.
Halfway ==
  cpc # "crashed" => \A t \in half :
    ring[t] = <<>> /\ frames[t] = <<>> /\ (dpc \in Behind /\ Cur.track = t => orphan.on)

\* The client pops a record only when it has taken all of its bytes.
Used == cpc = "pop" => Head(frames[ctrack]).left = 0

Joint == Agreement /\ open \cap half = {} /\ Halfway /\ Used

LEMMA DescribedIsFlat ==
  \A t : Described(t) = FlattenSeq(Parts(frames[t])) /\ Described(t)' = FlattenSeq(Parts(frames'[t]))
BY DEF Described, Parts

LEMMA InFlightTyped ==
  ASSUME TypeOK, Control, NEW t
  PROVE  InFlight(t) \in Seq(Byte)
<1>1. CASE dpc \in InPush
  <2>1. dpc \in InFrame
    BY <1>1 DEF InPush, InFrame, Holding
  <2>2. Cur.id \in Ids /\ Cur.gen \in 0..MaxSeeks /\ Cur.size \in 1..RingCap
    BY <2>1, CurTyped
  <2>3. Cur.size \in Nat
    BY <2>2, FileAssumption
  <2>4. Bytes(Cur, Cur.size) \in Seq(Byte)
    BY <2>2, <2>3, BytesTyped
  <2> QED
    BY <2>4 DEF InFlight
<1>2. CASE dpc \notin InPush
  BY <1>2 DEF InFlight, InPush
<1> QED
  BY <1>1, <1>2

LEMMA InitJoint == Init => Joint
<1> SUFFICES ASSUME Init PROVE Joint
  OBVIOUS
<1>1. FlattenSeq(Parts(<<>>)) = <<>>
  <2>1. <<>> \in Seq(Record)
    OBVIOUS
  <2> QED
    BY <2>1, DescribedTyped
<1>2. \A t \in open : ring[t] = Described(t) \o InFlight(t)
  <2> SUFFICES ASSUME NEW t \in open PROVE ring[t] = Described(t) \o InFlight(t)
    OBVIOUS
  <2>1. t \in Tracks
    BY InitTyped DEF Typed, TypeOK
  <2>2. ring[t] = <<>> /\ frames[t] = <<>> /\ InFlight(t) = <<>>
    BY <2>1 DEF Init, InFlight
  <2> QED
    BY <1>1, <2>2, DescribedIsFlat
<1> QED
  BY <1>2 DEF Init, Joint, Agreement, Halfway, Used

\* Steps that do not touch the buffers, or the opened tracks.
JointSame ==
  /\ UNCHANGED <<ring, frames, open, half, orphan>>
  /\ dpc' \in InPush <=> dpc \in InPush
  /\ dpc' \in Behind => todo' = todo /\ (dpc \in Behind \/ Writing)
  /\ Settled' => Settled
  /\ cpc' = "pop" => cpc = "pop" /\ ctrack' = ctrack
  /\ cpc' # "crashed" => cpc # "crashed"

LEMMA SameInFlight ==
  ASSUME orphan' = orphan, dpc' \in InPush <=> dpc \in InPush,
         dpc' \in InPush => todo' = todo
  PROVE  \A t : InFlight(t)' = InFlight(t)
BY DEF InFlight, InPush, Cur

LEMMA SameJoint == Joint /\ JointSame => Joint'
<1> SUFFICES ASSUME Joint, JointSame PROVE Joint'
  OBVIOUS
<1>1. \A t : InFlight(t)' = InFlight(t)
  <2>1. InPush \subseteq Behind
    BY DEF InPush, Behind, InFrame, Holding
  <2> QED
    BY <2>1, SameInFlight DEF JointSame
<1>2. \A t : Described(t)' = Described(t)
  BY DescribedIsFlat DEF JointSame
<1>3. Agreement'
  BY <1>1, <1>2 DEF Joint, JointSame, Agreement
<1>4. Halfway'
  <2> SUFFICES ASSUME cpc' # "crashed", NEW t \in half'
               PROVE  /\ ring'[t] = <<>> /\ frames'[t] = <<>>
                      /\ dpc' \in Behind /\ Cur'.track = t => orphan'.on
    BY DEF Halfway
  <2>1. /\ ring[t] = <<>> /\ frames[t] = <<>> /\ t \notin open
        /\ dpc \in Behind /\ Cur.track = t => orphan.on
    BY DEF Joint, JointSame, Halfway
  <2>2. dpc' \in Behind => Cur' = Cur /\ (dpc \in Behind \/ Cur.track \in open \/ orphan.on)
    BY DEF JointSame, Writing, Cur
  <2> QED
    BY <2>1, <2>2 DEF JointSame
<1> QED
  BY <1>3, <1>4 DEF Joint, JointSame, Used

LEMMA CrashJoint == Joint /\ Crash => Joint'
BY DEF Joint, Crash, Agreement, Settled, Halfway, Used, tracks

LEMMA WriteStoreJoint ==
  ASSUME TypeOK, Control, Joint, DWriteStore
  PROVE  Joint'
<1> DEFINE t == Cur.track
           b == Bytes(Cur, Cur.size)
           x == ring[t] \o b
<1>1. /\ dpc = "write" /\ dpc' = "push" /\ (t \in open \/ orphan.on)
      /\ UNCHANGED <<frames, open, half, orphan, todo, cpc, ctrack>>
      /\ ring' = IF orphan.on THEN ring ELSE [ring EXCEPT ![t] = x]
      /\ Cur' = Cur
  BY DEF DWriteStore, Writing, tracks, call, Cur
<1>2. t \in Tracks /\ ring \in [Tracks -> Seq(Byte)] /\ frames \in [Tracks -> Seq(Record)]
      /\ open \subseteq Tracks
  <2>1. dpc \in InFrame
    BY <1>1 DEF InFrame, Holding
  <2> QED
    BY <2>1, CurTyped DEF TypeOK
<1>3. Settled' <=> Settled
  BY <1>1 DEF Settled
<1>4. Agreement'
  <2> SUFFICES ASSUME Settled, NEW u \in open PROVE (ring[u] = Described(u) \o InFlight(u))'
    BY <1>1, <1>3 DEF Agreement
  <2>1. ring[u] = Described(u) \o InFlight(u) /\ u \in Tracks
    BY <1>2 DEF Joint, Agreement
  <2>2. InFlight(u) = <<>> /\ Described(u)' = Described(u) /\ Described(u) \in Seq(Byte)
    <3>1. frames[u] \in Seq(Record)
      BY <1>2, <2>1
    <3> QED
      BY <1>1, <3>1, DescribedIsFlat, DescribedTyped DEF InFlight
  <2>3. ring[u] = Described(u)
    BY <2>1, <2>2
  <2>4. CASE u = t /\ ~orphan.on
    <3>1. InFlight(u)' = b
      BY <1>1, <2>4 DEF InFlight
    <3>2. ring'[u] = x
      <4> HIDE DEF x, t
      <4> QED
        BY <1>1, <1>2, <2>1, <2>4
    <3> QED
      BY <2>2, <2>3, <2>4, <3>1, <3>2
  <2>5. CASE u # t \/ orphan.on
    <3>1. InFlight(u)' = <<>>
      BY <1>1, <2>5 DEF InFlight
    <3>2. ring'[u] = ring[u]
      <4> HIDE DEF x, t
      <4> QED
        BY <1>1, <1>2, <2>1, <2>5
    <3> QED
      BY <2>2, <2>3, <3>1, <3>2
  <2> QED
    BY <2>4, <2>5
<1>5. Halfway'
  <2> SUFFICES ASSUME cpc # "crashed", NEW u \in half
               PROVE  ring'[u] = <<>> /\ frames'[u] = <<>> /\ (t = u => orphan.on)
    BY <1>1 DEF Halfway
  <2>1. ring[u] = <<>> /\ frames[u] = <<>> /\ u \notin open
    BY DEF Joint, Halfway
  <2>2. ring'[u] = ring[u]
    <3>1. CASE orphan.on
      BY <1>1, <3>1
    <3>2. CASE ~orphan.on
      <4>1. u # t /\ ring' = [ring EXCEPT ![t] = x]
        BY <1>1, <2>1, <3>2
      <4>2. u \in Tracks
        BY DEF TypeOK
      <4> HIDE DEF x, t
      <4> QED
        BY <1>2, <4>1, <4>2
    <3> QED
      BY <3>1, <3>2
  <2> QED
    BY <1>1, <2>1, <2>2
<1> QED
  BY <1>1, <1>4, <1>5 DEF Joint, Used

LEMMA PushStoreJoint ==
  ASSUME TypeOK, Control, Joint, DPushStore
  PROVE  Joint'
<1> DEFINE t == Cur.track
           r == [id |-> Cur.id, gen |-> Cur.gen, left |-> Cur.size,
                 pts |-> Cur.tick * NsPerTick]
           x == Append(frames[t], r)
<1>1. /\ dpc \in InPush /\ dpc' = "block" /\ orphan' = NoOrphan
      /\ UNCHANGED <<ring, open, half, cpc, ctrack>>
      /\ frames' = IF orphan.on THEN frames ELSE [frames EXCEPT ![t] = x]
  BY DEF DPushStore, Pushing, InPush, call
<1>2. dpc \in InFrame /\ dpc \in Behind
  BY <1>1 DEF InPush, Behind, InFrame, Holding
<1>3. t \in Tracks /\ ring \in [Tracks -> Seq(Byte)] /\ frames \in [Tracks -> Seq(Record)]
      /\ open \subseteq Tracks /\ half \subseteq Tracks
  BY <1>2, CurTyped DEF TypeOK
<1>4. r \in Record
  <2>1. /\ Cur.tick \in Nat /\ Cur.size \in 1..RingCap /\ Cur.id \in Ids
        /\ Cur.gen \in 0..MaxSeeks
    BY <1>2, CurTyped
  <2>2. Cur.tick * NsPerTick \in Nat /\ Cur.size \in 0..RingCap
    BY <2>1, FileAssumption
  <2> QED
    BY <2>1, <2>2 DEF Record
<1>5. Bytes(r, r.left) = Bytes(Cur, Cur.size)
  BY DEF Bytes
<1>6. Settled' <=> Settled
  BY <1>1 DEF Settled
<1>7. Agreement'
  <2> SUFFICES ASSUME Settled, NEW u \in open PROVE (ring[u] = Described(u) \o InFlight(u))'
    BY <1>1, <1>6 DEF Agreement
  <2>1. ring[u] = Described(u) \o InFlight(u) /\ u \in Tracks
    BY <1>3 DEF Joint, Agreement
  <2>2. InFlight(u)' = <<>>
    BY <1>1 DEF InFlight
  <2>3. Described(u)' = Described(u) \o InFlight(u) /\ Described(u)' \in Seq(Byte)
    <3>1. CASE u = t /\ ~orphan.on
      <4>1. InFlight(u) = Bytes(r, r.left)
        BY <1>1, <1>5, <3>1 DEF InFlight, InPush
      <4>2. frames[t] \in Seq(Record)
        BY <1>3
      <4>3. frames'[u] = x
        <5> HIDE DEF x, t
        <5> QED
          BY <1>1, <1>3, <3>1
      <4> HIDE DEF r, t
      <4>4. x \in Seq(Record)
        BY <1>4, <4>2
      <4>5. FlattenSeq(Parts(x)) = FlattenSeq(Parts(frames[t])) \o Bytes(r, r.left)
        BY <1>4, <4>2, DescribedAppend
      <4>6. Described(u)' = FlattenSeq(Parts(x)) /\ Described(u) = FlattenSeq(Parts(frames[t]))
        <5> HIDE DEF x
        <5> QED
          BY <3>1, <4>3, DescribedIsFlat
      <4> HIDE DEF x
      <4> QED
        BY <4>1, <4>4, <4>5, <4>6, DescribedTyped
    <3>2. CASE u # t \/ orphan.on
      <4>1. InFlight(u) = <<>>
        BY <3>2 DEF InFlight
      <4>2. frames'[u] = frames[u] /\ frames[u] \in Seq(Record)
        <5> HIDE DEF x, t
        <5> QED
          BY <1>1, <1>3, <2>1, <3>2
      <4>3. Described(u)' = Described(u) /\ Described(u) \in Seq(Byte)
        BY <4>2, DescribedIsFlat, DescribedTyped
      <4> QED
        BY <4>1, <4>3
    <3> QED
      BY <3>1, <3>2
  <2> QED
    BY <1>1, <2>1, <2>2, <2>3
<1>8. Halfway'
  <2> SUFFICES ASSUME cpc # "crashed", NEW u \in half
               PROVE  ring'[u] = <<>> /\ frames'[u] = <<>>
    BY <1>1 DEF Halfway, Behind, InFrame, Holding
  <2>1. ring[u] = <<>> /\ frames[u] = <<>> /\ (t = u => orphan.on)
    BY <1>2 DEF Joint, Halfway
  <2>2. frames'[u] = frames[u]
    <3> HIDE DEF x, t
    <3> QED
      BY <1>1, <1>3, <2>1
  <2> QED
    BY <1>1, <2>1, <2>2
<1>9. Used'
  <2> SUFFICES ASSUME cpc = "pop" PROVE Head(frames'[ctrack]).left = 0
    BY <1>1 DEF Used
  <2>1. /\ ctrack \in Tracks /\ frames[ctrack] \in Seq(Record) /\ frames[ctrack] # <<>>
        /\ Head(frames[ctrack]).left = 0
    BY <1>3 DEF Control, GetPlaces, TypeOK, Joint, Used
  <2>2. Head(Append(frames[ctrack], r)) = Head(frames[ctrack])
    <3> HIDE DEF r
    <3> QED
      BY <1>4, <2>1
  <2>3. frames'[ctrack] = frames[ctrack] \/ frames'[ctrack] = Append(frames[ctrack], r)
    <3> HIDE DEF r, t
    <3> QED
      BY <1>1, <1>3, <2>1
  <2> QED
    BY <2>1, <2>2, <2>3
<1> QED
  BY <1>1, <1>7, <1>8, <1>9 DEF Joint

LEMMA DemuxJoint == Typed /\ Joint /\ DemuxStep => Joint'
<1> SUFFICES ASSUME Typed, Joint, DemuxStep PROVE Joint'
  OBVIOUS
<1>0. TypeOK /\ Control
  BY DEF Typed
<1>1. CASE DWriteStore
  BY <1>0, <1>1, WriteStoreJoint
<1>2. CASE DPushStore
  BY <1>0, <1>2, PushStoreJoint
<1>3. CASE DLockReleased \/ DWriteHalf
  BY <1>3, CrashJoint DEF DLockReleased, DWriteHalf
<1> USE DEF JointSame, InPush, Behind, InFrame, Holding, Settled, tracks, bufs, call
<1>4. CASE DCheck \/ DSwitch \/ DLock \/ DLeave \/ DDrop \/ DTake
  <2>1. JointSame
    BY <1>4 DEF DCheck, DSwitch, DLock, DLeave, DDrop, DTake
  <2> QED
    BY <2>1, SameJoint
<1>5. CASE DUnskip \/ DUnskipTime \/ DWriteFull \/ DUnlock
  <2>1. JointSame
    BY <1>5 DEF DUnskip, DUnskipTime, DWriteFull, Writing, DUnlock
  <2> QED
    BY <2>1, SameJoint
<1>6. CASE DAnnounce
  <2>1. JointSame
    BY <1>6 DEF DAnnounce, ResetPlaces
  <2> QED
    BY <2>1, SameJoint
<1>7. CASE DRelock \/ DPushWait
  <2>1. JointSame
    BY <1>7 DEF DRelock, DPushWait, Pushing
  <2> QED
    BY <2>1, SameJoint
<1> QED
  BY <1>1, <1>2, <1>3, <1>4, <1>5, <1>6, <1>7 DEF DemuxStep

\* Waking the demux thread leaves its frame in hand, or takes it into none.
LEMMA WakeKeeps ==
  ASSUME NEW wake, NEW t, UNCHANGED <<todo, orphan>>,
         \/ Wake(wake, "ringWait", t, "write")
         \/ Wake(wake, "cacheWait", t, "cacheWoken")
  PROVE  /\ \A u : InFlight(u)' = InFlight(u)
         /\ dpc' \in Behind => dpc \in Behind /\ Cur' = Cur
<1>1. /\ dpc' \in InPush <=> dpc \in InPush
      /\ dpc' \in Behind => dpc \in Behind
  BY DEF Wake, At, InPush, Behind, InFrame, Holding
<1>2. Cur' = Cur
  BY DEF Cur
<1> QED
  BY <1>1, <1>2, SameInFlight

LEMMA GetReadJoint ==
  ASSUME TypeOK, Control, Joint, GetRead
  PROVE  Joint'
<1>0. PICK c \in Tracks : c = ctrack
  BY ReadFacts DEF GetRead
<1> DEFINE took == IF room < NextSize THEN room ELSE NextSize
           left == SubSeq(ring[c], took + 1, Len(ring[c]))
           fst == frames[c][1]
           lft == Shrunk(fst, took)
           fs == [frames[c] EXCEPT ![1] = lft]
<1>1. /\ c \in Tracks /\ ring[c] \in Seq(Byte)
      /\ frames[c] \in Seq(Record) /\ 1 \in DOMAIN frames[c] /\ fst \in Record
      /\ fst = Head(frames[c]) /\ fst.left = NextSize
      /\ took \in Nat /\ took <= NextSize /\ NextSize \in 0..RingCap /\ frames[c] # <<>>
  BY <1>0, ReadFacts DEF GetRead
<1>2. NextSize \in Nat /\ NextSize - took \in 0..RingCap /\ NextSize - took \in Nat
  BY <1>1, FileAssumption
<1>3. /\ ring' = [ring EXCEPT ![c] = left] /\ frames' = [frames EXCEPT ![c] = fs]
      /\ UNCHANGED <<open, half, orphan, todo, ctrack>> /\ cpc = "get"
      /\ cpc' = IF took = NextSize THEN "pop" ELSE "next"
  BY <1>0 DEF GetRead, tracks
<1>4. lft \in Record /\ lft.id = fst.id /\ lft.gen = fst.gen /\ lft.left = NextSize - took
  <2> HIDE DEF took, fst
  <2> QED
    BY <1>1, <1>2 DEF Shrunk, Record
<1>5. /\ fs \in Seq(Record) /\ fs # <<>> /\ Head(fs) = lft /\ Tail(fs) = Tail(frames[c])
  <2> HIDE DEF lft
  <2>1. /\ fs \in Seq(Record) /\ Len(fs) = Len(frames[c])
        /\ \A i \in 1..Len(frames[c]) : fs[i] = IF i = 1 THEN lft ELSE frames[c][i]
    BY <1>1, <1>4
  <2>2. Len(frames[c]) \in Nat /\ Len(frames[c]) > 0
    BY <1>1
  <2> HIDE DEF fs
  <2>3. fs # <<>> /\ Head(fs) = lft
    BY <2>1, <2>2
  <2>4. Tail(fs) = Tail(frames[c])
    <3> DEFINE p == Tail(fs)
               q == Tail(frames[c])
    <3>1. /\ p \in Seq(Record) /\ Len(p) = Len(frames[c]) - 1
          /\ \A i \in 1..Len(p) : p[i] = fs[i + 1]
      BY <2>1, <2>3, HeadTailProperties
    <3>2. /\ q \in Seq(Record) /\ Len(q) = Len(frames[c]) - 1
          /\ \A i \in 1..Len(q) : q[i] = frames[c][i + 1]
      BY <1>1, HeadTailProperties
    <3> HIDE DEF p, q
    <3>3. ASSUME NEW i \in 1..Len(p)
          PROVE  p[i] = q[i]
      <4>1. i + 1 \in 1..Len(frames[c]) /\ i + 1 # 1 /\ i \in 1..Len(q)
        BY <2>2, <3>1, <3>2
      <4> QED
        BY <2>1, <3>1, <3>2, <4>1
    <3>4. p = q
      BY <3>1, <3>2, <3>3, SeqEqual
    <3> QED
      BY <3>4 DEF p, q
  <2> QED
    BY <2>1, <2>3, <2>4
<1>6. /\ \A u : InFlight(u)' = InFlight(u)
      /\ dpc' \in Behind => dpc \in Behind /\ Cur' = Cur
  BY <1>3, WakeKeeps DEF GetRead, FreeAvailable
<1>7. Settled' /\ Settled
  BY <1>3 DEF Settled, ResetPlaces
<1>8. /\ \A u \in Tracks : u # c => ring'[u] = ring[u] /\ frames'[u] = frames[u]
      /\ ring'[c] = left /\ frames'[c] = fs
  <2>1. ring \in [Tracks -> Seq(Byte)] /\ frames \in [Tracks -> Seq(Record)]
    BY DEF TypeOK
  <2> HIDE DEF left, fs
  <2> QED
    BY <1>1, <1>3, <2>1
<1>9. Agreement'
  <2> SUFFICES ASSUME NEW u \in open PROVE (ring[u] = Described(u) \o InFlight(u))'
    BY <1>3 DEF Agreement
  <2>1. ring[u] = Described(u) \o InFlight(u) /\ u \in Tracks
    BY <1>7 DEF Joint, Agreement, TypeOK
  <2>2. CASE u # c
    <3>1. Described(u)' = Described(u)
      BY <1>8, <2>1, <2>2, DescribedIsFlat
    <3> QED
      BY <1>6, <1>8, <2>1, <2>2, <3>1
  <2>3. CASE u = c
    <3> DEFINE rest2 == FlattenSeq(Parts(Tail(frames[c])))
               fly == InFlight(c)
               after == rest2 \o fly
               b == Bytes(fst, NextSize)
               d == Bytes(lft, NextSize - took)
    <3>1. /\ Described(c) = b \o rest2 /\ b \in Seq(Byte) /\ rest2 \in Seq(Byte)
      <4> DEFINE gs == frames[c]
      <4>1. Described(c) = FlattenSeq(Parts(gs))
        BY DescribedIsFlat
      <4>2. gs \in Seq(Record) /\ gs # <<>> /\ fst = Head(gs) /\ fst.left = NextSize
        BY <1>1
      <4> HIDE DEF gs, fst
      <4>3. /\ FlattenSeq(Parts(gs)) = Bytes(Head(gs), Head(gs).left) \o FlattenSeq(Parts(Tail(gs)))
            /\ Bytes(Head(gs), Head(gs).left) \in Seq(Byte)
            /\ FlattenSeq(Parts(Tail(gs))) \in Seq(Byte)
        BY <4>2, DescribedHead
      <4>4. Bytes(Head(gs), Head(gs).left) = b
        BY <4>2
      <4>5. FlattenSeq(Parts(Tail(gs))) = rest2
        BY DEF gs
      <4> QED
        BY <4>1, <4>3, <4>4, <4>5
    <3>2. /\ Described(c)' = d \o rest2 /\ d \in Seq(Byte)
      <4>1. Described(c)' = FlattenSeq(Parts(fs))
        BY <1>8, DescribedIsFlat
      <4>2. /\ FlattenSeq(Parts(fs)) = Bytes(lft, lft.left) \o FlattenSeq(Parts(Tail(fs)))
            /\ Bytes(lft, lft.left) \in Seq(Byte)
        <5> HIDE DEF fs, lft
        <5> QED
          BY <1>5, DescribedHead
      <4> HIDE DEF fs, lft, took
      <4> QED
        BY <1>4, <1>5, <4>1, <4>2
    <3>3. fly \in Seq(Byte)
      BY InFlightTyped
    <3>4. after \in Seq(Byte)
      BY <3>1, <3>3, ConcatProperties
    <3> HIDE DEF rest2, fly, b, d
    <3>5. ring[c] = b \o after
      <4>1. ring[c] = (b \o rest2) \o fly
        BY <2>1, <2>3, <3>1 DEF fly
      <4>2. Grouped(b, rest2, fly)
        BY <3>1, <3>3, Grouping
      <4> QED
        BY <4>1, <4>2 DEF Grouped
    <3>6. left = d \o after
      <4> HIDE DEF took, fst, lft, after
      <4>1. SubSeq(Bytes(fst, NextSize) \o after, took + 1, Len(Bytes(fst, NextSize) \o after))
              = Bytes(lft, NextSize - took) \o after
        <5>1. took \in Nat /\ NextSize \in Nat /\ took <= NextSize /\ after \in Seq(Byte)
          BY <1>1, <1>2, <3>4
        <5>2. fst \in Record /\ lft \in Record /\ fst.id = lft.id /\ fst.gen = lft.gen
          BY <1>1, <1>4
        <5> QED
          BY <5>1, <5>2, BytesCut
      <4>2. Bytes(fst, NextSize) \o after = ring[c]
        BY <3>5 DEF b
      <4>3. Bytes(lft, NextSize - took) \o after = d \o after
        BY DEF d
      <4> DEFINE whole == Bytes(fst, NextSize) \o after
                 cut == Bytes(lft, NextSize - took) \o after
      <4>4. SubSeq(whole, took + 1, Len(whole)) = cut
        BY <4>1
      <4>5. whole = ring[c] /\ cut = d \o after
        BY <4>2, <4>3
      <4> HIDE DEF whole, cut
      <4> QED
        BY <4>4, <4>5
    <3>7. d \o after = (d \o rest2) \o fly
      <4>1. d \in Seq(Byte) /\ rest2 \in Seq(Byte) /\ fly \in Seq(Byte)
        BY <3>1, <3>2, <3>3
      <4>2. Grouped(d, rest2, fly)
        BY <4>1, Grouping
      <4> QED
        BY <4>2 DEF Grouped
    <3>8. InFlight(c)' = fly
      BY <1>6 DEF fly
    <3>9. ring'[c] = left
      BY <1>8
    <3> HIDE DEF left, after
    <3>10. ring'[c] = Described(c)' \o InFlight(c)'
      BY <3>2, <3>6, <3>7, <3>8, <3>9
    <3> QED
      BY <2>3, <3>10
  <2> QED
    BY <2>2, <2>3
<1>10. Halfway'
  <2> SUFFICES ASSUME NEW u \in half
               PROVE  /\ ring'[u] = <<>> /\ frames'[u] = <<>>
                      /\ dpc' \in Behind /\ Cur'.track = u => orphan'.on
    BY <1>3 DEF Halfway
  <2>1. /\ ring[u] = <<>> /\ frames[u] = <<>> /\ u \in Tracks
        /\ dpc \in Behind /\ Cur.track = u => orphan.on
    BY <1>3 DEF Joint, Halfway, TypeOK
  <2>2. u # c
    BY <1>1, <2>1
  <2> QED
    BY <1>3, <1>6, <1>8, <2>1, <2>2
<1>11. Used'
  <2> SUFFICES ASSUME cpc' = "pop" PROVE Head(frames'[c]).left = 0
    BY <1>0, <1>3 DEF Used
  <2>1. took = NextSize
    BY <1>3
  <2>2. lft.left = 0
    <3> HIDE DEF lft, took
    <3> QED
      BY <1>2, <1>4, <2>1
  <2> HIDE DEF lft, fs
  <2> QED
    BY <1>5, <1>8, <2>2
<1> QED
  BY <1>3, <1>9, <1>10, <1>11 DEF Joint

LEMMA GetPopJoint ==
  ASSUME TypeOK, Control, Joint, GetPop
  PROVE  Joint'
<1>0. PICK c \in Tracks : c = ctrack
  <2>1. ctrack \in Tracks
    BY DEF GetPop, Control, GetPlaces, TypeOK
  <2> QED
    BY <2>1
<1>1. /\ c \in Tracks /\ frames[c] \in Seq(Record) /\ frames[c] # <<>>
      /\ Head(frames[c]).left = 0
  BY <1>0 DEF GetPop, Control, GetPlaces, TypeOK, Joint, Used
<1>2. /\ frames' = [frames EXCEPT ![c] = Tail(frames[c])]
      /\ UNCHANGED <<ring, open, half, orphan, todo>> /\ cpc = "pop" /\ cpc' = "next"
  BY <1>0 DEF GetPop, tracks
<1>3. /\ \A u : InFlight(u)' = InFlight(u)
      /\ dpc' \in Behind => dpc \in Behind /\ Cur' = Cur
  BY <1>2, WakeKeeps DEF GetPop
<1>4. Settled
  BY <1>2 DEF Settled, ResetPlaces
<1>5. /\ \A u \in Tracks : u # c => frames'[u] = frames[u]
      /\ frames'[c] = Tail(frames[c])
  BY <1>1, <1>2 DEF TypeOK
<1>6. Described(c)' = Described(c)
  <2> DEFINE tl == FlattenSeq(Parts(Tail(frames[c])))
  <2>1. Described(c) = Bytes(Head(frames[c]), 0) \o tl /\ tl \in Seq(Byte)
    <3> DEFINE fs == frames[c]
    <3>1. Described(c) = FlattenSeq(Parts(fs))
      BY DescribedIsFlat
    <3>2. fs \in Seq(Record) /\ fs # <<>> /\ Head(fs).left = 0
      BY <1>1
    <3> HIDE DEF fs
    <3>3. /\ FlattenSeq(Parts(fs))
                = Bytes(Head(fs), Head(fs).left) \o FlattenSeq(Parts(Tail(fs)))
          /\ FlattenSeq(Parts(Tail(fs))) \in Seq(Byte)
      BY <3>2, DescribedHead
    <3> QED
      BY <3>1, <3>2, <3>3 DEF fs
  <2>2. Bytes(Head(frames[c]), 0) = <<>>
    BY DEF Bytes
  <2>3. Described(c)' = tl
    BY <1>5, DescribedIsFlat
  <2> HIDE DEF tl
  <2> QED
    BY <2>1, <2>2, <2>3
<1>7. Agreement'
  <2> SUFFICES ASSUME NEW u \in open PROVE (ring[u] = Described(u) \o InFlight(u))'
    BY <1>2 DEF Agreement
  <2>1. ring[u] = Described(u) \o InFlight(u) /\ u \in Tracks
    BY <1>4 DEF Joint, Agreement, TypeOK
  <2>2. Described(u)' = Described(u)
    <3>1. CASE u = c
      BY <1>6, <3>1
    <3>2. CASE u # c
      <4>1. frames'[u] = frames[u]
        BY <1>5, <2>1, <3>2
      <4> QED
        BY <4>1, DescribedIsFlat
    <3> QED
      BY <3>1, <3>2
  <2> QED
    BY <1>2, <1>3, <2>1, <2>2
<1>8. Halfway'
  <2> SUFFICES ASSUME NEW u \in half
               PROVE  /\ ring'[u] = <<>> /\ frames'[u] = <<>>
                      /\ dpc' \in Behind /\ Cur'.track = u => orphan'.on
    BY <1>2 DEF Halfway
  <2>1. /\ ring[u] = <<>> /\ frames[u] = <<>> /\ u \in Tracks
        /\ dpc \in Behind /\ Cur.track = u => orphan.on
    BY <1>2 DEF Joint, Halfway, TypeOK
  <2> QED
    BY <1>1, <1>2, <1>3, <1>5, <2>1
<1> QED
  BY <1>2, <1>7, <1>8 DEF Joint, Used

LEMMA OpenJoint ==
  ASSUME TypeOK, Joint, NEW t \in Tracks, CallOpen(t)
  PROVE  Joint'
<1>1. /\ half' = {t} /\ open' = open \ {t} /\ cpc = "idle" /\ cpc' = "create"
      /\ ring' = [ring EXCEPT ![t] = <<>>] /\ frames' = [frames EXCEPT ![t] = <<>>]
      /\ UNCHANGED <<dpc, todo>> /\ Cur' = Cur
      /\ orphan' = IF InHand(t)
                   THEN [on |-> TRUE, bytes |-> Len(ring[t]), records |-> Len(frames[t])]
                   ELSE orphan
  BY DEF CallOpen, demux, Cur
<1>2. /\ \A u \in Tracks : u # t => ring'[u] = ring[u] /\ frames'[u] = frames[u]
      /\ ring'[t] = <<>> /\ frames'[t] = <<>>
  BY <1>1 DEF TypeOK
<1>3. Settled
  BY <1>1 DEF Settled, ResetPlaces
<1>4. Agreement'
  <2> SUFFICES ASSUME NEW u \in open, u # t PROVE (ring[u] = Described(u) \o InFlight(u))'
    BY <1>1 DEF Agreement
  <2>1. ring[u] = Described(u) \o InFlight(u) /\ u \in Tracks
    BY <1>3 DEF Joint, Agreement, TypeOK
  <2>2. InFlight(u)' = InFlight(u)
    BY <1>1 DEF InFlight, InHand
  <2>3. Described(u)' = Described(u)
    BY <1>2, <2>1, DescribedIsFlat
  <2> QED
    BY <1>2, <2>1, <2>2, <2>3
<1>5. Halfway'
  <2>1. dpc' \in Behind /\ Cur'.track = t => orphan'.on
    BY <1>1 DEF InHand, Behind, InFrame
  <2> QED
    BY <1>1, <1>2, <2>1 DEF Halfway
<1> QED
  BY <1>1, <1>4, <1>5 DEF Joint, Used

LEMMA CreateJoint ==
  ASSUME TypeOK, Joint, CreateFile
  PROVE  Joint'
<1>1. /\ cpc = "create" /\ cpc' = "idle" /\ open' = open \cup half /\ half' = {}
      /\ UNCHANGED <<ring, frames, dpc, todo, orphan>>
  BY DEF CreateFile, bufs, demux
<1>2. \A u : InFlight(u)' = InFlight(u) /\ Described(u)' = Described(u)
  <2>1. \A u : InFlight(u)' = InFlight(u)
    BY <1>1, SameInFlight
  <2> QED
    BY <1>1, <2>1, DescribedIsFlat
<1>3. \A u \in open : ring[u] = Described(u) \o InFlight(u)
  BY <1>1 DEF Joint, Agreement, Settled, ResetPlaces
<1>4. \A u \in half : ring[u] = Described(u) \o InFlight(u)
  <2> SUFFICES ASSUME NEW u \in half PROVE ring[u] = Described(u) \o InFlight(u)
    OBVIOUS
  <2>1. /\ ring[u] = <<>> /\ frames[u] = <<>>
        /\ dpc \in Behind /\ Cur.track = u => orphan.on
    BY <1>1 DEF Joint, Halfway
  <2>2. InFlight(u) = <<>>
    BY <2>1 DEF InFlight, Behind, InFrame, Holding
  <2>3. Described(u) = <<>>
    <3>1. <<>> \in Seq(Record)
      OBVIOUS
    <3> QED
      BY <2>1, <3>1, DescribedIsFlat, DescribedTyped
  <2> QED
    BY <2>1, <2>2, <2>3
<1>5. Agreement'
  BY <1>1, <1>2, <1>3, <1>4 DEF Agreement
<1> QED
  BY <1>1, <1>5 DEF Joint, Halfway, Used

\* The tracks are empty, and the demux thread has nothing for them.
LEMMA AllResetJoint ==
  ASSUME TypeOK, Joint, AllReset, LockFree, dpc' = dpc, open' \subseteq open, half' = half,
         cpc # "crashed", cpc' # "pop"
  PROVE  Joint'
<1>1. \A u \in Tracks : ring'[u] = <<>> /\ frames'[u] = <<>>
  BY DEF AllReset
<1>2. \A u : InFlight(u)' = <<>>
  BY DEF InFlight, LockFree, Holding
<1>3. \A u \in Tracks : Described(u)' = <<>>
  <2>1. <<>> \in Seq(Record)
    OBVIOUS
  <2> QED
    BY <1>1, <2>1, DescribedIsFlat, DescribedTyped
<1>4. Agreement'
  <2> SUFFICES ASSUME NEW u \in open' PROVE ring'[u] = Described(u)' \o InFlight(u)'
    BY DEF Agreement
  <2>1. u \in Tracks
    BY DEF TypeOK
  <2>2. ring'[u] = <<>> /\ Described(u)' = <<>> /\ InFlight(u)' = <<>>
    BY <1>1, <1>2, <1>3, <2>1
  <2>3. <<>> \o <<>> = <<>>
    OBVIOUS
  <2> QED
    BY <2>2, <2>3
<1>5. Halfway'
  BY <1>1 DEF Halfway, LockFree, Behind, InFrame, TypeOK
<1> QED
  BY <1>4, <1>5 DEF Joint, Used

LEMMA ResetOneJoint ==
  ASSUME TypeOK, Control, Joint, FlushTrack \/ ClearTrack
  PROVE  Joint'
<1>1. NextReset \in Tracks
  BY NextIsReset DEF FlushTrack, ClearTrack, Control, TypeOK
<1>2. /\ cpc' \in ResetPlaces /\ cpc # "crashed" /\ UNCHANGED <<open, half, orphan, todo>>
      /\ ring' = ring \/ ring' = [ring EXCEPT ![NextReset] = <<>>]
      /\ frames' = frames \/ frames' = [frames EXCEPT ![NextReset] = <<>>]
  BY DEF FlushTrack, ClearTrack, tracks, ResetPlaces
<1>3. dpc' \in Behind => dpc \in Behind /\ Cur' = Cur
  <2>1. CASE FlushTrack
    BY <1>2, <2>1, WakeKeeps DEF FlushTrack, FreeAvailable
  <2>2. CASE ClearTrack
    BY <2>2 DEF ClearTrack, Cur
  <2> QED
    BY <2>1, <2>2
<1>4. \A u \in Tracks : /\ ring'[u] = ring[u] \/ ring'[u] = <<>>
                        /\ frames'[u] = frames[u] \/ frames'[u] = <<>>
  BY <1>1, <1>2 DEF TypeOK
<1>5. Halfway'
  <2> SUFFICES ASSUME NEW u \in half
               PROVE  /\ ring'[u] = <<>> /\ frames'[u] = <<>>
                      /\ dpc' \in Behind /\ Cur'.track = u => orphan'.on
    BY <1>2 DEF Halfway
  <2>1. /\ ring[u] = <<>> /\ frames[u] = <<>> /\ u \in Tracks
        /\ dpc \in Behind /\ Cur.track = u => orphan.on
    BY <1>2 DEF Joint, Halfway, TypeOK
  <2> QED
    BY <1>2, <1>3, <1>4, <2>1
<1> QED
  BY <1>2, <1>5 DEF Joint, Agreement, Settled, Used, ResetPlaces

LEMMA ClientJoint ==
  Typed /\ Joint /\ (ClientStep \/ ClientCall \/ SpuriousWakeup) => Joint'
<1> SUFFICES ASSUME Typed, Joint, ClientStep \/ ClientCall \/ SpuriousWakeup PROVE Joint'
  OBVIOUS
<1>0. TypeOK /\ Control
  BY DEF Typed
<1>1. CASE GetRead
  BY <1>0, <1>1, GetReadJoint
<1>2. CASE GetPop
  BY <1>0, <1>2, GetPopJoint
<1>3. CASE CreateFile
  BY <1>0, <1>3, CreateJoint
<1>4. CASE FlushTrack \/ ClearTrack
  BY <1>0, <1>4, ResetOneJoint
<1>5. CASE SeekLocked \/ SeekLockedNoCues \/ CloseLocked
  <2>1. /\ AllReset /\ LockFree /\ dpc' = dpc /\ open' \subseteq open /\ half' = half
        /\ cpc # "crashed" /\ cpc' # "pop"
    BY <1>5 DEF SeekLocked, SeekLockedNoCues, CloseLocked, demux, tracks
  <2> QED
    BY <1>0, <2>1, AllResetJoint
<1>6. CASE SeekLockedJunkCues
  BY <1>6, CrashJoint DEF SeekLockedJunkCues
<1>7. CASE \E t \in Tracks : CallOpen(t)
  BY <1>0, <1>7, OpenJoint
<1>8. ASSUME ClientStep, ~GetRead, ~GetPop, ~CreateFile, ~FlushTrack, ~ClearTrack,
             ~SeekLocked, ~SeekLockedNoCues, ~CloseLocked, ~SeekLockedJunkCues
      PROVE  JointSame
  <2> USE DEF bufs, demux, tracks, JointSame, Settled, ResetPlaces
  <2>1. CASE OpenReturn
    BY <2>1 DEF OpenReturn, InPush, Behind, InFrame, Holding
  <2>2. CASE GetNothing \/ GetMore \/ GetReturn
    BY <2>2 DEF GetNothing, GetMore, GetReturn
  <2>3. CASE SeekFlag \/ CloseState \/ CloseFlag
    BY <2>3 DEF SeekFlag, CloseState, CloseFlag, StartReset
  <2>4. CASE SeekTime \/ SeekSkip \/ SeekPlay
    BY <2>4 DEF SeekTime, SeekSkip, SeekPlay, Idle
  <2>5. CASE PreBuffer \/ PreTimeout \/ PreReturn \/ CloseJoin
    BY <2>5 DEF PreBuffer, PreTimeout, PreReturn, CloseJoin, Idle
  <2> QED
    BY <1>8, <2>1, <2>2, <2>3, <2>4, <2>5 DEF ClientStep
<1>9. ASSUME ClientCall, ~(\E t \in Tracks : CallOpen(t))
      PROVE  JointSame
  <2> USE DEF bufs, demux, tracks, JointSame, Settled, ResetPlaces
  <2>1. CASE \E t \in Tracks, n \in Rooms : CallGet(t, n)
    BY <2>1 DEF CallGet, Ready
  <2>2. CASE \E kind \in SeekKinds, time \in Targets : CallSeek(kind, time)
    BY <2>2 DEF CallSeek, Ready
  <2>3. CASE CallClose
    BY <2>3 DEF CallClose, Ready
  <2> QED
    BY <1>9, <2>1, <2>2, <2>3 DEF ClientCall
<1>10. ASSUME SpuriousWakeup
       PROVE  JointSame
  BY <1>10 DEF SpuriousWakeup, JointSame, bufs, tracks, call, Settled, InPush, Behind,
               InFrame, Holding
<1> QED
  BY <1>1, <1>2, <1>3, <1>4, <1>5, <1>6, <1>7, <1>8, <1>9, <1>10, SameJoint

LEMMA JointKept == Typed /\ Joint /\ [Next]_vars => Joint'
<1> SUFFICES ASSUME Typed, Joint, [Next]_vars PROVE Joint'
  OBVIOUS
<1>1. CASE UNCHANGED vars
  <2>1. JointSame
    BY <1>1 DEF vars, JointSame, bufs, tracks, demux, call, Settled
  <2> QED
    BY <2>1, SameJoint
<1> QED
  BY <1>1, DemuxJoint, ClientJoint DEF Next

(***************************************************************************)
(* The records of a track's cache and the bytes of its ring agree whenever *)
(* the client is not in the middle of a reset: for every interleaving of   *)
(* the demux thread's write and push_back with the client's read and pop,  *)
(* across reopening a track the demux thread is at work on, and after a    *)
(* seek whose two reset passes the demux thread has got in between.        *)
(***************************************************************************)
THEOREM AgreementHolds == Spec => []Agreement
<1>1. Spec => [](Typed /\ Joint)
  <2>1. Init => Typed /\ Joint
    BY InitTyped, InitJoint
  <2>2. Typed /\ Joint /\ [Next]_vars => (Typed /\ Joint)'
    BY TypedKept, JointKept
  <2> QED
    BY <2>1, <2>2, PTL DEF Spec
<1>2. Typed /\ Joint => Agreement
  BY DEF Joint
<1> QED
  BY <1>1, <1>2, PTL


-----------------------------------------------------------------------------
(***************************************************************************)
(* In order.  The numbers of frames rise through the file, so those of the *)
(* frames that are still to come lie above all that a track has been given. *)
(***************************************************************************)
IdsOf(s) == {s[i].id : i \in DOMAIN s}
Below(A, B) == \A x \in A, y \in B : x < y
Rising(s) == \A i, j \in DOMAIN s : i < j => s[i].id < s[j].id

\* What a track has been given since the last seek, handed out or not; the frames
\* in hand that are not in its ring yet; and with the clusters not yet read, all
\* that is still to come.
Out(t) == delivered[t] \o ring[t]
Handed == IF dpc \in InPush THEN Tail(todo) ELSE todo
UnreadFrom(c) == UNION {IdsOf(File[d]) : d \in c..Len(File)}
Coming == IdsOf(Handed) \cup UnreadFrom(pos)

LEMMA FileOrder ==
  /\ \A f \in AllFrames : f.id \in Nat /\ f.tick \in Nat /\ f.size \in Nat /\ f.size > 0
  /\ \A f, g \in AllFrames : f.id = g.id => f = g
  /\ Ids \subseteq Nat
<1>1. \A f \in AllFrames : f.id \in Nat /\ f.tick \in Nat /\ f.size \in 1..RingCap
  BY FramesTyped DEF Block
<1>2. \A f \in AllFrames : f.size \in Nat /\ f.size > 0
  BY <1>1, FileAssumption
<1>3. ASSUME NEW f \in AllFrames, NEW g \in AllFrames, f.id = g.id
      PROVE  f = g
  <2>1. PICK c \in 1..Len(File) : f \in ToSet(File[c])
    BY DEF AllFrames
  <2>2. PICK d \in 1..Len(File) : g \in ToSet(File[d])
    BY DEF AllFrames
  <2>3. PICK i \in DOMAIN File[c] : f = File[c][i]
    BY <2>1 DEF ToSet
  <2>4. PICK j \in DOMAIN File[d] : g = File[d][j]
    BY <2>2 DEF ToSet
  <2>5. /\ File \in Seq(Seq(Block)) /\ c \in DOMAIN File /\ d \in DOMAIN File
        /\ c \in Nat /\ d \in Nat
    BY FileAssumption
  <2>6. File[c] \in Seq(Block) /\ File[d] \in Seq(Block) /\ i \in Nat /\ j \in Nat
    BY <2>5
  <2>7. /\ c < d \/ (c = d /\ i < j) => f.id < g.id
        /\ d < c \/ (d = c /\ j < i) => g.id < f.id
    BY <2>3, <2>4, <2>5, FileAssumption
  <2>8. f.id \in Nat /\ g.id \in Nat
    BY <1>1
  <2>9. c = d /\ i = j
    BY <1>3, <2>5, <2>6, <2>7, <2>8
  <2> QED
    BY <2>3, <2>4, <2>9
<1> QED
  BY <1>1, <1>2, <1>3 DEF Ids

LEMMA IdsJoined ==
  ASSUME NEW S, NEW u \in Seq(S), NEW v \in Seq(S)
  PROVE  IdsOf(u \o v) = IdsOf(u) \cup IdsOf(v)
<1> DEFINE w == u \o v
<1>1. /\ Len(u) \in Nat /\ Len(v) \in Nat /\ DOMAIN u = 1..Len(u) /\ DOMAIN v = 1..Len(v)
      /\ DOMAIN w = 1..(Len(u) + Len(v))
      /\ \A i \in 1..Len(u) : w[i] = u[i]
      /\ \A i \in 1..Len(v) : w[Len(u) + i] = v[i]
  OBVIOUS
<1> HIDE DEF w
<1>2. ASSUME NEW i \in DOMAIN w
      PROVE  w[i].id \in IdsOf(u) \cup IdsOf(v)
  <2>1. CASE i <= Len(u)
    <3>1. i \in DOMAIN u /\ w[i] = u[i]
      BY <1>1, <2>1
    <3> QED
      BY <3>1 DEF IdsOf
  <2>2. CASE ~(i <= Len(u))
    <3>1. PICK j \in 1..Len(v) : i = Len(u) + j
      <4>1. i - Len(u) \in 1..Len(v) /\ i = Len(u) + (i - Len(u))
        BY <1>1, <2>2
      <4> QED
        BY <4>1
    <3> QED
      BY <1>1, <3>1 DEF IdsOf
  <2> QED
    BY <2>1, <2>2
<1>3. ASSUME NEW i \in DOMAIN u
      PROVE  u[i].id \in IdsOf(w)
  <2>1. i \in DOMAIN w /\ w[i] = u[i]
    BY <1>1
  <2> QED
    BY <2>1 DEF IdsOf
<1>4. ASSUME NEW i \in DOMAIN v
      PROVE  v[i].id \in IdsOf(w)
  <2>1. Len(u) + i \in DOMAIN w /\ w[Len(u) + i] = v[i]
    BY <1>1
  <2> QED
    BY <2>1 DEF IdsOf
<1>5. IdsOf(w) = IdsOf(u) \cup IdsOf(v)
  BY <1>2, <1>3, <1>4 DEF IdsOf
<1> QED
  BY <1>5 DEF w

LEMMA IdsHeadTail ==
  ASSUME NEW S, NEW u \in Seq(S), u # <<>>
  PROVE  IdsOf(u) = {Head(u).id} \cup IdsOf(Tail(u))
<1> DEFINE v == Tail(u)
<1>1. /\ Len(u) \in Nat /\ Len(u) > 0 /\ DOMAIN u = 1..Len(u) /\ Head(u) = u[1]
      /\ DOMAIN v = 1..(Len(u) - 1) /\ \A i \in 1..(Len(u) - 1) : v[i] = u[i + 1]
  OBVIOUS
<1> HIDE DEF v
<1>2. ASSUME NEW i \in DOMAIN u
      PROVE  u[i].id \in {u[1].id} \cup IdsOf(v)
  <2>1. CASE i # 1
    <3>1. i - 1 \in DOMAIN v /\ v[i - 1] = u[i]
      BY <1>1, <2>1
    <3> QED
      BY <3>1 DEF IdsOf
  <2> QED
    BY <2>1
<1>3. ASSUME NEW i \in DOMAIN v
      PROVE  v[i].id \in IdsOf(u)
  <2>1. i + 1 \in DOMAIN u /\ v[i] = u[i + 1]
    BY <1>1
  <2> QED
    BY <2>1 DEF IdsOf
<1>4. u[1].id \in IdsOf(u)
  BY <1>1 DEF IdsOf
<1>5. IdsOf(u) = {u[1].id} \cup IdsOf(v)
  BY <1>2, <1>3, <1>4 DEF IdsOf
<1> QED
  BY <1>1, <1>5 DEF v

\* Taking the first of a rising sequence leaves one that rises, and lies above it.
LEMMA RisingTail ==
  ASSUME NEW S, NEW u \in Seq(S), u # <<>>, Rising(u)
  PROVE  Rising(Tail(u)) /\ Below({Head(u).id}, IdsOf(Tail(u)))
<1> DEFINE v == Tail(u)
<1>1. /\ Len(u) \in Nat /\ Len(u) > 0 /\ DOMAIN u = 1..Len(u) /\ Head(u) = u[1]
      /\ DOMAIN v = 1..(Len(u) - 1) /\ \A i \in 1..(Len(u) - 1) : v[i] = u[i + 1]
  OBVIOUS
<1> HIDE DEF v
<1>2. \A i \in DOMAIN v : i + 1 \in DOMAIN u /\ v[i] = u[i + 1] /\ 1 < i + 1 /\ 1 \in DOMAIN u
  BY <1>1
<1>3. Rising(v)
  <2> SUFFICES ASSUME NEW i \in DOMAIN v, NEW j \in DOMAIN v, i < j PROVE v[i].id < v[j].id
    BY DEF Rising
  <2>1. i + 1 < j + 1
    BY <1>1
  <2> QED
    BY <1>2, <2>1 DEF Rising
<1>4. Below({u[1].id}, IdsOf(v))
  BY <1>2 DEF Rising, Below, IdsOf
<1> QED
  BY <1>1, <1>3, <1>4 DEF v

LEMMA IdsEmpty == IdsOf(<<>>) = {} /\ Rising(<<>>)
BY DEF IdsOf, Rising

\* A cluster, once read, and what is then left to read.
LEMMA IdsCluster ==
  ASSUME NEW c \in 1..Len(File), gen \in 0..MaxSeeks
  PROVE  /\ UnreadFrom(c) = IdsOf(Cluster(c)) \cup UnreadFrom(c + 1)
         /\ Rising(Cluster(c)) /\ Below(IdsOf(Cluster(c)), UnreadFrom(c + 1))
         /\ Cluster(c) # <<>> =>
              \A f \in AllFrames : Head(Cluster(c)).id < f.id => f.id \in UnreadFrom(c)
<1> DEFINE s == Cluster(c)
<1>0. File \in Seq(Seq(Block)) /\ Len(File) \in Nat /\ DOMAIN File = 1..Len(File)
      /\ File[c] \in Seq(Block) /\ c \in Nat
  BY FileAssumption
<1>1. /\ DOMAIN s = DOMAIN File[c] /\ \A i \in DOMAIN s : s[i].id = File[c][i].id
      /\ Len(s) = Len(File[c]) /\ DOMAIN s = 1..Len(s) /\ Len(s) \in Nat
  BY <1>0 DEF Cluster, Tag
<1>2. s \in Seq(Tagged)
  BY ClusterTyped
<1> HIDE DEF s
<1>3. IdsOf(s) = IdsOf(File[c])
  BY <1>1 DEF IdsOf
<1>4. UnreadFrom(c) = IdsOf(s) \cup UnreadFrom(c + 1)
  <2>1. c..Len(File) = {c} \cup ((c + 1)..Len(File))
    BY <1>0
  <2> QED
    BY <1>3, <2>1 DEF UnreadFrom
<1>5. Rising(s)
  <2> SUFFICES ASSUME NEW i \in DOMAIN s, NEW j \in DOMAIN s, i < j PROVE s[i].id < s[j].id
    BY DEF Rising
  <2>1. File[c][i].id < File[c][j].id
    BY <1>0, <1>1, FileAssumption
  <2> QED
    BY <1>1, <2>1
<1>6. Below(IdsOf(s), UnreadFrom(c + 1))
  <2> SUFFICES ASSUME NEW x \in IdsOf(File[c]), NEW y \in UnreadFrom(c + 1) PROVE x < y
    BY <1>3 DEF Below
  <2>1. PICK i \in DOMAIN File[c] : x = File[c][i].id
    BY DEF IdsOf
  <2>2. PICK d \in (c + 1)..Len(File) : y \in IdsOf(File[d])
    BY DEF UnreadFrom
  <2>3. PICK j \in DOMAIN File[d] : y = File[d][j].id
    BY <2>2 DEF IdsOf
  <2>4. d \in DOMAIN File /\ c < d /\ c \in DOMAIN File
    BY <1>0
  <2> QED
    BY <2>1, <2>3, <2>4, FileAssumption
<1>7. ASSUME s # <<>>, NEW f \in AllFrames, Head(s).id < f.id
      PROVE  f.id \in UnreadFrom(c)
  <2>1. PICK d \in 1..Len(File) : f \in ToSet(File[d])
    BY DEF AllFrames
  <2>2. PICK j \in DOMAIN File[d] : f = File[d][j]
    BY <2>1 DEF ToSet
  <2>3. 1 \in DOMAIN s /\ Head(s) = s[1]
    BY <1>1, <1>2, <1>7
  <2>4. Head(s).id = File[c][1].id /\ 1 \in DOMAIN File[c]
    BY <1>1, <2>3
  <2>5. ~(d < c)
    <3> SUFFICES ASSUME d < c PROVE FALSE
      OBVIOUS
    <3>1. File[d][j].id < File[c][1].id
      BY <1>0, <2>4, FileAssumption
    <3>2. f.id \in Nat /\ Head(s).id \in Nat
      <4>1. File[c][1] \in Block
        BY <1>0, <2>4
      <4> QED
        BY <2>4, <4>1, FileOrder DEF Block
    <3> QED
      BY <1>7, <2>2, <2>4, <3>1, <3>2
  <2>6. d \in c..Len(File)
    BY <1>0, <2>5
  <2> QED
    BY <2>2, <2>6 DEF UnreadFrom, IdsOf
<1> QED
  BY <1>4, <1>5, <1>6, <1>7 DEF s

\* What a track has been given is whole frames of the track, one after the other,
\* all of which come before any that may come; and, in Gapless, with every frame of
\* the track that comes after the first of them, unless that is still to come.
Count(out, id) == Cardinality({i \in 1..Len(out) : out[i].id = id})
Sorted(out) == \A i \in 1..(Len(out) - 1) : out[i].id <= out[i + 1].id
Whole(out, t) == \A id \in IdsOf(out) : \E f \in FramesOf(t) : f.id = id /\ f.size = Count(out, id)
InSequence(out, coming, t) == Sorted(out) /\ Whole(out, t) /\ Below(IdsOf(out), coming)
Gapless(out, coming, t) ==
  \A f \in FramesOf(t), id \in IdsOf(out) : id < f.id => f.id \in IdsOf(out) \cup coming

LEMMA NothingInSequence ==
  ASSUME NEW coming, NEW t
  PROVE  InSequence(<<>>, coming, t) /\ Gapless(<<>>, coming, t)
BY IdsEmpty DEF InSequence, Sorted, Whole, Below, Gapless

LEMMA FewerToCome ==
  ASSUME NEW out, NEW coming, NEW less, NEW t, less \subseteq coming, InSequence(out, coming, t)
  PROVE  InSequence(out, less, t)
BY DEF InSequence, Below

\* A frame in hand is a frame of the file.
LEMMA InHandIsOfFile ==
  ASSUME NEW x \in Tagged
  PROVE  \E f \in AllFrames : /\ f.id = x.id /\ f.size = x.size /\ f.track = x.track
                              /\ f.tick = x.tick /\ f \in FramesOf(x.track)
BY DEF Tagged, Tag, FramesOf

LEMMA BytesIds ==
  ASSUME NEW x \in Tagged
  PROVE  /\ Bytes(x, x.size) \in Seq(Byte) /\ Len(Bytes(x, x.size)) = x.size
         /\ x.size \in Nat /\ x.size > 0 /\ x.id \in Nat
         /\ \A i \in 1..x.size : Bytes(x, x.size)[i].id = x.id
         /\ IdsOf(Bytes(x, x.size)) = {x.id}
<1>1. /\ x.id \in Ids /\ x.size \in Nat /\ x.size > 0 /\ x.gen \in 0..MaxSeeks
      /\ x.id \in Nat
  <2>1. x.id \in Ids /\ x.size \in 1..RingCap /\ x.gen \in 0..MaxSeeks
    BY FramesTyped
  <2>2. x.size \in Nat /\ x.size > 0
    BY <2>1, FileAssumption
  <2>3. x.id \in Nat
    BY <2>1, FileOrder
  <2> QED
    BY <2>1, <2>2, <2>3
<1>2. Bytes(x, x.size) \in Seq(Byte) /\ Len(Bytes(x, x.size)) = x.size
  BY <1>1, BytesTyped
<1>3. DOMAIN Bytes(x, x.size) = 1..x.size /\ \A i \in 1..x.size : Bytes(x, x.size)[i].id = x.id
  BY <1>1 DEF Bytes
<1>4. 1 \in 1..x.size
  BY <1>1
<1>5. IdsOf(Bytes(x, x.size)) = {x.id}
  BY <1>3, <1>4 DEF IdsOf
<1> QED
  BY <1>1, <1>2, <1>3, <1>5

\* Counting the bytes of one number.
Only(b, id) == \A i \in 1..Len(b) : b[i].id = id

LEMMA CountNone ==
  ASSUME NEW out \in Seq(Byte), NEW id
  PROVE  /\ Count(out, id) \in Nat
         /\ id \notin IdsOf(out) => Count(out, id) = 0
<1> DEFINE A == {i \in 1..Len(out) : out[i].id = id}
<1>1. Len(out) \in Nat
  OBVIOUS
<1>2. IsFiniteSet(1..Len(out)) /\ A \subseteq 1..Len(out)
  BY <1>1, FS_Interval
<1>3. IsFiniteSet(A)
  BY <1>2, FS_Subset
<1>4. id \notin IdsOf(out) => A = {}
  BY DEF IdsOf
<1> HIDE DEF A
<1>5. Cardinality(A) \in Nat
  BY <1>3, FS_CardinalityType
<1>6. Cardinality({}) = 0
  BY FS_EmptySet
<1> QED
  BY <1>4, <1>5, <1>6 DEF Count, A

LEMMA CountAdded ==
  ASSUME NEW out \in Seq(Byte), NEW b \in Seq(Byte), NEW id, Only(b, id)
  PROVE  /\ Count(out \o b, id) = Count(out, id) + Len(b)
         /\ \A j : j # id => Count(out \o b, j) = Count(out, j)
<1> DEFINE w == out \o b
           n == Len(out)
           m == Len(b)
           A(j) == {i \in 1..n : out[i].id = j}
           W(j) == {i \in 1..(n + m) : w[i].id = j}
           M == (n + 1)..(n + m)
<1>1. /\ w \in Seq(Byte) /\ Len(w) = n + m /\ n \in Nat /\ m \in Nat
      /\ \A i \in 1..(n + m) : w[i] = IF i <= n THEN out[i] ELSE b[i - n]
  BY ConcatProperties
<1> HIDE DEF w, n, m
<1>2. /\ \A i \in 1..n : w[i] = out[i]
      /\ \A i \in M : w[i].id = id
  <2>1. \A i \in 1..n : i \in 1..(n + m) /\ i <= n
    BY <1>1
  <2>2. \A i \in M : i \in 1..(n + m) /\ ~(i <= n) /\ i - n \in 1..m
    BY <1>1
  <2> QED
    BY <1>1, <2>1, <2>2 DEF m, Only
<1>3. 1..(n + m) = (1..n) \cup M /\ (1..n) \cap M = {}
  BY <1>1
<1>4. W(id) = A(id) \cup M /\ A(id) \cap M = {}
  BY <1>2, <1>3
<1>5. \A j : j # id => W(j) = A(j)
  BY <1>2, <1>3
<1>6. /\ IsFiniteSet(A(id)) /\ IsFiniteSet(M) /\ Cardinality(M) = m
  <2>0. n \in Nat /\ m \in Nat
    BY <1>1
  <2>1. 1 \in Int /\ n \in Int /\ n + 1 \in Int /\ n + m \in Int
    BY <2>0
  <2>2. IsFiniteSet(1..n)
    BY <2>1, FS_Interval
  <2>3. A(id) \subseteq 1..n
    OBVIOUS
  <2>4. IsFiniteSet(A(id))
    <3> HIDE DEF A
    <3> QED
      BY <2>2, <2>3, FS_Subset
  <2>5. IsFiniteSet(M) /\ Cardinality(M) = IF n + 1 > n + m THEN 0 ELSE (n + m) - (n + 1) + 1
    BY <2>1, FS_Interval
  <2> HIDE DEF A, M
  <2>6. Cardinality(M) = m
    BY <2>0, <2>5
  <2> QED
    BY <2>4, <2>5, <2>6
<1>7. Cardinality(W(id)) = Cardinality(A(id)) + m
  <2> HIDE DEF W, A, M
  <2>1. A(id) \cap M = {} /\ IsFiniteSet(A(id)) /\ IsFiniteSet(M)
    BY <1>4, <1>6
  <2>2. Cardinality(A(id) \cup M) = Cardinality(A(id)) + Cardinality(M) - Cardinality({})
    BY <2>1, FS_Union
  <2>3. Cardinality({}) = 0
    BY FS_EmptySet
  <2>4. Cardinality(A(id)) \in Nat
    BY <2>1, FS_CardinalityType
  <2> QED
    BY <1>1, <1>4, <1>6, <2>2, <2>3, <2>4
<1>8. \A j : Count(w, j) = Cardinality(W(j)) /\ Count(out, j) = Cardinality(A(j))
  BY <1>1 DEF Count, n
<1> HIDE DEF W, A
<1>9. Count(w, id) = Count(out, id) + m /\ \A j : j # id => Count(w, j) = Count(out, j)
  BY <1>5, <1>7, <1>8
<1> QED
  BY <1>9 DEF w, m

LEMMA CountElse ==
  ASSUME NEW out \in Seq(Byte), NEW b \in Seq(Byte), NEW id, Only(b, id),
         NEW other, other # id
  PROVE  Count(out \o b, other) = Count(out, other)
BY CountAdded

\* A frame that comes after all of them is put behind them.
LEMMA FrameAdded ==
  ASSUME NEW out \in Seq(Byte), NEW x \in Tagged, NEW coming, NEW less,
         InSequence(out, coming, x.track), x.id \in coming, less \subseteq coming,
         Below({x.id}, less)
  PROVE  InSequence(out \o Bytes(x, x.size), less, x.track)
<1> DEFINE b == Bytes(x, x.size)
           w == out \o b
           n == Len(out)
           m == x.size
<1>1. /\ b \in Seq(Byte) /\ Len(b) = m /\ m \in Nat /\ m > 0 /\ x.id \in Nat
      /\ \A i \in 1..m : b[i].id = x.id
      /\ IdsOf(b) = {x.id}
  BY BytesIds
<1>2. n \in Nat /\ \A i \in 1..n : out[i].id \in IdsOf(out)
  BY DEF IdsOf
<1> HIDE DEF b
<1>3. /\ w \in Seq(Byte) /\ Len(w) = n + m
      /\ \A i \in 1..(n + m) : w[i] = IF i <= n THEN out[i] ELSE b[i - n]
  <2>1. b \in Seq(Byte) /\ Len(b) = m
    BY <1>1
  <2>2. /\ out \o b \in Seq(Byte) /\ Len(out \o b) = Len(out) + Len(b)
        /\ \A i \in 1..(Len(out) + Len(b)) :
             (out \o b)[i] = IF i <= Len(out) THEN out[i] ELSE b[i - Len(out)]
    BY <2>1, ConcatProperties
  <2> QED
    BY <2>1, <2>2
<1>4. IdsOf(w) = IdsOf(out) \cup {x.id}
  BY <1>1, IdsJoined
<1> HIDE DEF w, n, m
<1>5. /\ \A i \in 1..n : w[i] = out[i]
      /\ \A i \in (n + 1)..(n + m) : w[i].id = x.id
  <2>1. \A i \in 1..n : i \in 1..(n + m) /\ i <= n
    BY <1>1, <1>2
  <2>2. \A i \in (n + 1)..(n + m) : i \in 1..(n + m) /\ ~(i <= n) /\ i - n \in 1..m
    BY <1>1, <1>2
  <2> QED
    BY <1>1, <1>3, <2>1, <2>2
<1>6. \A id \in IdsOf(out) : id < x.id
  BY DEF InSequence, Below
<1>7. \A i \in 1..n : out[i].id < x.id
  BY <1>2, <1>6
<1>8. Below(IdsOf(w), less)
  BY <1>4 DEF InSequence, Below
<1>9. Sorted(w)
  <2>0. Len(w) - 1 = n + m - 1
    <3>1. Len(w) = n + m
      BY <1>3
    <3> QED
      BY <1>1, <1>2, <3>1
  <2> SUFFICES ASSUME NEW i \in 1..(n + m - 1) PROVE w[i].id <= w[i + 1].id
    BY <2>0 DEF Sorted
  <2>1. CASE i < n
    <3>1. i \in 1..n /\ i + 1 \in 1..n /\ i \in 1..(n - 1)
      BY <1>2, <2>1
    <3>2. out[i].id <= out[i + 1].id
      BY <3>1 DEF InSequence, Sorted, n
    <3> QED
      BY <1>5, <3>1, <3>2
  <2>2. CASE i = n
    <3>1. i \in 1..n /\ i + 1 \in (n + 1)..(n + m)
      BY <1>1, <1>2, <2>2
    <3>2. out[i].id \in Nat
      <4>1. out[i] \in Byte
        BY <3>1 DEF n
      <4> QED
        BY <4>1, FileOrder DEF Byte
    <3>3. out[i].id < x.id /\ w[i] = out[i] /\ w[i + 1].id = x.id
      BY <1>5, <1>7, <3>1
    <3> QED
      BY <1>1, <3>2, <3>3
  <2>3. CASE i > n
    <3>1. i \in (n + 1)..(n + m) /\ i + 1 \in (n + 1)..(n + m)
      BY <1>1, <1>2, <2>3
    <3> QED
      BY <1>1, <1>5, <3>1
  <2> QED
    BY <1>2, <2>1, <2>2, <2>3
<1>10. Whole(w, x.track)
  <2> SUFFICES ASSUME NEW id \in IdsOf(w)
               PROVE  \E f \in FramesOf(x.track) : f.id = id /\ f.size = Count(w, id)
    BY DEF Whole
  <2>1. CASE id = x.id
    <3>1. Count(w, id) = Count(out, id) + m
      <4>1. Len(b) = m /\ Only(b, x.id)
        BY <1>1 DEF Only
      <4>2. Count(out \o b, x.id) = Count(out, x.id) + Len(b)
        BY <1>1, <4>1, CountAdded
      <4> QED
        BY <2>1, <4>1, <4>2 DEF w
    <3>2. Count(out, id) = 0
      <4>1. x.id \notin IdsOf(out)
        BY <1>1, <1>6
      <4> QED
        BY <2>1, <4>1, CountNone
    <3>3. Count(w, id) = m
      BY <1>1, <3>1, <3>2
    <3> QED
      BY <2>1, <3>3, InHandIsOfFile DEF m
  <2>2. CASE id # x.id
    <3>1. id \in IdsOf(out)
      BY <1>4, <2>2
    <3>2. Count(w, id) = Count(out, id)
      <4>1. Len(b) = m /\ Only(b, x.id)
        BY <1>1 DEF Only
      <4>2. PICK y, k : y = x.id /\ k = id
        OBVIOUS
      <4>3. k # y /\ b \in Seq(Byte) /\ Only(b, y)
        BY <1>1, <2>2, <4>1, <4>2
      <4>4. Count(out \o b, k) = Count(out, k)
        BY <4>3, CountElse
      <4> QED
        BY <4>2, <4>4 DEF w
    <3>3. PICK f \in FramesOf(x.track) : f.id = id /\ f.size = Count(out, id)
      BY <3>1 DEF InSequence, Whole
    <3> QED
      BY <3>2, <3>3
  <2> QED
    BY <2>1, <2>2
<1>11. InSequence(w, less, x.track)
  BY <1>8, <1>9, <1>10 DEF InSequence
<1> QED
  BY <1>11 DEF w, b

\* It leaves no gap if it was the next to come.
LEMMA NextAdded ==
  ASSUME NEW out \in Seq(Byte), NEW x \in Tagged, NEW coming, NEW t,
         Gapless(out, coming, t),
         \A f \in AllFrames : x.id < f.id => f.id \in coming
  PROVE  Gapless(out \o Bytes(x, x.size), coming \ {x.id}, t)
<1> DEFINE b == Bytes(x, x.size)
           w == out \o b
<1>0. b \in Seq(Byte) /\ IdsOf(b) = {x.id}
  BY BytesIds
<1> HIDE DEF b
<1>1. IdsOf(w) = IdsOf(out) \cup {x.id}
  BY <1>0, IdsJoined
<1> HIDE DEF w
<1>2. ASSUME NEW f \in FramesOf(t), NEW id \in IdsOf(w), id < f.id
      PROVE  f.id \in IdsOf(w) \cup (coming \ {x.id})
  <2>1. f.id \in IdsOf(out) \cup coming
    BY <1>1, <1>2 DEF Gapless, FramesOf
  <2> QED
    BY <1>1, <2>1
<1> QED
  BY <1>2 DEF Gapless, w, b

\* A frame of another track is passed over.
LEMMA OtherPassed ==
  ASSUME NEW out, NEW x \in Tagged, NEW coming, NEW t, x.track # t, Gapless(out, coming, t)
  PROVE  Gapless(out, coming \ {x.id}, t)
<1> SUFFICES ASSUME NEW f \in FramesOf(t), NEW id \in IdsOf(out), id < f.id
             PROVE  f.id \in IdsOf(out) \cup (coming \ {x.id})
  BY DEF Gapless
<1>1. f.id \in IdsOf(out) \cup coming
  BY DEF Gapless
<1>2. f.id # x.id
  <2>1. PICK g \in AllFrames : g.id = x.id /\ g.track = x.track
    BY InHandIsOfFile
  <2>2. f \in AllFrames /\ f.track = t
    BY DEF FramesOf
  <2> QED
    BY <2>1, <2>2, FileOrder
<1> QED
  BY <1>1, <1>2

\* What the steps leave alone.
LEMMA BytesMove ==
  ASSUME [Next]_vars
  PROVE  \/ UNCHANGED <<ring, delivered, gen>>
         \/ DWriteStore \/ GetRead \/ FlushTrack
         \/ SeekLocked \/ SeekLockedNoCues \/ CloseLocked \/ \E t \in Tracks : CallOpen(t)
<1> USE DEF bufs, history
<1>1. CASE DCheck \/ DSwitch \/ DLock \/ DLockReleased \/ DLeave \/ DDrop \/ DTake
  BY <1>1 DEF DCheck, DSwitch, DLock, DLockReleased, Crash, DLeave, DDrop, DTake
<1>2. CASE DUnskip \/ DUnskipTime \/ DWriteHalf \/ DWriteFull \/ DAnnounce \/ DRelock
  BY <1>2 DEF DUnskip, DUnskipTime, DWriteHalf, Crash, DWriteFull, DAnnounce, DRelock
<1>3. CASE DPushStore \/ DPushWait \/ DUnlock
  BY <1>3 DEF DPushStore, DPushWait, DUnlock
<1>4. CASE OpenReturn \/ CreateFile \/ GetNothing \/ GetPop \/ GetMore \/ GetReturn
  BY <1>4 DEF OpenReturn, CreateFile, GetNothing, GetPop, GetMore, GetReturn
<1>5. CASE SeekFlag \/ CloseState \/ CloseFlag \/ ClearTrack \/ SeekLockedJunkCues
  BY <1>5 DEF SeekFlag, CloseState, CloseFlag, ClearTrack, SeekLockedJunkCues, Crash
<1>6. CASE SeekTime \/ SeekSkip \/ SeekPlay \/ PreBuffer \/ PreTimeout \/ PreReturn \/ CloseJoin
  BY <1>6 DEF SeekTime, SeekSkip, SeekPlay, PreBuffer, PreTimeout, PreReturn, CloseJoin
<1>7. CASE (\E t \in Tracks, n \in Rooms : CallGet(t, n)) \/ CallClose \/ SpuriousWakeup
           \/ (\E kind \in SeekKinds, time \in Targets : CallSeek(kind, time))
  BY <1>7 DEF CallGet, CallSeek, CallClose, SpuriousWakeup
<1>8. CASE UNCHANGED vars
  BY <1>8 DEF vars
<1> QED
  BY <1>1, <1>2, <1>3, <1>4, <1>5, <1>6, <1>7, <1>8
     DEF Next, DemuxStep, ClientStep, ClientCall

LEMMA FileMoves ==
  ASSUME [Next]_vars
  PROVE  \/ UNCHANGED <<todo, pos>>
         \/ DLock \/ DLeave \/ DDrop \/ DPushStore \/ OpenReturn \/ SeekLocked
<1> USE DEF demux, file
<1>1. CASE DCheck \/ DSwitch \/ DLockReleased \/ DTake
  BY <1>1 DEF DCheck, DSwitch, DLockReleased, Crash, DTake
<1>2. CASE DUnskip \/ DUnskipTime \/ DWriteHalf \/ DWriteStore \/ DWriteFull \/ DAnnounce \/ DRelock
  BY <1>2 DEF DUnskip, DUnskipTime, DWriteHalf, Crash, DWriteStore, DWriteFull, DAnnounce, DRelock
<1>3. CASE DPushWait \/ DUnlock
  BY <1>3 DEF DPushWait, DUnlock
<1>4. CASE CreateFile \/ GetRead \/ GetNothing \/ GetPop \/ GetMore \/ GetReturn
  BY <1>4 DEF CreateFile, GetRead, GetNothing, GetPop, GetMore, GetReturn
<1>5. CASE SeekFlag \/ CloseState \/ CloseFlag \/ FlushTrack \/ ClearTrack \/ SeekLockedNoCues
           \/ SeekLockedJunkCues \/ CloseLocked
  BY <1>5 DEF SeekFlag, CloseState, CloseFlag, FlushTrack, ClearTrack, SeekLockedNoCues,
              SeekLockedJunkCues, Crash, CloseLocked
<1>6. CASE SeekTime \/ SeekSkip \/ SeekPlay \/ PreBuffer \/ PreTimeout \/ PreReturn \/ CloseJoin
  BY <1>6 DEF SeekTime, SeekSkip, SeekPlay, PreBuffer, PreTimeout, PreReturn, CloseJoin
<1>7. CASE (\E t \in Tracks : CallOpen(t) \/ \E n \in Rooms : CallGet(t, n))
           \/ CallClose \/ SpuriousWakeup
           \/ (\E kind \in SeekKinds, time \in Targets : CallSeek(kind, time))
  BY <1>7 DEF CallOpen, CallGet, CallSeek, CallClose, SpuriousWakeup
<1>8. CASE UNCHANGED vars
  BY <1>8 DEF vars
<1> QED
  BY <1>1, <1>2, <1>3, <1>4, <1>5, <1>6, <1>7, <1>8
     DEF Next, DemuxStep, ClientStep, ClientCall

LEMMA TracksMove ==
  ASSUME [Next]_vars
  PROVE  \/ UNCHANGED <<open, half, opened, orphan>>
         \/ DPushStore \/ CreateFile \/ CloseLocked \/ \E t \in Tracks : CallOpen(t)
<1> USE DEF tracks
<1>1. CASE DCheck \/ DSwitch \/ DLock \/ DLockReleased \/ DLeave \/ DDrop \/ DTake
  BY <1>1 DEF DCheck, DSwitch, DLock, DLockReleased, Crash, DLeave, DDrop, DTake
<1>2. CASE DUnskip \/ DUnskipTime \/ DWriteHalf \/ DWriteStore \/ DWriteFull \/ DAnnounce \/ DRelock
  BY <1>2 DEF DUnskip, DUnskipTime, DWriteHalf, Crash, DWriteStore, DWriteFull, DAnnounce, DRelock
<1>3. CASE DPushWait \/ DUnlock
  BY <1>3 DEF DPushWait, DUnlock
<1>4. CASE OpenReturn \/ GetRead \/ GetNothing \/ GetPop \/ GetMore \/ GetReturn
  BY <1>4 DEF OpenReturn, GetRead, GetNothing, GetPop, GetMore, GetReturn
<1>5. CASE SeekFlag \/ CloseState \/ CloseFlag \/ FlushTrack \/ ClearTrack \/ SeekLockedNoCues
           \/ SeekLockedJunkCues \/ SeekLocked
  BY <1>5 DEF SeekFlag, CloseState, CloseFlag, FlushTrack, ClearTrack, SeekLockedNoCues,
              SeekLockedJunkCues, Crash, SeekLocked
<1>6. CASE SeekTime \/ SeekSkip \/ SeekPlay \/ PreBuffer \/ PreTimeout \/ PreReturn \/ CloseJoin
  BY <1>6 DEF SeekTime, SeekSkip, SeekPlay, PreBuffer, PreTimeout, PreReturn, CloseJoin
<1>7. CASE (\E t \in Tracks, n \in Rooms : CallGet(t, n)) \/ CallClose \/ SpuriousWakeup
           \/ (\E kind \in SeekKinds, time \in Targets : CallSeek(kind, time))
  BY <1>7 DEF CallGet, CallSeek, CallClose, SpuriousWakeup
<1>8. CASE UNCHANGED vars
  BY <1>8 DEF vars
<1> QED
  BY <1>1, <1>2, <1>3, <1>4, <1>5, <1>6, <1>7, <1>8
     DEF Next, DemuxStep, ClientStep, ClientCall

\* What a write adds to a track, and what a read leaves.
LEMMA OutAfterWrite ==
  ASSUME TypeOK, Control, DWriteStore, ~orphan.on
  PROVE  /\ Cur \in Tagged /\ Cur.track \in Tracks /\ todo # <<>>
         /\ Out(Cur.track)' = Out(Cur.track) \o Bytes(Cur, Cur.size)
         /\ \A t \in Tracks : t # Cur.track => Out(t)' = Out(t)
<1>1. dpc \in InFrame
  BY DEF DWriteStore, Writing, InFrame, Holding
<1>2. Cur \in Tagged /\ Cur.track \in Tracks /\ todo # <<>>
  BY <1>1, CurTyped
<1>3. PICK c \in Tracks : c = Cur.track
  BY <1>2
<1>4. PICK b \in Seq(Byte) : b = Bytes(Cur, Cur.size)
  BY <1>2, BytesIds
<1>5. /\ ring' = [ring EXCEPT ![c] = ring[c] \o b] /\ delivered' = delivered
      /\ UNCHANGED todo
  BY <1>3, <1>4 DEF DWriteStore, history
<1>6. ring \in [Tracks -> Seq(Byte)] /\ delivered[c] \in Seq(Byte) /\ ring[c] \in Seq(Byte)
  BY DEF TypeOK
<1>7. Out(c)' = Out(c) \o b
  <2>1. Out(c)' = delivered[c] \o (ring[c] \o b)
    BY <1>5, <1>6 DEF Out
  <2>2. Grouped(delivered[c], ring[c], b)
    BY <1>6, Grouping
  <2> QED
    BY <2>1, <2>2 DEF Grouped, Out
<1>8. \A t \in Tracks : t # c => Out(t)' = Out(t)
  BY <1>5, <1>6 DEF Out
<1>9. Out(Cur.track)' = Out(c)'
  <2>1. Cur' = Cur
    BY <1>5 DEF Cur
  <2> QED
    BY <1>3, <2>1 DEF Out
<1> QED
  BY <1>2, <1>3, <1>4, <1>7, <1>8, <1>9

LEMMA OutAfterRead ==
  ASSUME TypeOK, Control, GetRead
  PROVE  \A t \in Tracks : Out(t)' = Out(t)
<1>0. PICK c \in Tracks : c = ctrack
  BY ReadFacts DEF GetRead
<1>1. PICK n \in Nat : n = IF room < NextSize THEN room ELSE NextSize
  BY ReadFacts DEF GetRead
<1> DEFINE taken == SubSeq(ring[c], 1, n)
           left == SubSeq(ring[c], n + 1, Len(ring[c]))
<1>2. /\ ring' = [ring EXCEPT ![c] = left] /\ delivered' = [delivered EXCEPT ![c] = @ \o taken]
      /\ n <= Len(ring[c])
  BY <1>0, <1>1 DEF GetRead
<1>3. /\ ring \in [Tracks -> Seq(Byte)] /\ delivered \in [Tracks -> Seq(Byte)]
      /\ ring[c] \in Seq(Byte) /\ delivered[c] \in Seq(Byte)
  BY DEF TypeOK
<1>4. /\ taken \in Seq(Byte) /\ left \in Seq(Byte) /\ ring[c] = taken \o left
  BY <1>2, <1>3, Halves
<1> HIDE DEF taken, left
<1>5. Grouped(delivered[c], taken, left)
  BY <1>3, <1>4, Grouping
<1>6. Out(c)' = Out(c)
  <2>1. Out(c)' = (delivered[c] \o taken) \o left
    BY <1>2, <1>3 DEF Out
  <2> QED
    BY <1>4, <1>5, <2>1 DEF Grouped, Out
<1>7. \A t \in Tracks : t # c => Out(t)' = Out(t)
  BY <1>2, <1>3 DEF Out
<1> QED
  BY <1>6, <1>7

\* Every other step keeps what a track has been given, or empties its ring.
LEMMA OutElse ==
  ASSUME TypeOK, Control, [Next]_vars, ~(DWriteStore /\ ~orphan.on)
  PROVE  \A t \in Tracks : /\ Out(t) = <<>> => Out(t)' = <<>>
                           /\ Settled /\ t \in open' \cap opened => Out(t)' = Out(t)
<1> SUFFICES ASSUME NEW t \in Tracks
             PROVE  /\ Out(t) = <<>> => Out(t)' = <<>>
                    /\ Settled /\ t \in open' \cap opened => Out(t)' = Out(t)
  OBVIOUS
<1>1. /\ ring \in [Tracks -> Seq(Byte)] /\ delivered \in [Tracks -> Seq(Byte)]
      /\ ring[t] \in Seq(Byte) /\ delivered[t] \in Seq(Byte)
  BY DEF TypeOK
<1>2. /\ Out(t) = <<>> => delivered[t] = <<>> /\ ring[t] = <<>>
      /\ delivered[t] \o <<>> = delivered[t]
  <2>1. Len(Out(t)) = Len(delivered[t]) + Len(ring[t])
    BY <1>1, ConcatProperties DEF Out
  <2>2. Len(delivered[t]) \in Nat /\ Len(ring[t]) \in Nat
    BY <1>1
  <2>3. Out(t) = <<>> => Len(Out(t)) = 0
    OBVIOUS
  <2> QED
    BY <1>1, <2>1, <2>2, <2>3, EmptySeq
<1>3. CASE UNCHANGED <<ring, delivered, gen>>
  BY <1>3 DEF Out
<1>4. CASE DWriteStore
  BY <1>4 DEF DWriteStore, history, Out
<1>5. CASE GetRead
  BY <1>5, OutAfterRead
<1>6. CASE FlushTrack
  <2>1. delivered' = delivered /\ (ring'[t] = ring[t] \/ ring'[t] = <<>>)
    BY <1>1, <1>6 DEF FlushTrack, history
  <2>2. ~Settled
    BY <1>6 DEF FlushTrack, Settled, ResetPlaces
  <2> QED
    BY <1>2, <2>1, <2>2 DEF Out
<1>7. CASE SeekLocked \/ SeekLockedNoCues \/ CloseLocked
  <2>1. ring'[t] = <<>> /\ (delivered'[t] = delivered[t] \/ delivered'[t] = <<>>)
    BY <1>7 DEF SeekLocked, SeekLockedNoCues, CloseLocked, AllReset, history
  <2>2. ~Settled
    BY <1>7 DEF SeekLocked, SeekLockedNoCues, CloseLocked, Settled, ResetPlaces
  <2> QED
    BY <1>2, <2>1, <2>2 DEF Out
<1>8. CASE \E u \in Tracks : CallOpen(u)
  <2>1. PICK u \in Tracks : CallOpen(u)
    BY <1>8
  <2>2. /\ delivered' = delivered /\ ring' = [ring EXCEPT ![u] = <<>>]
        /\ open' = open \ {u}
    BY <2>1 DEF CallOpen, history
  <2>3. CASE t = u
    BY <1>1, <1>2, <2>2, <2>3 DEF Out
  <2>4. CASE t # u
    BY <1>1, <2>2, <2>4 DEF Out
  <2> QED
    BY <2>3, <2>4
<1> QED
  BY <1>3, <1>4, <1>5, <1>6, <1>7, <1>8, BytesMove

\* Which tracks there may be, and who has been handed something; a thread that
\* crashes takes the other with it.
Opening ==
  /\ dpc = "crashed" => cpc = "crashed"
  /\ cpc = "opening" => opened = {}
  /\ cpc \in {"join", "closed"} => open = {}
  /\ half \cap opened = {}
  /\ \A t \in Tracks \ opened : delivered[t] = <<>>

\* The frames in hand are the next of the file, those of its clusters follow.
Reading ==
  /\ Rising(todo) /\ Below(IdsOf(todo), UnreadFrom(pos))
  /\ todo # <<>> =>
       \A f \in AllFrames : Head(todo).id < f.id => f.id \in IdsOf(todo) \cup UnreadFrom(pos)

\* While the demux thread is at work in a replaced extractor, the new one gets nothing.
Orphaned == orphan.on /\ dpc # "crashed" => dpc \in InFrame /\ Out(Cur.track) = <<>>

\* Before the first seek, nothing is skipped once a frame has been taken, and no
\* cluster is given up.
Past == InFrame \ {"unskip"}
Beginning ==
  gen = 0 =>
    /\ dpc \in Past => ~skip
    /\ \A t \in Tracks : Out(t) # <<>> => ~skip
    /\ cpc \notin {"seekTime", "seekSkip"}
    /\ Settled /\ cpc \notin {"join", "closed"} => ~GivenUp

Sequenced ==
  Settled => \A t \in opened \cap open :
    InSequence(Out(t), Coming, t) /\ (gen = 0 => Gapless(Out(t), Coming, t))

Ordered == Opening /\ Reading /\ Orphaned /\ Beginning /\ Sequenced

\* Where the threads go.
Going ==
  /\ dpc' = "crashed" => (dpc = "crashed" /\ cpc' = cpc) \/ cpc' = "crashed"
  /\ dpc = "crashed" => dpc' = "crashed"
  /\ cpc' = "opening" => cpc = "opening"
  /\ cpc' \in {"join", "closed"} => cpc \in {"join", "closed"} \/ CloseLocked
  /\ cpc' \in {"seekTime", "seekSkip"} => cpc \in {"seekTime", "seekSkip"} \/ SeekLocked
  /\ dpc \in InFrame => dpc' \in InFrame \cup {"crashed"} \/ DPushStore
  /\ dpc' \in Past => dpc \in Past \/ ~skip'
  /\ (dpc' \in InPush <=> dpc \in InPush) \/ DWriteStore \/ DPushStore \/ dpc' = "crashed"
  /\ skip' => skip \/ SeekSkip
  /\ Settled' /\ cpc' \notin {"join", "closed"} =>
       \/ /\ Settled /\ cpc \notin {"join", "closed"}
          /\ UNCHANGED <<needSeek, closeReq>>
       \/ SeekLocked \/ SeekLockedNoCues

LEMMA Goes == Opening /\ [Next]_vars => Going
<1> SUFFICES ASSUME Opening, [Next]_vars PROVE Going
  OBVIOUS
<1> USE DEF Opening, Going, Past, InPush, InFrame, Holding, Settled, ResetPlaces, flags, skips, call, demux
<1>1. CASE DCheck \/ DSwitch \/ DLock \/ DLockReleased
  BY <1>1 DEF DCheck, DSwitch, DLock, DLockReleased, Crash
<1>2. CASE DLeave \/ DDrop \/ DTake
  BY <1>2 DEF DLeave, DDrop, DTake
<1>3. CASE DUnskip \/ DUnskipTime \/ DWriteHalf \/ DWriteStore
  <2>1. CASE DUnskip
    BY <2>1 DEF DUnskip
  <2>2. CASE DUnskipTime
    BY <2>2 DEF DUnskipTime
  <2>3. CASE DWriteHalf
    BY <2>3 DEF DWriteHalf, Crash
  <2>4. CASE DWriteStore
    BY <2>4 DEF DWriteStore, Writing
  <2> QED
    BY <1>3, <2>1, <2>2, <2>3, <2>4
<1>4. CASE DWriteFull
  BY <1>4 DEF DWriteFull, Writing
<1>5. CASE DAnnounce
  BY <1>5 DEF DAnnounce
<1>6. CASE DRelock
  BY <1>6 DEF DRelock
<1>7. CASE DPushStore \/ DPushWait \/ DUnlock
  BY <1>7 DEF DPushStore, DPushWait, Pushing, DUnlock
<1>8. CASE OpenReturn \/ CreateFile \/ GetNothing
  BY <1>8 DEF OpenReturn, CreateFile, GetNothing
<1>9. CASE GetRead
  BY <1>9 DEF GetRead, FreeAvailable, Wake, At
<1>10. CASE GetPop
  BY <1>10 DEF GetPop, Wake, At
<1>11. CASE GetMore \/ GetReturn
  BY <1>11 DEF GetMore, GetReturn
<1>12. CASE SeekFlag \/ CloseState \/ CloseFlag
  BY <1>12 DEF SeekFlag, CloseState, CloseFlag, StartReset
<1>13. CASE FlushTrack
  BY <1>13 DEF FlushTrack, FreeAvailable, Wake, At
<1>14. CASE ClearTrack
  BY <1>14 DEF ClearTrack
<1>15. CASE SeekLocked
  BY <1>15 DEF SeekLocked
<1>16. CASE SeekLockedNoCues
  BY <1>16 DEF SeekLockedNoCues
<1>17. CASE SeekLockedJunkCues
  BY <1>17 DEF SeekLockedJunkCues, Crash
<1>18. CASE CloseLocked
  BY <1>18 DEF CloseLocked
<1>19. CASE SeekTime \/ SeekSkip \/ SeekPlay
  BY <1>19 DEF SeekTime, SeekSkip, SeekPlay, Idle
<1>20. CASE PreBuffer \/ PreTimeout \/ PreReturn \/ CloseJoin
  BY <1>20 DEF PreBuffer, PreTimeout, PreReturn, CloseJoin, Idle
<1>21. CASE \E t \in Tracks : CallOpen(t) \/ \E n \in Rooms : CallGet(t, n)
  BY <1>21 DEF CallOpen, CallGet, Ready
<1>22. CASE CallClose \/ (\E kind \in SeekKinds, time \in Targets : CallSeek(kind, time))
  BY <1>22 DEF CallSeek, CallClose, Ready
<1>23. CASE SpuriousWakeup
  BY <1>23 DEF SpuriousWakeup
<1>24. CASE UNCHANGED vars
  BY <1>24 DEF vars
<1> HIDE DEF Going, Opening
<1> QED
  BY <1>1, <1>2, <1>3, <1>4, <1>5, <1>6, <1>7, <1>8, <1>9, <1>10, <1>11, <1>12, <1>13,
     <1>14, <1>15, <1>16, <1>17, <1>18, <1>19, <1>20, <1>21, <1>22, <1>23, <1>24
     DEF Next, DemuxStep, ClientStep, ClientCall

LEMMA OpeningKept == TypeOK /\ Control /\ Opening /\ [Next]_vars => Opening'
<1> SUFFICES ASSUME TypeOK, Control, Opening, [Next]_vars PROVE Opening'
  OBVIOUS
<1>1. dpc' = "crashed" => cpc' = "crashed"
  BY Goes DEF Going, Opening
<1>2. cpc' = "opening" => opened' = {}
  <2>1. cpc' = "opening" => cpc = "opening" /\ opened = {}
    BY Goes DEF Going, Opening
  <2>2. cpc' = "opening" => opened' = opened
    BY TracksMove DEF DPushStore, CreateFile, CloseLocked, CallOpen
  <2> QED
    BY <2>1, <2>2
<1>3. cpc' \in {"join", "closed"} => open' = {}
  <2>1. CASE CloseLocked
    BY <2>1 DEF CloseLocked
  <2>2. CASE ~CloseLocked
    <3>1. cpc' \in {"join", "closed"} => cpc \in {"join", "closed"} /\ open = {}
      BY <2>2, Goes DEF Going, Opening
    <3>2. cpc \in {"join", "closed"} => open' = open
      BY <2>2, TracksMove DEF DPushStore, CreateFile, CallOpen
    <3> QED
      BY <3>1, <3>2
  <2> QED
    BY <2>1, <2>2
<1>4. half' \cap opened' = {}
  BY TracksMove DEF Opening, DPushStore, CreateFile, CloseLocked, CallOpen
<1>5. \A t \in Tracks \ opened' : delivered'[t] = <<>>
  <2>1. opened \subseteq opened'
    BY TracksMove DEF DPushStore, CreateFile, CloseLocked, CallOpen
  <2>2. \A t \in Tracks \ opened : delivered'[t] = <<>>
    <3>1. CASE delivered' = delivered
      BY <3>1 DEF Opening
    <3>2. CASE GetRead
      <4>1. ctrack \in opened /\ delivered \in [Tracks -> Seq(Byte)]
        BY <3>2 DEF GetRead, Control, GetPlaces, TypeOK
      <4>2. \A t \in Tracks \ opened : delivered'[t] = delivered[t]
        BY <3>2, <4>1 DEF GetRead
      <4> QED
        BY <4>2 DEF Opening
    <3>3. CASE SeekLocked \/ SeekLockedNoCues
      BY <3>3 DEF SeekLocked, SeekLockedNoCues
    <3> QED
      BY <3>1, <3>2, <3>3, BytesMove DEF DWriteStore, FlushTrack, CloseLocked, CallOpen, history
  <2> QED
    BY <2>1, <2>2
<1> QED
  BY <1>1, <1>2, <1>3, <1>4, <1>5 DEF Opening

LEMMA ReadingKept == Typed /\ Fresh /\ Opening /\ Reading /\ [Next]_vars => Reading'
<1> SUFFICES ASSUME Typed, Fresh, Opening, Reading, [Next]_vars PROVE Reading'
  OBVIOUS
<1>0. TypeOK /\ Control
  BY DEF Typed
<1>1. CASE UNCHANGED <<todo, pos>>
  BY <1>1 DEF Reading
<1>2. ASSUME todo' = <<>>
      PROVE  Reading'
  BY <1>2, IdsEmpty DEF Reading, Below
<1>3. CASE DLock
  <2>1. CASE pos <= Len(File)
    <3>1. pos \in 1..Len(File) /\ gen \in 0..MaxSeeks
      BY <1>0, <2>1, FileAssumption DEF TypeOK
    <3>2. todo' = Cluster(pos) /\ pos' = pos + 1
      BY <1>3, <2>1 DEF DLock
    <3> QED
      BY <3>1, <3>2, IdsCluster DEF Reading
  <2>2. CASE ~(pos <= Len(File))
    <3>1. todo = <<>>
      BY <1>3 DEF DLock, Fresh, Between
    <3>2. todo' = todo
      BY <1>3, <2>2 DEF DLock
    <3> QED
      BY <1>2, <3>1, <3>2
  <2> QED
    BY <2>1, <2>2
<1>4. CASE DLeave \/ OpenReturn
  BY <1>2, <1>4 DEF DLeave, OpenReturn
<1>5. CASE SeekLocked
  <2>1. dpc \in Between
    BY <1>0, <1>5 DEF SeekLocked, LockFree, Opening, TypeOK, DemuxPlaces, Holding, Between
  <2> QED
    BY <1>2, <1>5, <2>1 DEF SeekLocked, Fresh, demux
<1>6. CASE DDrop \/ DPushStore
  <2>1. todo # <<>> /\ todo \in Seq(Tagged) /\ todo' = Tail(todo) /\ pos' = pos
    <3>1. dpc \in InFrame \/ todo # <<>>
      BY <1>6 DEF DDrop, DPushStore, Pushing, InFrame, Holding
    <3> QED
      BY <1>0, <1>6, <3>1 DEF DDrop, DPushStore, file, Control, TypeOK
  <2>2. /\ Rising(Tail(todo)) /\ Below({Head(todo).id}, IdsOf(Tail(todo)))
        /\ IdsOf(todo) = {Head(todo).id} \cup IdsOf(Tail(todo))
    BY <2>1, RisingTail, IdsHeadTail DEF Reading
  <2>3. Below(IdsOf(Tail(todo)), UnreadFrom(pos))
    BY <2>2 DEF Reading, Below
  <2>4. ASSUME Tail(todo) # <<>>, NEW f \in AllFrames, Head(Tail(todo)).id < f.id
        PROVE  f.id \in IdsOf(Tail(todo)) \cup UnreadFrom(pos)
    <3> DEFINE x == Head(todo)
               y == Head(Tail(todo))
    <3>1. x \in Tagged /\ y \in Tagged /\ Tail(todo) \in Seq(Tagged)
      BY <2>1, <2>4
    <3>2. x.id \in Nat /\ y.id \in Nat /\ f.id \in Nat
      BY <3>1, FramesTyped, FileOrder
    <3>3. y.id \in IdsOf(Tail(todo))
      BY <2>4, <3>1, IdsHeadTail
    <3>4. x.id < y.id
      BY <2>2, <3>3 DEF Below
    <3>5. x.id < f.id /\ x.id # f.id
      BY <2>4, <3>2, <3>4
    <3>6. f.id \in IdsOf(todo) \cup UnreadFrom(pos)
      BY <2>1, <3>5 DEF Reading
    <3> QED
      BY <2>2, <3>5, <3>6
  <2> HIDE DEF Reading
  <2>5. Reading'
    BY <2>1, <2>2, <2>3, <2>4 DEF Reading
  <2> QED
    BY <2>5
<1> QED
  BY <1>1, <1>3, <1>4, <1>5, <1>6, FileMoves

LEMMA OrphanedKept == TypeOK /\ Control /\ Opening /\ Orphaned /\ [Next]_vars => Orphaned'
<1> SUFFICES ASSUME TypeOK, Control, Opening, Orphaned, [Next]_vars,
                    orphan'.on, dpc' # "crashed"
             PROVE  dpc' \in InFrame /\ Out(Cur.track)' = <<>>
  BY DEF Orphaned
<1>1. ~DPushStore
  BY DEF DPushStore, NoOrphan
<1>2. CASE orphan' = orphan
  <2>1. dpc # "crashed" /\ dpc \in InFrame /\ Out(Cur.track) = <<>> /\ orphan.on
    BY <1>2, Goes DEF Going, Orphaned
  <2>2. dpc' \in InFrame
    BY <1>1, <2>1, Goes DEF Going
  <2>3. todo' = todo
    BY <1>1, <2>1, FileMoves
       DEF DLock, DLeave, DDrop, OpenReturn, SeekLocked, LockFree, InFrame, Holding, demux
  <2>4. PICK c \in Tracks : c = Cur.track
    BY <2>1, CurTyped
  <2>5. Cur' = Cur
    BY <2>3 DEF Cur
  <2>6. Out(c)' = <<>>
    BY <2>1, <2>4, OutElse
  <2> QED
    BY <2>2, <2>4, <2>5, <2>6 DEF Out
<1>3. CASE orphan' # orphan
  <2>1. PICK t \in Tracks : CallOpen(t)
    BY <1>1, <1>3, TracksMove DEF CreateFile, CloseLocked
  <2>2. InHand(t) /\ t \notin opened /\ UNCHANGED <<delivered, dpc, todo>>
        /\ ring' = [ring EXCEPT ![t] = <<>>]
    BY <1>3, <2>1 DEF CallOpen, history, demux
  <2>3. Cur'.track = t /\ dpc' \in InFrame
    BY <2>2 DEF InHand, Cur, InFrame
  <2>4. ring'[t] = <<>> /\ delivered'[t] = <<>>
    BY <2>2 DEF TypeOK, Opening
  <2> QED
    BY <2>3, <2>4 DEF Out
<1> QED
  BY <1>2, <1>3

LEMMA BeginningKept == TypeOK /\ Control /\ Opening /\ Beginning /\ [Next]_vars => Beginning'
<1> SUFFICES ASSUME TypeOK, Control, Opening, Beginning, [Next]_vars, gen' = 0
             PROVE  /\ dpc' \in Past => ~skip'
                    /\ \A t \in Tracks : Out(t)' # <<>> => ~skip'
                    /\ cpc' \notin {"seekTime", "seekSkip"}
                    /\ Settled' /\ cpc' \notin {"join", "closed"} => ~GivenUp'
  BY DEF Beginning
<1>1. ~SeekLocked /\ ~SeekLockedNoCues
  <2>1. gen \in Nat
    BY FileAssumption DEF TypeOK
  <2> QED
    BY <2>1 DEF SeekLocked, SeekLockedNoCues
<1>2. gen = 0
  BY <1>1, BytesMove DEF DWriteStore, GetRead, FlushTrack, CloseLocked, CallOpen, history
<1>3. cpc \notin {"seekTime", "seekSkip"} /\ cpc' \notin {"seekTime", "seekSkip"}
  BY <1>1, <1>2, Goes DEF Going, Beginning
<1>4. skip' => skip
  BY <1>3, Goes DEF Going, SeekSkip
<1>5. dpc' \in Past => ~skip'
  BY <1>2, <1>4, Goes DEF Going, Beginning
<1>6. ASSUME NEW t \in Tracks, Out(t)' # <<>>
      PROVE  ~skip'
  <2>1. CASE DWriteStore
    BY <1>2, <1>4, <2>1 DEF DWriteStore, Writing, Beginning, Past, InFrame, Holding
  <2>2. CASE ~DWriteStore
    <3>1. Out(t) # <<>>
      BY <1>6, <2>2, OutElse
    <3> QED
      BY <1>2, <1>4, <3>1 DEF Beginning
  <2> QED
    BY <2>1, <2>2
<1>7. Settled' /\ cpc' \notin {"join", "closed"} => ~GivenUp'
  BY <1>1, <1>2, Goes DEF Going, Beginning, GivenUp
<1> QED
  BY <1>3, <1>5, <1>6, <1>7

\* What is to come becomes less, frame by frame; until the client has it opened, the
\* file may start again.
NextGone ==
  /\ Cur \in Tagged /\ Cur.id \in Coming /\ Coming' = Coming \ {Cur.id}
  /\ Below({Cur.id}, Coming') /\ \A f \in AllFrames : Cur.id < f.id => f.id \in Coming

LEMMA ComingMoves ==
  ASSUME Typed, Fresh, Opening, Reading, [Next]_vars, Settled, Settled'
  PROVE  /\ DDrop \/ DWriteStore => NextGone
         /\ ~DDrop /\ ~DWriteStore =>
              \/ Coming' = Coming
              \/ OpenReturn
              \/ DLeave /\ Coming' \subseteq Coming /\ (todo = <<>> => Coming' = Coming)
<1>0. TypeOK /\ Control /\ Opening' /\ todo \in Seq(Tagged)
  BY OpeningKept DEF Typed, TypeOK
<1>1. dpc' # "crashed"
  BY <1>0 DEF Opening, Settled
<1>2. CASE DDrop \/ DWriteStore
  <2>1. todo # <<>> /\ dpc \notin InPush
    <3>1. CASE DDrop
      BY <3>1 DEF DDrop, InPush
    <3>2. CASE DWriteStore
      BY <1>0, <3>2 DEF DWriteStore, Writing, Control, InFrame, Holding, InPush
    <3> QED
      BY <1>2, <3>1, <3>2
  <2>2. Coming = IdsOf(todo) \cup UnreadFrom(pos)
    BY <2>1 DEF Coming, Handed
  <2>3. Coming' = IdsOf(Tail(todo)) \cup UnreadFrom(pos)
    <3>1. CASE DDrop
      BY <3>1 DEF DDrop, Coming, Handed, InPush, file
    <3>2. CASE DWriteStore
      BY <3>2 DEF DWriteStore, Coming, Handed, InPush, file
    <3> QED
      BY <1>2, <3>1, <3>2
  <2>4. /\ Below({Cur.id}, IdsOf(Tail(todo)))
        /\ IdsOf(todo) = {Cur.id} \cup IdsOf(Tail(todo))
    BY <1>0, <2>1, RisingTail, IdsHeadTail DEF Reading, Cur
  <2>5. Below({Cur.id}, UnreadFrom(pos))
    BY <2>4 DEF Reading, Below
  <2>6. Below({Cur.id}, Coming')
    BY <2>3, <2>4, <2>5 DEF Below
  <2>7. Cur \in Tagged /\ Cur.id \in Nat
    <3>1. Cur \in Tagged
      BY <1>0, <2>1 DEF Cur
    <3> QED
      BY <3>1, FramesTyped, FileOrder
  <2>8. Cur.id \notin Coming'
    BY <2>6, <2>7 DEF Below
  <2>9. \A f \in AllFrames : Cur.id < f.id => f.id \in Coming
    BY <2>1, <2>2 DEF Reading, Cur
  <2>10. Coming = {Cur.id} \cup Coming'
    BY <2>2, <2>3, <2>4
  <2>11. NextGone
    BY <2>6, <2>7, <2>8, <2>9, <2>10 DEF NextGone
  <2> QED
    BY <1>2, <2>11
<1> DEFINE Rest == \/ Coming' = Coming
                   \/ OpenReturn
                   \/ DLeave /\ Coming' \subseteq Coming /\ (todo = <<>> => Coming' = Coming)
<1>3. ASSUME DPushStore
      PROVE  Rest
  <2>1. Handed' = Handed /\ pos' = pos
    BY <1>3 DEF DPushStore, Pushing, Handed, InPush, file
  <2> QED
    BY <2>1 DEF Coming
<1>4. ASSUME DLeave
      PROVE  Rest
  <2>1. Coming' = IdsOf(<<>>) \cup UnreadFrom(pos) /\ Coming = IdsOf(todo) \cup UnreadFrom(pos)
    BY <1>4 DEF DLeave, Coming, Handed, InPush, file
  <2> QED
    BY <1>4, <2>1, IdsEmpty
<1>5. ASSUME DLock
      PROVE  Rest
  <2>1. todo = <<>> /\ Coming = UnreadFrom(pos)
    BY <1>5, IdsEmpty DEF DLock, Fresh, Between, Coming, Handed, InPush
  <2>2. CASE pos <= Len(File)
    <3>1. pos \in 1..Len(File) /\ gen \in 0..MaxSeeks
      BY <1>0, <2>2, FileAssumption DEF TypeOK
    <3>2. todo' = Cluster(pos) /\ pos' = pos + 1 /\ dpc' = "block"
      BY <1>5, <2>2 DEF DLock
    <3>3. Coming' = IdsOf(Cluster(pos)) \cup UnreadFrom(pos + 1)
      BY <3>2 DEF Coming, Handed, InPush
    <3> QED
      BY <2>1, <3>1, <3>3, IdsCluster
  <2>3. CASE ~(pos <= Len(File))
    BY <1>5, <2>3 DEF DLock, Coming, Handed, InPush
  <2> QED
    BY <2>2, <2>3
<1>6. ASSUME UNCHANGED <<todo, pos>>, ~DWriteStore, ~DPushStore
      PROVE  Rest
  <2>1. Handed' = Handed
    BY <1>1, <1>6, Goes DEF Going, Handed
  <2> QED
    BY <1>6, <2>1 DEF Coming
<1>7. ~SeekLocked
  BY DEF SeekLocked, Settled, ResetPlaces
<1>8. ~DDrop /\ ~DWriteStore => Rest
  BY <1>3, <1>4, <1>5, <1>6, <1>7, FileMoves
<1> QED
  BY <1>2, <1>8

LEMMA SequencedKept ==
  ASSUME Typed, Fresh, Joint, Ordered, [Next]_vars
  PROVE  Sequenced'
<1> SUFFICES ASSUME Settled', NEW t \in Tracks, t \in opened', t \in open'
             PROVE  /\ InSequence(Out(t)', Coming', t)
                    /\ gen' = 0 => Gapless(Out(t)', Coming', t)
  <2>1. open' \subseteq Tracks
    BY TypedKept DEF Typed, TypeOK
  <2> QED
    BY <2>1 DEF Sequenced
<1>0. TypeOK /\ Control /\ Opening /\ Reading /\ Beginning /\ Sequenced /\ Orphaned
  BY DEF Typed, Ordered
<1>a. ASSUME Out(t)' = <<>>
      PROVE  InSequence(Out(t)', Coming', t) /\ Gapless(Out(t)', Coming', t)
  BY <1>a, NothingInSequence
<1>1. CASE SeekLocked \/ SeekLockedNoCues
  <2>1. ring'[t] = <<>> /\ delivered'[t] = <<>>
    BY <1>1 DEF SeekLocked, SeekLockedNoCues, AllReset
  <2>2. Out(t)' = <<>>
    BY <2>1 DEF Out
  <2> QED
    BY <1>a, <2>2
<1>2. ~CloseLocked
  BY DEF CloseLocked
<1>3. ASSUME ~SeekLocked, ~SeekLockedNoCues
      PROVE  Settled /\ gen' = gen /\ (gen = 0 /\ DLeave => todo = <<>>)
  <2>1. cpc' \notin {"join", "closed"}
    BY <1>0, OpeningKept DEF Opening
  <2>2. /\ Settled /\ cpc \notin {"join", "closed"}
    BY <1>0, <1>3, <2>1, Goes DEF Going
  <2>3. gen' = gen
    BY <1>3, BytesMove DEF DWriteStore, GetRead, FlushTrack, CloseLocked, CallOpen, history
  <2>4. gen = 0 /\ DLeave => todo = <<>>
    BY <1>0, <2>2 DEF Beginning, DLeave
  <2> QED
    BY <2>2, <2>3, <2>4
<1>4. ASSUME t \notin opened
      PROVE  Out(t)' = <<>>
  <2>1. CreateFile /\ t \in half
    BY <1>4, TracksMove DEF DPushStore, CloseLocked, CallOpen, CreateFile
  <2>2. ring[t] = <<>> /\ delivered[t] = <<>> /\ UNCHANGED <<ring, delivered>>
    BY <1>0, <1>4, <2>1 DEF CreateFile, bufs, history, Joint, Halfway, Opening
  <2> QED
    BY <2>2 DEF Out
<1>5. ASSUME t \in opened, ~SeekLocked, ~SeekLockedNoCues
      PROVE  /\ InSequence(Out(t)', Coming', t)
             /\ gen' = 0 => Gapless(Out(t)', Coming', t)
  <2>1. t \in open
    BY <1>0, <1>2, <1>5, TracksMove DEF DPushStore, CallOpen, CreateFile, Opening
  <2>2. /\ Settled /\ gen' = gen /\ (gen = 0 /\ DLeave => todo = <<>>)
        /\ InSequence(Out(t), Coming, t)
        /\ gen = 0 => Gapless(Out(t), Coming, t)
    BY <1>0, <1>3, <1>5, <2>1 DEF Sequenced
  <2>3. ~OpenReturn
    BY <1>0, <1>5 DEF OpenReturn, Opening
  <2>4. CASE DWriteStore /\ ~orphan.on
    <3>1. NextGone
      BY <1>0, <2>2, <2>4, ComingMoves
    <3>2. /\ Cur \in Tagged /\ Cur.track \in Tracks
          /\ Out(Cur.track)' = Out(Cur.track) \o Bytes(Cur, Cur.size)
          /\ t # Cur.track => Out(t)' = Out(t)
      BY <1>0, <2>4, OutAfterWrite
    <3>3. Out(t) \in Seq(Byte) /\ Coming' \subseteq Coming /\ Coming' = Coming \ {Cur.id}
      BY <1>0, <3>1 DEF Out, TypeOK, NextGone
    <3>4. CASE t = Cur.track
      <4>1. PICK x \in Tagged : x = Cur
        BY <3>2
      <4>2. Out(t)' = Out(t) \o Bytes(x, x.size)
        <5>1. todo' = todo
          BY <2>4 DEF DWriteStore
        <5>2. Out(t)' = Out(Cur.track)'
          BY <3>4, <5>1 DEF Out, Cur
        <5> QED
          BY <3>2, <3>4, <4>1, <5>2
      <4>3. InSequence(Out(t) \o Bytes(x, x.size), Coming', t)
        BY <2>2, <3>1, <3>3, <3>4, <4>1, FrameAdded DEF NextGone
      <4>4. gen = 0 => Gapless(Out(t) \o Bytes(x, x.size), Coming', t)
        BY <2>2, <3>1, <3>3, <4>1, NextAdded DEF NextGone
      <4> QED
        BY <2>2, <4>2, <4>3, <4>4
    <3>5. CASE t # Cur.track
      BY <2>2, <3>2, <3>3, <3>5, FewerToCome, OtherPassed
    <3> QED
      BY <3>4, <3>5
  <2>5. CASE ~(DWriteStore /\ ~orphan.on)
    <3>1. Out(t)' = Out(t)
      BY <1>0, <1>5, <2>2, <2>5, OutElse
    <3>2. CASE DDrop \/ DWriteStore
      <4>1. NextGone
        BY <1>0, <2>2, <3>2, ComingMoves
      <4>2. Cur \in Tagged /\ Coming' \subseteq Coming /\ Coming' = Coming \ {Cur.id}
        BY <4>1 DEF NextGone
      <4>3. CASE t # Cur.track
        BY <2>2, <3>1, <4>2, <4>3, FewerToCome, OtherPassed
      <4>4. CASE t = Cur.track
        <5>1. gen = 0 => Out(t)' = <<>>
          <6>1. CASE DDrop
            BY <1>0, <2>1, <3>1, <4>4, <6>1 DEF DDrop, Skipped, Beginning
          <6>2. CASE DWriteStore
            BY <1>0, <2>5, <3>1, <4>4, <6>2 DEF DWriteStore, Writing, Orphaned
          <6> QED
            BY <3>2, <6>1, <6>2
        <5>2. InSequence(Out(t)', Coming', t)
          BY <2>2, <3>1, <4>2, FewerToCome
        <5> QED
          BY <1>a, <2>2, <5>1, <5>2
      <4> QED
        BY <4>3, <4>4
    <3>3. CASE ~DDrop /\ ~DWriteStore
      <4>1. \/ Coming' = Coming
            \/ DLeave /\ Coming' \subseteq Coming /\ (todo = <<>> => Coming' = Coming)
        BY <1>0, <2>2, <2>3, <3>3, ComingMoves
      <4>2. Coming' \subseteq Coming /\ (gen = 0 => Coming' = Coming)
        BY <2>2, <4>1
      <4> QED
        BY <2>2, <3>1, <4>2, FewerToCome
    <3> QED
      BY <3>2, <3>3
  <2> QED
    BY <2>4, <2>5
<1> QED
  BY <1>1, <1>4, <1>5, <1>a

LEMMA InitOrdered == Init => Ordered
<1> SUFFICES ASSUME Init PROVE Ordered
  OBVIOUS
<1>1. 1 \in 1..Len(File) /\ gen \in 0..MaxSeeks
  BY FileAssumption DEF Init
<1>2. todo = Cluster(1) /\ pos = 1 + 1
  BY DEF Init
<1>3. Reading
  BY <1>1, <1>2, IdsCluster DEF Reading
<1>4. \A t \in Tracks : Out(t) = <<>>
  BY DEF Init, Out
<1>5. Opening /\ Orphaned
  BY DEF Init, Opening, Orphaned, NoOrphan
<1>6. Beginning
  BY <1>4 DEF Init, Beginning, GivenUp, Past, InFrame, Holding
<1>7. Sequenced
  BY DEF Init, Sequenced
<1> QED
  BY <1>3, <1>5, <1>6, <1>7 DEF Ordered

LEMMA OrderedKept == Typed /\ Fresh /\ Joint /\ Ordered /\ [Next]_vars => Ordered'
BY OpeningKept, ReadingKept, OrphanedKept, BeginningKept, SequencedKept DEF Ordered, Typed

LEMMA OrderedIsInOrder == TypeOK /\ Ordered => InOrder
<1> SUFFICES ASSUME TypeOK, Ordered, Settled, NEW t \in opened \cap open
             PROVE  LET out == Out(t)
                        ids == {b.id : b \in Range(out)}
                    IN  /\ \A i \in 1..(Len(out) - 1) : out[i].id <= out[i + 1].id
                        /\ \A id \in ids : \E f \in FramesOf(t) :
                             f.id = id
                             /\ f.size = Cardinality({i \in 1..Len(out) : out[i].id = id})
                        /\ gen = 0 => \A f \in FramesOf(t) :
                             (\E a, b \in ids : a < f.id /\ f.id < b) => f.id \in ids
  BY DEF InOrder, Out
<1> DEFINE out == Out(t)
           ids == {b.id : b \in Range(out)}
<1>1. InSequence(out, Coming, t) /\ (gen = 0 => Gapless(out, Coming, t))
  BY DEF Ordered, Sequenced
<1>2. ids = IdsOf(out)
  BY DEF IdsOf, Range
<1>3. out \in Seq(Byte)
  BY DEF Out, TypeOK
<1> HIDE DEF out, ids
<1>4. \A i \in 1..(Len(out) - 1) : out[i].id <= out[i + 1].id
  BY <1>1 DEF InSequence, Sorted
<1>5. \A id \in ids : \E f \in FramesOf(t) :
        f.id = id /\ f.size = Cardinality({i \in 1..Len(out) : out[i].id = id})
  BY <1>1, <1>2 DEF InSequence, Whole, Count
<1>6. ASSUME gen = 0, NEW f \in FramesOf(t), NEW a \in ids, NEW b \in ids, a < f.id, f.id < b
      PROVE  f.id \in ids
  <2>1. f.id \in ids \cup Coming
    BY <1>1, <1>2, <1>6 DEF Gapless
  <2>2. f.id \in Coming => b < f.id
    BY <1>1, <1>2 DEF InSequence, Below
  <2>3. f.id \in Nat /\ b \in Nat
    <3>1. f \in AllFrames
      BY DEF FramesOf
    <3>2. b \in Ids
      <4>1. PICK i \in DOMAIN out : b = out[i].id
        BY <1>2 DEF IdsOf
      <4>2. out[i] \in Byte
        BY <1>3
      <4> QED
        BY <4>1, <4>2 DEF Byte
    <3> QED
      BY <3>1, <3>2, FileOrder
  <2> QED
    BY <1>6, <2>1, <2>2, <2>3
<1> QED
  BY <1>4, <1>5, <1>6 DEF out, ids

(***************************************************************************)
(* What a track hands out is whole frames of the track, in file order,     *)
(* and until the first seek none is missing between two of them: although  *)
(* tracks are opened while the demux thread is in the middle of a cluster, *)
(* extractors are replaced under it, and seeks meet it anywhere.           *)
(***************************************************************************)
THEOREM InOrderHolds == Spec => []InOrder
<1>1. Spec => [](Typed /\ Fresh /\ Joint /\ Ordered)
  <2>1. Init => Typed /\ Fresh /\ Joint /\ Ordered
    BY InitTyped, InitFresh, InitJoint, InitOrdered
  <2>2. Typed /\ Fresh /\ Joint /\ Ordered /\ [Next]_vars => (Typed /\ Fresh /\ Joint /\ Ordered)'
    BY TypedKept, FreshKept, JointKept, OrderedKept
  <2> QED
    BY <2>1, <2>2, PTL DEF Spec
<1>2. Typed /\ Fresh /\ Joint /\ Ordered => InOrder
  BY OrderedIsInOrder DEF Typed
<1> QED
  BY <1>1, <1>2, PTL

-----------------------------------------------------------------------------
(***************************************************************************)
(* Samples.  A record in the cache stands for all of its frame, or, if it  *)
(* is the oldest, for what the bytes handed out have left of it.           *)
(***************************************************************************)
Untouched(r, t) ==
  \E f \in FramesOf(t) : f.id = r.id /\ r.pts = f.tick * NsPerTick /\ r.left = f.size
Begun(r, out, t) ==
  /\ r.pts = Taken /\ out[Len(out)].id = r.id
  /\ \E f \in FramesOf(t) : f.id = r.id /\ Count(out, r.id) + r.left = f.size
Oldest(r, out, t) ==
  /\ \A x \in IdsOf(out) : x <= r.id
  /\ IF r.id \in IdsOf(out) THEN Begun(r, out, t) ELSE Untouched(r, t)
Accounted(fs, out, t) ==
  /\ Rising(fs) /\ \A i \in 2..Len(fs) : Untouched(fs[i], t)
  /\ fs # <<>> => Oldest(fs[1], out, t)

LEMMA IdsAppend ==
  ASSUME NEW S, NEW u \in Seq(S), NEW x \in S
  PROVE  IdsOf(Append(u, x)) = IdsOf(u) \cup {x.id}
<1>1. Append(u, x) = u \o <<x>> /\ <<x>> \in Seq(S)
  BY AppendIsConcat
<1>2. IdsOf(<<x>>) = {x.id}
  <2>1. DOMAIN <<x>> = {1} /\ <<x>>[1] = x
    OBVIOUS
  <2> QED
    BY <2>1 DEF IdsOf
<1>3. PICK v \in Seq(S) : v = <<x>>
  BY <1>1
<1>4. IdsOf(u \o v) = IdsOf(u) \cup IdsOf(v)
  BY IdsJoined
<1> QED
  BY <1>1, <1>2, <1>3, <1>4

LEMMA RecordTyped ==
  ASSUME NEW r \in Record
  PROVE  /\ r.id \in Ids /\ r.id \in Nat /\ r.gen \in 0..MaxSeeks
         /\ r.left \in 0..RingCap /\ r.left \in Nat /\ r.pts \in Nat \cup {Taken}
<1>1. r.id \in Ids /\ r.gen \in 0..MaxSeeks /\ r.left \in 0..RingCap /\ r.pts \in Nat \cup {Taken}
  BY DEF Record
<1>2. r.id \in Nat
  BY <1>1, FileOrder
<1> QED
  BY <1>1, <1>2, FileAssumption

LEMMA IdsAreNat ==
  ASSUME NEW out \in Seq(Byte)
  PROVE  IdsOf(out) \subseteq Nat
<1> SUFFICES ASSUME NEW i \in DOMAIN out PROVE out[i].id \in Nat
  BY DEF IdsOf
<1>1. out[i] \in Byte
  OBVIOUS
<1>2. out[i].id \in Ids
  BY <1>1 DEF Byte
<1> QED
  BY <1>2, FileOrder

LEMMA UntouchedFacts ==
  ASSUME NEW r, NEW t, Untouched(r, t)
  PROVE  r.left \in Nat /\ r.left > 0
BY FileOrder DEF Untouched, FramesOf

LEMMA NoneAccounted == \A out, t : Accounted(<<>>, out, t)
<1>1. Rising(<<>>) /\ ~(\E i \in 2..Len(<<>>) : TRUE)
  BY IdsEmpty
<1> QED
  BY <1>1 DEF Accounted

\* A record that is added is of a frame above all that went before.
LEMMA PushAccounted ==
  ASSUME NEW fs \in Seq(Record), NEW out, NEW r \in Record, NEW t,
         Accounted(fs, out, t), Untouched(r, t), Below(IdsOf(out) \cup IdsOf(fs), {r.id}),
         IdsOf(out) \subseteq Nat
  PROVE  Accounted(Append(fs, r), out, t)
<1> DEFINE gs == Append(fs, r)
           n == Len(fs)
<1>1. /\ n \in Nat /\ gs \in Seq(Record) /\ Len(gs) = n + 1 /\ gs # <<>> /\ gs[n + 1] = r
      /\ \A i \in 1..n : gs[i] = fs[i]
      /\ DOMAIN gs = 1..(n + 1) /\ DOMAIN fs = 1..n
  OBVIOUS
<1> HIDE DEF gs, n
<1>2. r.id \in Nat /\ \A i \in 1..n : fs[i].id \in IdsOf(fs)
  BY <1>1, RecordTyped DEF IdsOf
<1>3. Rising(gs)
  <2> SUFFICES ASSUME NEW i \in 1..(n + 1), NEW j \in 1..(n + 1), i < j
               PROVE  gs[i].id < gs[j].id
    BY <1>1 DEF Rising
  <2>1. i \in 1..n
    BY <1>1
  <2>2. CASE j \in 1..n
    <3>1. fs[i].id < fs[j].id
      BY <1>1, <2>1, <2>2 DEF Accounted, Rising
    <3> QED
      BY <1>1, <2>1, <2>2, <3>1
  <2>3. CASE j = n + 1
    <3>1. fs[i].id < r.id
      BY <1>2, <2>1 DEF Below
    <3> QED
      BY <1>1, <2>1, <2>3, <3>1
  <2> QED
    BY <1>1, <2>2, <2>3
<1>4. \A i \in 2..(n + 1) : Untouched(gs[i], t)
  <2> SUFFICES ASSUME NEW i \in 2..(n + 1) PROVE Untouched(gs[i], t)
    OBVIOUS
  <2>1. CASE i \in 1..n
    <3>1. gs[i] = fs[i] /\ i \in 2..n
      BY <1>1, <2>1
    <3>2. Untouched(fs[i], t)
      BY <3>1 DEF Accounted, n
    <3> QED
      BY <3>1, <3>2
  <2>2. CASE i = n + 1
    BY <1>1, <2>2
  <2> QED
    BY <1>1, <2>1, <2>2
<1>5. Oldest(gs[1], out, t)
  <2>1. CASE n = 0
    <3>1. gs[1] = r
      BY <1>1, <2>1
    <3>2. r.id \notin IdsOf(out) /\ \A x \in IdsOf(out) : x <= r.id
      BY <1>2 DEF Below
    <3> QED
      BY <3>1, <3>2 DEF Oldest
  <2>2. CASE n # 0
    <3>1. 1 \in 1..n
      BY <1>1, <2>2
    <3>2. gs[1] = fs[1] /\ fs # <<>>
      BY <1>1, <3>1
    <3> QED
      BY <3>2 DEF Accounted
  <2> QED
    BY <2>1, <2>2
<1>6. Accounted(gs, out, t)
  BY <1>1, <1>3, <1>4, <1>5 DEF Accounted
<1> QED
  BY <1>6 DEF gs

\* The record that follows the oldest has bytes, none of which were handed out.
LEMMA PopAccounted ==
  ASSUME NEW fs \in Seq(Record), NEW out \in Seq(Byte), NEW t, fs # <<>>, Accounted(fs, out, t)
  PROVE  /\ Accounted(Tail(fs), out, t)
         /\ Tail(fs) # <<>> => Tail(fs)[1].left \in Nat /\ Tail(fs)[1].left > 0
<1> DEFINE gs == Tail(fs)
           n == Len(fs)
<1>1. /\ n \in Nat /\ n > 0 /\ gs \in Seq(Record) /\ Len(gs) = n - 1 /\ Head(fs) = fs[1]
      /\ \A i \in 1..(n - 1) : gs[i] = fs[i + 1]
  OBVIOUS
<1>2. Rising(gs) /\ Below({fs[1].id}, IdsOf(gs))
  BY <1>1, RisingTail DEF Accounted
<1>a. \A i \in 2..n : Untouched(fs[i], t)
  BY DEF Accounted
<1>b. \A x \in IdsOf(out) : x <= fs[1].id
  BY DEF Accounted, Oldest
<1> HIDE DEF gs, n
<1>3. \A i \in 1..(n - 1) : Untouched(gs[i], t)
  <2> SUFFICES ASSUME NEW i \in 1..(n - 1) PROVE Untouched(gs[i], t)
    OBVIOUS
  <2>1. i + 1 \in 2..n /\ gs[i] = fs[i + 1]
    BY <1>1
  <2>2. Untouched(fs[i + 1], t)
    BY <1>a, <2>1
  <2> QED
    BY <2>1, <2>2
<1>4. ASSUME gs # <<>>
      PROVE  Oldest(gs[1], out, t) /\ gs[1].left \in Nat /\ gs[1].left > 0
  <2>1. 1 \in 1..(n - 1) /\ 1 \in DOMAIN gs
    BY <1>1, <1>4
  <2>2. fs[1].id < gs[1].id
    BY <1>2, <2>1 DEF Below, IdsOf
  <2>3. fs[1].id \in Nat /\ gs[1].id \in Nat
    <3>1. fs[1] \in Record /\ gs[1] \in Record
      BY <1>1, <2>1
    <3> QED
      BY <3>1, RecordTyped
  <2>4. IdsOf(out) \subseteq Nat
    BY IdsAreNat
  <2>5. gs[1].id \notin IdsOf(out) /\ \A x \in IdsOf(out) : x <= gs[1].id
    BY <1>b, <2>2, <2>3, <2>4
  <2>6. Untouched(gs[1], t)
    BY <1>3, <2>1
  <2>7. Oldest(gs[1], out, t)
    BY <2>5, <2>6 DEF Oldest
  <2> QED
    BY <2>6, <2>7, UntouchedFacts
<1>5. \A i \in 2..Len(gs) : Untouched(gs[i], t)
  BY <1>1, <1>3
<1>6. Accounted(gs, out, t)
  BY <1>2, <1>4, <1>5 DEF Accounted
<1> QED
  BY <1>4, <1>6 DEF gs

\* Some bytes of the oldest are handed out.
LEMMA ReadAccounted ==
  ASSUME NEW fs \in Seq(Record), NEW gs \in Seq(Record), NEW out \in Seq(Byte), NEW t, fs # <<>>,
         Accounted(fs, out, t), NEW b \in Seq(Byte), Len(b) > 0, Len(b) <= fs[1].left,
         \A i \in 1..Len(b) : b[i].id = fs[1].id,
         Len(gs) = Len(fs), \A i \in 2..Len(fs) : gs[i] = fs[i],
         gs[1].id = fs[1].id, gs[1].left = fs[1].left - Len(b), gs[1].pts = Taken
  PROVE  Accounted(gs, out \o b, t)
<1> DEFINE r == fs[1]
           s == gs[1]
           w == out \o b
           m == Len(b)
<1>1. /\ Len(fs) \in Nat /\ Len(fs) > 0 /\ DOMAIN fs = 1..Len(fs) /\ DOMAIN gs = 1..Len(fs)
      /\ r \in Record /\ s \in Record /\ m \in Nat /\ gs # <<>>
  OBVIOUS
<1>2. r.id \in Nat /\ r.left \in Nat
  BY <1>1, RecordTyped
<1>3. /\ w \in Seq(Byte) /\ Len(w) = Len(out) + m /\ Len(out) \in Nat
      /\ w[Len(w)] = b[m]
  <2>1. \A i \in 1..(Len(out) + m) : w[i] = IF i <= Len(out) THEN out[i] ELSE b[i - Len(out)]
    BY ConcatProperties
  <2>2. w \in Seq(Byte) /\ Len(w) = Len(out) + m /\ Len(out) \in Nat
    BY ConcatProperties
  <2>3. m \in Nat /\ m > 0
    BY <1>1
  <2> HIDE DEF w, m
  <2>4. PICK k \in Nat : k = Len(out) + m
    BY <2>2, <2>3
  <2>5. k \in 1..(Len(out) + m) /\ ~(k <= Len(out)) /\ k - Len(out) = m
    BY <2>2, <2>3, <2>4
  <2>6. w[k] = b[m]
    BY <2>1, <2>5
  <2> QED
    BY <2>2, <2>4, <2>6
<1>4. \A i \in DOMAIN fs : gs[i].id = fs[i].id
  <2> SUFFICES ASSUME NEW i \in DOMAIN fs PROVE gs[i].id = fs[i].id
    OBVIOUS
  <2>1. i = 1 \/ i \in 2..Len(fs)
    BY <1>1
  <2> QED
    BY <2>1
<1>5. Rising(gs)
  <2>1. Rising(fs)
    BY DEF Accounted
  <2> QED
    BY <1>1, <1>4, <2>1 DEF Rising
<1>6. \A i \in 2..Len(gs) : Untouched(gs[i], t)
  BY DEF Accounted
<1>7. IdsOf(w) = IdsOf(out) \cup {r.id}
  <2>1. IdsOf(b) = {r.id}
    <3>1. DOMAIN b = 1..m /\ 1 \in 1..m
      BY <1>1
    <3> QED
      BY <3>1 DEF IdsOf
  <2> QED
    BY <2>1, IdsJoined
<1>8. Oldest(r, out, t)
  BY DEF Accounted
<1>9. \E f \in FramesOf(t) : f.id = r.id /\ Count(out, r.id) + r.left = f.size
  <2>1. CASE r.id \in IdsOf(out)
    BY <1>8, <2>1 DEF Oldest, Begun
  <2>2. CASE r.id \notin IdsOf(out)
    <3>1. Count(out, r.id) = 0
      BY <2>2, CountNone
    <3>2. PICK f \in FramesOf(t) : f.id = r.id /\ r.left = f.size
      BY <1>8, <2>2 DEF Oldest, Untouched
    <3> QED
      BY <1>2, <3>1, <3>2
  <2> QED
    BY <2>1, <2>2
<1>10. Count(w, r.id) = Count(out, r.id) + m /\ Count(out, r.id) \in Nat
  <2>1. PICK k : k = r.id
    OBVIOUS
  <2>2. Only(b, k)
    BY <2>1 DEF Only
  <2> HIDE DEF r, m, w
  <2>3. Count(out \o b, k) = Count(out, k) + Len(b)
    BY <2>2, CountAdded
  <2>4. Count(out, k) \in Nat
    BY CountNone
  <2> QED
    BY <2>1, <2>3, <2>4 DEF w, m
<1>11. Begun(s, w, t)
  <2>1. PICK f \in FramesOf(t) : f.id = r.id /\ Count(out, r.id) + r.left = f.size
    BY <1>9
  <2>2. Count(w, r.id) + s.left = f.size
    BY <1>1, <1>2, <1>10, <2>1
  <2>3. w[Len(w)].id = r.id
    <3>1. m \in 1..Len(b)
      BY <1>1
    <3> QED
      BY <1>3, <3>1
  <2> HIDE DEF w
  <2> QED
    BY <2>1, <2>2, <2>3 DEF Begun
<1>12. Oldest(s, w, t)
  <2>1. \A x \in IdsOf(w) : x <= s.id
    BY <1>2, <1>7, <1>8 DEF Oldest
  <2> HIDE DEF w
  <2> QED
    BY <1>7, <1>11, <2>1 DEF Oldest
<1> QED
  BY <1>1, <1>5, <1>6, <1>12 DEF Accounted

\* The record that is used up is the one about to be popped; and what is still to
\* be read lies above all records and all bytes handed out.
UsedUp(t) == frames[t] # <<>> /\ Head(frames[t]).left = 0 => cpc = "pop" /\ ctrack = t
Ahead == IdsOf(todo) \cup UnreadFrom(pos)
Tallied(t) ==
  /\ Accounted(frames[t], delivered[t], t) /\ UsedUp(t)
  /\ Below(IdsOf(delivered[t]) \cup IdsOf(frames[t]), Ahead)
Gone == {"join", "closed", "crashed"}
Tally ==
  /\ cpc \notin Gone => opened \subseteq open
  /\ Settled => \A t \in opened \cap open : Tallied(t)

LEMMA FramesMove ==
  ASSUME [Next]_vars
  PROVE  \/ UNCHANGED <<frames, delivered>>
         \/ DPushStore \/ GetRead \/ GetPop \/ ClearTrack
         \/ SeekLocked \/ SeekLockedNoCues \/ CloseLocked \/ \E t \in Tracks : CallOpen(t)
<1> USE DEF bufs, history
<1>1. CASE DCheck \/ DSwitch \/ DLock \/ DLockReleased \/ DLeave \/ DDrop \/ DTake
  BY <1>1 DEF DCheck, DSwitch, DLock, DLockReleased, Crash, DLeave, DDrop, DTake
<1>2. CASE DUnskip \/ DUnskipTime \/ DWriteHalf \/ DWriteStore \/ DWriteFull \/ DAnnounce \/ DRelock
  BY <1>2 DEF DUnskip, DUnskipTime, DWriteHalf, Crash, DWriteStore, DWriteFull, DAnnounce, DRelock
<1>3. CASE DPushWait \/ DUnlock
  BY <1>3 DEF DPushWait, DUnlock
<1>4. CASE OpenReturn \/ CreateFile \/ GetNothing \/ GetMore \/ GetReturn
  BY <1>4 DEF OpenReturn, CreateFile, GetNothing, GetMore, GetReturn
<1>5. CASE SeekFlag \/ CloseState \/ CloseFlag \/ FlushTrack \/ SeekLockedJunkCues
  BY <1>5 DEF SeekFlag, CloseState, CloseFlag, FlushTrack, SeekLockedJunkCues, Crash
<1>6. CASE SeekTime \/ SeekSkip \/ SeekPlay \/ PreBuffer \/ PreTimeout \/ PreReturn \/ CloseJoin
  BY <1>6 DEF SeekTime, SeekSkip, SeekPlay, PreBuffer, PreTimeout, PreReturn, CloseJoin
<1>7. CASE (\E t \in Tracks, n \in Rooms : CallGet(t, n)) \/ CallClose \/ SpuriousWakeup
           \/ (\E kind \in SeekKinds, time \in Targets : CallSeek(kind, time))
  BY <1>7 DEF CallGet, CallSeek, CallClose, SpuriousWakeup
<1>8. CASE UNCHANGED vars
  BY <1>8 DEF vars
<1> QED
  BY <1>1, <1>2, <1>3, <1>4, <1>5, <1>6, <1>7, <1>8
     DEF Next, DemuxStep, ClientStep, ClientCall

\* Where the client goes, and with which track.
ClientGoing ==
  /\ cpc \in Gone => cpc' \in Gone
  /\ cpc = "pop" => (cpc' = "pop" /\ ctrack' = ctrack) \/ GetPop \/ cpc' = "crashed"
  /\ cpc' = "get" => (cpc = "get" /\ room' = room) \/ GetMore \/ (\E t \in Tracks, n \in Rooms : CallGet(t, n))

LEMMA ClientGoes == TypeOK /\ Opening /\ [Next]_vars => ClientGoing
<1> SUFFICES ASSUME Opening, [Next]_vars PROVE ClientGoing
  OBVIOUS
<1> USE DEF ClientGoing, Gone, call
<1>1. CASE DCheck \/ DSwitch \/ DLock \/ DLockReleased \/ DLeave \/ DDrop \/ DTake
  BY <1>1 DEF DCheck, DSwitch, DLock, DLockReleased, Crash, DLeave, DDrop, DTake
<1>2. CASE DUnskip \/ DUnskipTime \/ DWriteHalf \/ DWriteStore \/ DWriteFull \/ DAnnounce \/ DRelock
  BY <1>2 DEF DUnskip, DUnskipTime, DWriteHalf, Crash, DWriteStore, DWriteFull, DAnnounce, DRelock
<1>3. CASE DPushStore \/ DPushWait \/ DUnlock
  BY <1>3 DEF DPushStore, DPushWait, DUnlock
<1>4. CASE OpenReturn \/ CreateFile \/ GetNothing \/ GetMore \/ GetReturn \/ GetPop
  BY <1>4 DEF OpenReturn, CreateFile, GetNothing, GetMore, GetReturn, GetPop
<1>5. CASE GetRead
  BY <1>5 DEF GetRead
<1>6. CASE SeekFlag \/ CloseState \/ CloseFlag \/ FlushTrack \/ ClearTrack \/ SeekLockedJunkCues
  BY <1>6 DEF SeekFlag, CloseState, CloseFlag, StartReset, FlushTrack, ClearTrack,
              SeekLockedJunkCues, Crash
<1>7. CASE SeekLocked \/ SeekLockedNoCues \/ CloseLocked
  BY <1>7 DEF SeekLocked, SeekLockedNoCues, CloseLocked
<1>8. CASE SeekTime \/ SeekSkip \/ SeekPlay
  BY <1>8 DEF SeekTime, SeekSkip, SeekPlay, Idle
<1>9. CASE PreBuffer \/ PreTimeout \/ PreReturn \/ CloseJoin
  BY <1>9 DEF PreBuffer, PreTimeout, PreReturn, CloseJoin, Idle
<1>10. CASE \E t \in Tracks : CallOpen(t)
  BY <1>10 DEF CallOpen
<1>11. CASE \E t \in Tracks, n \in Rooms : CallGet(t, n)
  BY <1>11 DEF CallGet, Ready
<1>12. CASE CallClose \/ SpuriousWakeup
            \/ (\E kind \in SeekKinds, time \in Targets : CallSeek(kind, time))
  BY <1>12 DEF CallSeek, CallClose, Ready, SpuriousWakeup
<1>13. CASE UNCHANGED vars
  BY <1>13 DEF vars
<1> HIDE DEF ClientGoing
<1> QED
  BY <1>1, <1>2, <1>3, <1>4, <1>5, <1>6, <1>7, <1>8, <1>9, <1>10, <1>11, <1>12, <1>13
     DEF Next, DemuxStep, ClientStep, ClientCall

LEMMA AheadMoves ==
  ASSUME Typed, Fresh, Reading, [Next]_vars, ~SeekLocked, ~OpenReturn
  PROVE  Ahead' \subseteq Ahead
<1>0. TypeOK /\ Control /\ todo \in Seq(Tagged)
  BY DEF Typed, TypeOK
<1>1. CASE UNCHANGED <<todo, pos>>
  BY <1>1 DEF Ahead
<1>2. CASE DLeave
  BY <1>2, IdsEmpty DEF DLeave, Ahead, file
<1>3. CASE DDrop \/ DPushStore
  <2>1. todo # <<>> /\ todo' = Tail(todo) /\ pos' = pos
    <3>1. dpc \in InFrame \/ todo # <<>>
      BY <1>3 DEF DDrop, DPushStore, Pushing, InFrame, Holding
    <3> QED
      BY <1>0, <1>3, <3>1 DEF DDrop, DPushStore, file, Control
  <2>2. IdsOf(Tail(todo)) \subseteq IdsOf(todo)
    BY <1>0, <2>1, IdsHeadTail
  <2> QED
    BY <2>1, <2>2 DEF Ahead
<1>4. CASE DLock
  <2>1. CASE pos <= Len(File)
    <3>1. pos \in 1..Len(File) /\ gen \in 0..MaxSeeks
      BY <1>0, <2>1, FileAssumption DEF TypeOK
    <3>2. todo' = Cluster(pos) /\ pos' = pos + 1
      BY <1>4, <2>1 DEF DLock
    <3>3. Ahead' = IdsOf(Cluster(pos)) \cup UnreadFrom(pos + 1)
      BY <3>2 DEF Ahead
    <3> QED
      BY <3>1, <3>3, IdsCluster DEF Ahead
  <2>2. CASE ~(pos <= Len(File))
    BY <1>4, <2>2 DEF DLock, Ahead
  <2> QED
    BY <2>1, <2>2
<1> QED
  BY <1>1, <1>2, <1>3, <1>4, FileMoves

\* What a read does: it takes some bytes of the oldest record, all of one frame.
Taking(c, b, gs) ==
  /\ c = ctrack /\ c \in opened \cap open /\ c \in Tracks /\ b \in Seq(Byte) /\ gs \in Seq(Record)
  /\ frames[c] \in Seq(Record) /\ frames[c] # <<>> /\ delivered[c] \in Seq(Byte)
  /\ Len(b) > 0 /\ Len(b) <= frames[c][1].left /\ Only(b, frames[c][1].id)
  /\ Len(gs) = Len(frames[c]) /\ (\A i \in 2..Len(gs) : gs[i] = frames[c][i])
  /\ gs[1].id = frames[c][1].id /\ gs[1].left = frames[c][1].left - Len(b) /\ gs[1].pts = Taken
  /\ delivered' = [delivered EXCEPT ![c] = delivered[c] \o b]
  /\ frames' = [frames EXCEPT ![c] = gs]
  /\ sample' = FirstRound(Len(b)) /\ NextSize = frames[c][1].left
  /\ cpc' = (IF Len(b) = frames[c][1].left THEN "pop" ELSE "next") /\ ctrack' = ctrack

LEMMA ReadTakes ==
  ASSUME TypeOK, Control, Joint, Tally, GetRead, room > 0
  PROVE  \E c, b, gs : Taking(c, b, gs)
<1>0. PICK c \in Tracks : c = ctrack
  BY ReadFacts DEF GetRead
<1>1. PICK n \in Nat : n = IF room < NextSize THEN room ELSE NextSize
  BY ReadFacts DEF GetRead
<1>2. /\ ring[c] \in Seq(Byte) /\ frames[c] \in Seq(Record) /\ frames[c] # <<>>
      /\ Head(frames[c]) \in Record /\ 1 \in DOMAIN frames[c] /\ frames[c][1] = Head(frames[c])
      /\ NextSize = Head(frames[c]).left /\ delivered[c] \in Seq(Byte)
      /\ n <= NextSize /\ room \in Nat
  BY <1>0, <1>1, ReadFacts DEF GetRead
<1>3. PICK h \in Record : h = frames[c][1]
  BY <1>2
<1>4. h.left \in Nat /\ NextSize = h.left /\ n <= h.left /\ h.id \in Ids /\ h.gen \in 0..MaxSeeks
  BY <1>2, <1>3, RecordTyped
<1>5. cpc = "get" /\ Settled /\ c \in opened /\ c \in open /\ Tallied(c)
  <2>1. cpc = "get" /\ Settled /\ c \in opened
    BY <1>0 DEF GetRead, Settled, ResetPlaces, Control, GetPlaces
  <2>2. c \in open
    BY <2>1 DEF Tally, Gone
  <2> QED
    BY <2>1, <2>2 DEF Tally
<1>6. h.left # 0
  BY <1>2, <1>3, <1>5 DEF Tallied, UsedUp
<1>7. n > 0
  BY <1>1, <1>2, <1>4, <1>6
<1> DEFINE b == SubSeq(ring[c], 1, n)
           g == Shrunk(h, n)
           gs == [frames[c] EXCEPT ![1] = g]
<1>8. /\ n <= Len(ring[c]) /\ delivered' = [delivered EXCEPT ![c] = delivered[c] \o b]
      /\ frames' = [frames EXCEPT ![c] = gs]
      /\ sample' = FirstRound(n) /\ cpc' = (IF n = h.left THEN "pop" ELSE "next")
      /\ ctrack' = ctrack
  <2>1. frames' = [frames EXCEPT ![c] = [frames[c] EXCEPT ![1] = Shrunk(frames[c][1], n)]]
    BY <1>0, <1>1 DEF GetRead
  <2> HIDE DEF g
  <2>2. NextSize = h.left
    BY <1>4
  <2> QED
    BY <1>0, <1>1, <1>3, <2>1, <2>2 DEF GetRead, g
<1>9. /\ b \in Seq(Byte) /\ Len(b) = n /\ \A i \in 1..n : b[i] = ring[c][i]
  <2>1. PICK s \in Seq(Byte) : s = ring[c]
    BY <1>2
  <2>2. n <= Len(s)
    BY <1>8, <2>1
  <2>3. /\ SubSeq(s, 1, n) \in Seq(Byte) /\ Len(SubSeq(s, 1, n)) = n
        /\ \A i \in 1..n : SubSeq(s, 1, n)[i] = s[i]
    BY <2>2, Halves
  <2> QED
    BY <2>1, <2>3
<1>10. /\ g \in Record /\ g.id = h.id /\ g.left = h.left - n /\ g.pts = Taken
  <2>1. h.left - n \in 0..RingCap
    <3>1. h.left \in 0..RingCap /\ n \in Nat /\ n <= h.left
      BY <1>4, RecordTyped
    <3> QED
      BY <3>1, FileAssumption
  <2> QED
    BY <2>1 DEF Shrunk, Record
<1> HIDE DEF b, g
<1>11. /\ gs \in Seq(Record) /\ Len(gs) = Len(frames[c]) /\ gs[1] = g
       /\ \A i \in 2..Len(gs) : gs[i] = frames[c][i]
  <2>1. Len(frames[c]) \in Nat /\ Len(frames[c]) > 0
    BY <1>2
  <2> QED
    BY <1>2, <1>10, <2>1
<1>12. Only(b, h.id)
  <2> SUFFICES ASSUME NEW i \in 1..n PROVE b[i].id = h.id
    BY <1>9 DEF Only
  <2> DEFINE u == Bytes(h, h.left)
             v == FlattenSeq(Parts(Tail(frames[c])))
             w == InFlight(c)
  <2>1. ring[c] = Described(c) \o w
    BY <1>5 DEF Joint, Agreement
  <2>2. Described(c) = u \o v /\ u \in Seq(Byte) /\ v \in Seq(Byte)
    <3>1. Described(c) = FlattenSeq(Parts(frames[c]))
      BY DescribedIsFlat
    <3>2. PICK fs \in Seq(Record) : fs = frames[c] /\ fs # <<>> /\ Head(fs) = h
      BY <1>2, <1>3
    <3>3. /\ FlattenSeq(Parts(fs)) = Bytes(Head(fs), Head(fs).left) \o FlattenSeq(Parts(Tail(fs)))
          /\ Bytes(Head(fs), Head(fs).left) \in Seq(Byte)
          /\ FlattenSeq(Parts(Tail(fs))) \in Seq(Byte)
      BY <3>2, DescribedHead
    <3> QED
      BY <3>1, <3>2, <3>3
  <2>3. w \in Seq(Byte)
    BY InFlightTyped
  <2>4. Len(u) = h.left /\ u[i].id = h.id /\ i \in 1..Len(u)
    BY <1>4 DEF Bytes
  <2> HIDE DEF u, v, w
  <2>5. (u \o v) \o w = u \o (v \o w)
    BY <2>2, <2>3, Grouping DEF Grouped
  <2>6. v \o w \in Seq(Byte)
    BY <2>2, <2>3, ConcatProperties
  <2>7. (u \o (v \o w))[i] = u[i]
    <3>1. PICK x \in Seq(Byte) : x = v \o w
      BY <2>6
    <3>2. (u \o x)[i] = u[i]
      BY <2>2, <2>4
    <3> QED
      BY <3>1, <3>2
  <2> QED
    BY <1>9, <2>1, <2>2, <2>4, <2>5, <2>7
<1> HIDE DEF gs
<1>13. Taking(c, b, gs)
  BY <1>0, <1>2, <1>3, <1>4, <1>5, <1>7, <1>8, <1>9, <1>10, <1>11, <1>12 DEF Taking
<1> QED
  BY <1>13

\* A pop takes the oldest record, of which nothing is left.
LEMMA PopTakes ==
  ASSUME TypeOK, Control, GetPop
  PROVE  \E c \in Tracks :
           /\ c = ctrack /\ frames[c] \in Seq(Record) /\ frames[c] # <<>>
           /\ delivered[c] \in Seq(Byte) /\ UNCHANGED <<delivered, todo, pos>>
           /\ frames' = [frames EXCEPT ![c] = Tail(frames[c])]
<1>1. ctrack \in Tracks /\ frames[ctrack] # <<>>
  BY DEF GetPop, Control, GetPlaces, TypeOK
<1>2. /\ frames' = [frames EXCEPT ![ctrack] = Tail(frames[ctrack])]
      /\ UNCHANGED <<delivered, todo, pos>>
  BY DEF GetPop, history, file
<1> QED
  BY <1>1, <1>2 DEF TypeOK

\* A push adds the frame in hand as a whole, to its track unless the extractor was replaced.
LEMMA PushAdds ==
  ASSUME TypeOK, Control, DPushStore
  PROVE  \E c \in Tracks, r \in Record :
           /\ c = Cur.track /\ Untouched(r, c) /\ r.id \in Ahead
           /\ UNCHANGED <<delivered, cpc, ctrack>>
           /\ frames' = IF orphan.on THEN frames ELSE [frames EXCEPT ![c] = Append(frames[c], r)]
           /\ r.id = Cur.id /\ todo \in Seq(Tagged) /\ todo # <<>> /\ todo' = Tail(todo)
<1>1. dpc \in InFrame
  BY DEF DPushStore, Pushing, InFrame, Holding
<1>2. /\ todo # <<>> /\ Cur \in Tagged /\ Cur.track \in Tracks /\ todo \in Seq(Tagged)
      /\ Cur.id \in Ids /\ Cur.tick \in Nat /\ Cur.size \in 1..RingCap /\ Cur.gen \in 0..MaxSeeks
  BY <1>1, CurTyped DEF TypeOK
<1> DEFINE r == [id |-> Cur.id, gen |-> Cur.gen, left |-> Cur.size, pts |-> Cur.tick * NsPerTick]
<1>3. r \in Record
  <2>1. Cur.tick * NsPerTick \in Nat /\ Cur.size \in 0..RingCap
    BY <1>2, FileAssumption
  <2> QED
    BY <1>2, <2>1 DEF Record
<1>4. Untouched(r, Cur.track)
  <2>1. PICK x \in Tagged : x = Cur
    BY <1>2
  <2>2. PICK f \in AllFrames : /\ f.id = x.id /\ f.size = x.size /\ f.tick = x.tick
                               /\ f \in FramesOf(x.track)
    BY InHandIsOfFile
  <2> QED
    BY <2>1, <2>2 DEF Untouched
<1>5. Cur.id \in Ahead
  BY <1>2, IdsHeadTail DEF Ahead, Cur
<1>6. /\ frames' = IF orphan.on THEN frames ELSE [frames EXCEPT ![Cur.track] = Append(frames[Cur.track], r)]
      /\ UNCHANGED <<delivered, cpc, ctrack>> /\ todo' = Tail(todo)
  BY DEF DPushStore, history, call
<1>7. r.id = Cur.id
  OBVIOUS
<1> HIDE DEF r
<1> QED
  BY <1>2, <1>3, <1>4, <1>5, <1>6, <1>7

LEMMA TallyKept ==
  ASSUME Typed, Fresh, Joint, Opening, Reading, Tally, cpc = "get" => room > 0, [Next]_vars
  PROVE  Tally'
<1>0. TypeOK /\ Control
  BY DEF Typed
<1>1. cpc' \notin Gone => opened' \subseteq open'
  <2>1. CASE UNCHANGED <<open, half, opened, orphan>>
    BY <1>0, <2>1, ClientGoes DEF ClientGoing, Tally
  <2>2. CASE DPushStore
    BY <2>2 DEF DPushStore, call, Tally
  <2>3. CASE CreateFile
    BY <2>3 DEF CreateFile, Tally, Gone
  <2>4. CASE CloseLocked
    BY <2>4 DEF CloseLocked, Gone
  <2>5. CASE \E t \in Tracks : CallOpen(t)
    BY <2>5 DEF CallOpen, Tally, Gone
  <2> QED
    BY <2>1, <2>2, <2>3, <2>4, <2>5, TracksMove
<1>2. ASSUME Settled', NEW t \in opened', t \in open'
      PROVE  Tallied(t)'
  <2>0. t \in Tracks /\ TypeOK'
    BY <1>2, TypedKept DEF Typed, TypeOK
  <2>a. /\ frames[t] \in Seq(Record) /\ delivered[t] \in Seq(Byte)
        /\ frames \in [Tracks -> Seq(Record)] /\ delivered \in [Tracks -> Seq(Byte)]
    BY <1>0, <2>0 DEF TypeOK
  <2>b. ASSUME frames'[t] = <<>>, delivered'[t] = <<>>
        PROVE  Tallied(t)'
    BY <2>b, NoneAccounted, IdsEmpty DEF Tallied, UsedUp, Below
  <2>1. CASE SeekLocked \/ SeekLockedNoCues
    BY <2>0, <2>1, <2>b DEF SeekLocked, SeekLockedNoCues, AllReset
  <2>2. ASSUME t \notin opened
        PROVE  frames'[t] = <<>> /\ delivered'[t] = <<>>
    <3>1. CreateFile /\ t \in half
      BY <1>2, <2>2, TracksMove DEF DPushStore, CloseLocked, CallOpen, CreateFile
    <3> QED
      BY <2>0, <2>2, <3>1 DEF CreateFile, bufs, history, Joint, Halfway, Opening
  <2>3. ASSUME t \in opened, ~SeekLocked, ~SeekLockedNoCues
        PROVE  Tallied(t)'
    <3>1. Settled /\ t \in open /\ Tallied(t)
      <4>1. cpc' \notin {"join", "closed"}
        BY <1>0, <1>2, OpeningKept DEF Opening
      <4>2. Settled
        BY <1>2, <2>3, <4>1, Goes DEF Going
      <4>3. t \in open
        BY <1>2, <2>3, TracksMove DEF DPushStore, CallOpen, CreateFile, CloseLocked, Opening
      <4> QED
        BY <2>3, <4>2, <4>3 DEF Tally
    <3>2. Ahead' \subseteq Ahead
      BY <2>3, AheadMoves DEF OpenReturn, Opening
    <3>3. /\ Accounted(frames[t], delivered[t], t) /\ UsedUp(t)
          /\ Below(IdsOf(delivered[t]) \cup IdsOf(frames[t]), Ahead)
      BY <3>1 DEF Tallied
    <3>4. cpc = "pop" /\ ~GetPop => cpc' = "pop" /\ ctrack' = ctrack
      BY <1>0, <1>2, ClientGoes DEF ClientGoing, Settled
    <3>5. ASSUME frames'[t] = frames[t], delivered'[t] = delivered[t], ~GetPop
          PROVE  Tallied(t)'
      BY <3>2, <3>3, <3>4, <3>5 DEF Tallied, UsedUp, Below
    <3>6. CASE DPushStore
      <4>1. PICK c \in Tracks, r \in Record :
              /\ c = Cur.track /\ Untouched(r, c) /\ r.id \in Ahead
              /\ UNCHANGED <<delivered, cpc, ctrack>>
              /\ frames' = IF orphan.on THEN frames ELSE [frames EXCEPT ![c] = Append(frames[c], r)]
              /\ r.id = Cur.id /\ todo \in Seq(Tagged) /\ todo # <<>> /\ todo' = Tail(todo)
        BY <1>0, <3>6, PushAdds
      <4>2. CASE orphan.on \/ t # c
        BY <2>0, <2>a, <3>5, <3>6, <4>1, <4>2 DEF DPushStore, GetPop, Pushing
      <4>3. CASE ~orphan.on /\ t = c
        <5>1. frames'[t] = Append(frames[t], r) /\ delivered'[t] = delivered[t]
          BY <2>0, <2>a, <4>1, <4>3
        <5>2. Below(IdsOf(delivered[t]) \cup IdsOf(frames[t]), {r.id}) /\ Untouched(r, t)
          BY <3>3, <4>1, <4>3 DEF Below
        <5>3. Accounted(Append(frames[t], r), delivered[t], t)
          BY <2>a, <3>3, <5>2, IdsAreNat, PushAccounted
        <5>4. IdsOf(Append(frames[t], r)) = IdsOf(frames[t]) \cup {r.id}
          BY <2>a, IdsAppend
        <5>5. Below({r.id}, Ahead')
          <6>1. Below({Cur.id}, IdsOf(Tail(todo))) /\ IdsOf(todo) = {Cur.id} \cup IdsOf(Tail(todo))
            BY <4>1, RisingTail, IdsHeadTail DEF Reading, Cur
          <6>2. Below({Cur.id}, UnreadFrom(pos))
            BY <6>1 DEF Reading, Below
          <6>3. Ahead' = IdsOf(Tail(todo)) \cup UnreadFrom(pos)
            BY <3>6, <4>1 DEF DPushStore, file, Ahead
          <6> QED
            BY <4>1, <6>1, <6>2, <6>3 DEF Below
        <5>6. Below(IdsOf(delivered[t]) \cup IdsOf(Append(frames[t], r)), Ahead')
          BY <3>2, <3>3, <5>4, <5>5 DEF Below
        <5>7. frames'[t] # <<>> /\ Head(frames'[t]).left = 0 => cpc' = "pop" /\ ctrack' = t
          <6>1. PICK fs \in Seq(Record) : fs = frames[t]
            BY <2>a
          <6>2. CASE fs = <<>>
            <7>1. Head(Append(fs, r)) = r
              BY <6>2
            <7>2. r.left # 0
              BY <5>2, UntouchedFacts
            <7> QED
              BY <5>1, <6>1, <7>1, <7>2
          <6>3. CASE fs # <<>>
            <7>1. Head(Append(fs, r)) = Head(fs)
              BY <6>3
            <7> QED
              BY <3>3, <4>1, <5>1, <6>1, <6>3, <7>1 DEF UsedUp
          <6> QED
            BY <6>2, <6>3
        <5> QED
          BY <5>1, <5>3, <5>6, <5>7 DEF Tallied, UsedUp
      <4> QED
        BY <4>2, <4>3
    <3>7. CASE GetRead
      <4>0. cpc = "get" /\ room > 0
        BY <3>7 DEF GetRead
      <4>1. PICK c, b, gs : Taking(c, b, gs)
        BY <1>0, <3>7, <4>0, ReadTakes
      <4>2. CASE t # c
        <5>1. frames'[t] = frames[t] /\ delivered'[t] = delivered[t] /\ ~GetPop
          BY <2>0, <2>a, <4>0, <4>1, <4>2 DEF Taking, GetPop
        <5> QED
          BY <3>5, <5>1
      <4>3. CASE t = c
        <5>1. frames'[t] = gs /\ delivered'[t] = delivered[t] \o b
          BY <2>0, <2>a, <4>1, <4>3 DEF Taking
        <5>2. PICK fs \in Seq(Record) : fs = frames[t] /\ fs # <<>>
          BY <4>1, <4>3 DEF Taking
        <5>3. /\ gs \in Seq(Record) /\ b \in Seq(Byte) /\ Len(b) > 0 /\ Len(b) <= fs[1].left
              /\ Len(gs) = Len(fs) /\ \A i \in 2..Len(fs) : gs[i] = fs[i]
              /\ gs[1].id = fs[1].id /\ gs[1].left = fs[1].left - Len(b) /\ gs[1].pts = Taken
              /\ \A i \in 1..Len(b) : b[i].id = fs[1].id
              /\ Accounted(fs, delivered[t], t)
          BY <3>3, <4>1, <4>3, <5>2 DEF Taking, Only
        <5>4. Accounted(gs, delivered[t] \o b, t)
          BY <2>a, <5>2, <5>3, ReadAccounted
        <5>5. IdsOf(gs) = IdsOf(fs) /\ IdsOf(delivered[t] \o b) \subseteq IdsOf(delivered[t]) \cup IdsOf(fs)
          <6>1. Len(fs) \in Nat /\ Len(fs) > 0 /\ DOMAIN fs = 1..Len(fs) /\ DOMAIN gs = 1..Len(fs)
            BY <5>2, <5>3
          <6>2. ASSUME NEW i \in DOMAIN fs PROVE gs[i].id = fs[i].id
            <7>1. i = 1 \/ i \in 2..Len(fs)
              BY <6>1
            <7> QED
              BY <5>3, <7>1
          <6>3. IdsOf(gs) = IdsOf(fs)
            BY <6>1, <6>2 DEF IdsOf
          <6>4. IdsOf(b) \subseteq IdsOf(fs)
            <7>1. \A i \in DOMAIN b : b[i].id = fs[1].id
              BY <5>3
            <7> QED
              BY <6>1, <7>1 DEF IdsOf
          <6>5. IdsOf(delivered[t] \o b) = IdsOf(delivered[t]) \cup IdsOf(b)
            BY <2>a, <5>3, IdsJoined
          <6> QED
            BY <6>3, <6>4, <6>5
        <5>6. Below(IdsOf(delivered[t] \o b) \cup IdsOf(gs), Ahead')
          BY <3>2, <3>3, <5>2, <5>5 DEF Below
        <5>7. Head(gs).left = 0 => cpc' = "pop" /\ ctrack' = t
          <6>1. Head(gs) = gs[1] /\ fs[1] \in Record /\ Len(b) \in Nat
            BY <5>2, <5>3
          <6>2. fs[1].left \in Nat
            BY <6>1, RecordTyped
          <6>3. gs[1].left = 0 => Len(b) = fs[1].left
            BY <5>3, <6>1, <6>2
          <6> QED
            BY <4>1, <4>3, <5>2, <6>1, <6>3 DEF Taking
        <5> QED
          BY <5>1, <5>4, <5>6, <5>7 DEF Tallied, UsedUp
      <4> QED
        BY <4>2, <4>3
    <3>8. CASE GetPop
      <4>1. PICK c \in Tracks :
              /\ c = ctrack /\ frames[c] \in Seq(Record) /\ frames[c] # <<>>
              /\ delivered[c] \in Seq(Byte) /\ UNCHANGED <<delivered, todo, pos>>
              /\ frames' = [frames EXCEPT ![c] = Tail(frames[c])]
        BY <1>0, <3>8, PopTakes
      <4>2. CASE t # c
        <5>1. frames'[t] = frames[t] /\ delivered'[t] = delivered[t]
          BY <2>0, <2>a, <4>1, <4>2
        <5>2. ~(frames[t] # <<>> /\ Head(frames[t]).left = 0)
          BY <3>3, <4>1, <4>2 DEF UsedUp
        <5> QED
          BY <3>2, <3>3, <5>1, <5>2 DEF Tallied, UsedUp, Below
      <4>3. CASE t = c
        <5>1. frames'[t] = Tail(frames[t]) /\ delivered'[t] = delivered[t]
          BY <2>0, <2>a, <4>1, <4>3
        <5>2. /\ Accounted(Tail(frames[t]), delivered[t], t)
              /\ Tail(frames[t]) # <<>> => Tail(frames[t])[1].left # 0
          BY <2>a, <3>3, <4>1, <4>3, PopAccounted
        <5>3. IdsOf(Tail(frames[t])) \subseteq IdsOf(frames[t])
          BY <2>a, <4>1, <4>3, IdsHeadTail
        <5>4. Below(IdsOf(delivered[t]) \cup IdsOf(Tail(frames[t])), Ahead')
          BY <3>2, <3>3, <5>3 DEF Below
        <5>5. ~(Tail(frames[t]) # <<>> /\ Head(Tail(frames[t])).left = 0)
          <6>0. PICK fs \in Seq(Record) : fs = frames[t] /\ fs # <<>>
            BY <2>a, <4>1, <4>3
          <6>1. PICK gs \in Seq(Record) : gs = Tail(fs)
            BY <6>0, HeadTailProperties
          <6>2. gs # <<>> => Head(gs) = gs[1]
            OBVIOUS
          <6> QED
            BY <5>2, <6>0, <6>1, <6>2
        <5> QED
          BY <5>1, <5>2, <5>4, <5>5 DEF Tallied, UsedUp
      <4> QED
        BY <4>2, <4>3
    <3>9. CASE \E u \in Tracks : CallOpen(u)
      <4>1. PICK u \in Tracks : CallOpen(u)
        BY <3>9
      <4>2. t # u /\ frames' = [frames EXCEPT ![u] = <<>>] /\ delivered' = delivered /\ ~GetPop
        BY <1>2, <4>1 DEF CallOpen, history, GetPop
      <4>3. frames'[t] = frames[t] /\ delivered'[t] = delivered[t]
        BY <2>0, <2>a, <4>2
      <4> QED
        BY <3>5, <4>2, <4>3
    <3>10. ~ClearTrack /\ ~CloseLocked
      BY <3>1 DEF ClearTrack, CloseLocked, Settled, ResetPlaces
    <3> QED
      BY <2>3, <3>5, <3>6, <3>7, <3>8, <3>9, <3>10, FramesMove
  <2> QED
    BY <2>1, <2>2, <2>3, <2>b
<1>3. opened' \cap open' \subseteq opened'
  OBVIOUS
<1> HIDE DEF Tallied
<1> QED
  BY <1>1, <1>2 DEF Tally

\* SampleMatches, of a sample and what its track has handed out.
Right(s, out) ==
  LET first == out[s.from].id
      begins == s.from = 1 \/ out[s.from - 1].id # first
      frame == CHOOSE f \in AllFrames : f.id = first
  IN  /\ s.time = (IF begins THEN frame.tick * NsPerTick ELSE Taken)
      /\ s.end => Cardinality({i \in 1..Len(out) : out[i].id = first}) = frame.size

Sampled ==
  /\ cpc = "get" => room > 0
  /\ sample.kind = "found" =>
       /\ cpc \in GetPlaces \cup {"crashed"} /\ sample.from \in 1..Len(delivered[ctrack])
       /\ ctrack \in Tracks /\ Right(sample, delivered[ctrack])

LEMMA FrameChosen ==
  ASSUME NEW f \in AllFrames, NEW id, f.id = id
  PROVE  (CHOOSE g \in AllFrames : g.id = id) = f
<1>1. \A g \in AllFrames : g.id = id => g = f
  BY FileOrder
<1>2. \E g \in AllFrames : g.id = id
  OBVIOUS
<1> QED
  BY <1>1, <1>2

\* More bytes do not make it wrong, if its end is not followed by bytes of the same frame.
LEMMA RightStays ==
  ASSUME NEW s, NEW out \in Seq(Byte), NEW b \in Seq(Byte), NEW id, Only(b, id),
         s.from \in 1..Len(out), Right(s, out), s.end => id # out[s.from].id
  PROVE  s.from \in 1..Len(out \o b) /\ Right(s, out \o b)
<1> DEFINE w == out \o b
           first == out[s.from].id
<1>1. /\ w \in Seq(Byte) /\ Len(w) = Len(out) + Len(b) /\ Len(out) \in Nat /\ Len(b) \in Nat
      /\ \A i \in 1..Len(out) : w[i] = out[i]
  OBVIOUS
<1> HIDE DEF w
<1>2. s.from \in 1..Len(w) /\ w[s.from] = out[s.from]
  BY <1>1
<1>3. s.from # 1 => w[s.from - 1] = out[s.from - 1]
  <2>1. s.from # 1 => s.from - 1 \in 1..Len(out)
    BY <1>1
  <2> QED
    BY <1>1, <2>1
<1>4. s.end => Count(w, first) = Count(out, first)
  <2>1. ASSUME s.end PROVE Count(w, first) = Count(out, first)
    <3>1. PICK k : k = first /\ k # id
      BY <2>1
    <3>2. Count(out \o b, k) = Count(out, k)
      BY <3>1, CountElse
    <3> HIDE DEF first
    <3> QED
      BY <3>1, <3>2 DEF w
  <2> QED
    BY <2>1
<1>5. Right(s, w)
  BY <1>2, <1>3, <1>4 DEF Right, Count
<1> QED
  BY <1>2, <1>5 DEF w

\* The first bytes of a sample agree with the record they come from.
LEMMA RightStarts ==
  ASSUME NEW fs \in Seq(Record), fs # <<>>, NEW out \in Seq(Byte), NEW t, Accounted(fs, out, t),
         NEW b \in Seq(Byte), Len(b) > 0, Only(b, fs[1].id),
         NEW s, s.from = Len(out) + 1, s.time = fs[1].pts, s.end <=> Len(b) = fs[1].left
  PROVE  s.from \in 1..Len(out \o b) /\ Right(s, out \o b)
<1> DEFINE w == out \o b
           n == Len(out)
<1>1. PICK r \in Record : r = fs[1]
  <2>1. 1 \in 1..Len(fs)
    OBVIOUS
  <2> QED
    BY <2>1
<1>2. r.id \in Nat /\ r.left \in Nat /\ r.pts = s.time /\ Only(b, r.id)
  BY <1>1, RecordTyped
<1>3. Oldest(r, out, t)
  BY <1>1 DEF Accounted
<1>4. /\ w \in Seq(Byte) /\ Len(w) = n + Len(b) /\ n \in Nat /\ Len(b) \in Nat
      /\ \A i \in 1..n : w[i] = out[i]
      /\ w[n + 1] = b[1] /\ 1 \in 1..Len(b)
  OBVIOUS
<1>5. b[1].id = r.id
  BY <1>2, <1>4 DEF Only
<1>6. Count(w, r.id) = Count(out, r.id) + Len(b) /\ Count(out, r.id) \in Nat
  <2>1. PICK k : k = r.id
    OBVIOUS
  <2>2. Count(out \o b, k) = Count(out, k) + Len(b) /\ Count(out, k) \in Nat
    BY <1>2, <2>1, CountAdded, CountNone
  <2> QED
    BY <2>1, <2>2
<1> HIDE DEF w, n
<1>7. s.from \in 1..Len(w) /\ w[s.from].id = r.id /\ s.from = n + 1
  BY <1>4, <1>5 DEF n
<1>8. n # 0 => w[s.from - 1] = out[n]
  <2>1. n # 0 => n \in 1..n /\ s.from - 1 = n
    BY <1>4, <1>7
  <2> QED
    BY <1>4, <2>1
<1>9. n # 0 => out[n].id \in IdsOf(out)
  <2>1. n # 0 => n \in DOMAIN out
    BY <1>4 DEF n
  <2> QED
    BY <2>1 DEF IdsOf
<1>10. PICK f \in AllFrames : /\ f.id = r.id /\ Count(out, r.id) + r.left = f.size
                              /\ IF r.id \in IdsOf(out) THEN r.pts = Taken /\ out[n].id = r.id
                                 ELSE r.pts = f.tick * NsPerTick
  <2>1. CASE r.id \in IdsOf(out)
    BY <1>3, <2>1 DEF Oldest, Begun, FramesOf, n
  <2>2. CASE r.id \notin IdsOf(out)
    <3>1. Count(out, r.id) = 0
      BY <2>2, CountNone
    <3>2. PICK f \in AllFrames : f.id = r.id /\ r.pts = f.tick * NsPerTick /\ r.left = f.size
      BY <1>3, <2>2 DEF Oldest, Untouched, FramesOf
    <3> QED
      BY <1>2, <2>2, <3>1, <3>2
  <2> QED
    BY <2>1, <2>2
<1>11. (CHOOSE g \in AllFrames : g.id = r.id) = f
  BY <1>10, FrameChosen
<1>12. r.id \in IdsOf(out) => n # 0
  <2>1. n = 0 => DOMAIN out = {}
    BY <1>4 DEF n
  <2> QED
    BY <2>1 DEF IdsOf
<1>13. (s.from = 1 \/ w[s.from - 1].id # r.id) <=> r.id \notin IdsOf(out)
  BY <1>4, <1>7, <1>8, <1>9, <1>10, <1>12
<1>14. s.time = (IF s.from = 1 \/ w[s.from - 1].id # r.id THEN f.tick * NsPerTick ELSE Taken)
  BY <1>2, <1>10, <1>13
<1>15. s.end => Count(w, r.id) = f.size
  BY <1>1, <1>2, <1>6, <1>10
<1>16. Right(s, w)
  BY <1>7, <1>11, <1>14, <1>15 DEF Right, Count
<1> QED
  BY <1>7, <1>16 DEF w

LEMMA EndIsEnd ==
  ASSUME NEW fs \in Seq(Record), fs # <<>>, NEW out \in Seq(Byte), NEW t, Accounted(fs, out, t),
         fs[1].left > 0, NEW s, s.from \in 1..Len(out), Right(s, out), s.end
  PROVE  fs[1].id # out[s.from].id
<1> SUFFICES ASSUME fs[1].id = out[s.from].id PROVE FALSE
  OBVIOUS
<1>1. PICK r \in Record : r = fs[1]
  <2>1. 1 \in 1..Len(fs)
    OBVIOUS
  <2> QED
    BY <2>1
<1>2. r.left \in Nat /\ r.left > 0 /\ r.id = out[s.from].id
  BY <1>1, RecordTyped
<1>3. r.id \in IdsOf(out)
  <2>1. s.from \in DOMAIN out
    OBVIOUS
  <2> QED
    BY <1>2, <2>1 DEF IdsOf
<1>4. PICK f \in AllFrames : f.id = r.id /\ Count(out, r.id) + r.left = f.size
  BY <1>1, <1>3 DEF Accounted, Oldest, Begun, FramesOf
<1>5. (CHOOSE g \in AllFrames : g.id = r.id) = f
  BY <1>4, FrameChosen
<1>6. Count(out, r.id) = f.size /\ Count(out, r.id) \in Nat
  BY <1>2, <1>5, CountNone DEF Right, Count
<1> QED
  BY <1>2, <1>4, <1>6

\* While there is a sample, only a read changes what it is compared with.
LEMMA SampleMoves ==
  ASSUME Sampled, [Next]_vars, sample'.kind = "found", ~GetRead
  PROVE  /\ UNCHANGED <<sample, delivered, ctrack>>
         /\ cpc' \in GetPlaces \cup {"crashed"}
<1> USE DEF Sampled, call, history, GetPlaces
<1>1. CASE DCheck \/ DSwitch \/ DLock \/ DLockReleased \/ DLeave \/ DDrop \/ DTake
  BY <1>1 DEF DCheck, DSwitch, DLock, DLockReleased, Crash, DLeave, DDrop, DTake
<1>2. CASE DUnskip \/ DUnskipTime \/ DWriteHalf \/ DWriteStore \/ DWriteFull \/ DAnnounce \/ DRelock
  BY <1>2 DEF DUnskip, DUnskipTime, DWriteHalf, Crash, DWriteStore, DWriteFull, DAnnounce, DRelock
<1>3. CASE DPushStore \/ DPushWait \/ DUnlock
  BY <1>3 DEF DPushStore, DPushWait, DUnlock
<1>4. CASE OpenReturn \/ CreateFile \/ GetMore \/ GetReturn \/ GetPop
  BY <1>4 DEF OpenReturn, CreateFile, GetMore, GetReturn, GetPop, NoSample
<1>5. CASE GetNothing
  BY <1>5 DEF GetNothing, Junk, NoSample
<1>6. CASE SeekFlag \/ CloseState \/ CloseFlag \/ FlushTrack \/ ClearTrack \/ SeekLockedJunkCues
  BY <1>6 DEF SeekFlag, CloseState, CloseFlag, StartReset, FlushTrack, ClearTrack,
              SeekLockedJunkCues, Crash
<1>7. CASE SeekLocked \/ SeekLockedNoCues \/ CloseLocked
  BY <1>7 DEF SeekLocked, SeekLockedNoCues, CloseLocked
<1>8. CASE SeekTime \/ SeekSkip \/ SeekPlay
  BY <1>8 DEF SeekTime, SeekSkip, SeekPlay, Idle
<1>9. CASE PreBuffer \/ PreTimeout \/ PreReturn \/ CloseJoin
  BY <1>9 DEF PreBuffer, PreTimeout, PreReturn, CloseJoin, Idle
<1>10. CASE \E t \in Tracks : CallOpen(t)
  BY <1>10 DEF CallOpen
<1>11. CASE \E t \in Tracks, n \in Rooms : CallGet(t, n)
  BY <1>11 DEF CallGet, Ready
<1>12. CASE CallClose \/ SpuriousWakeup
            \/ (\E kind \in SeekKinds, time \in Targets : CallSeek(kind, time))
  BY <1>12 DEF CallSeek, CallClose, Ready, SpuriousWakeup
<1>13. CASE UNCHANGED vars
  BY <1>13 DEF vars
<1> QED
  BY <1>1, <1>2, <1>3, <1>4, <1>5, <1>6, <1>7, <1>8, <1>9, <1>10, <1>11, <1>12, <1>13
     DEF Next, DemuxStep, ClientStep, ClientCall

LEMMA SampledKept ==
  ASSUME Typed, Joint, Opening, Tally, Sampled, [Next]_vars
  PROVE  Sampled'
<1>0. TypeOK /\ Control
  BY DEF Typed
<1>1. cpc' = "get" => room' > 0
  <2>1. CASE cpc = "get" /\ room' = room
    BY <2>1 DEF Sampled
  <2>2. CASE GetMore
    BY <2>2 DEF GetMore
  <2>3. CASE \E t \in Tracks, n \in Rooms : CallGet(t, n)
    <3>1. PICK n \in Rooms : room' = n
      BY <2>3 DEF CallGet
    <3> QED
      BY <3>1, FileAssumption
  <2> QED
    BY <1>0, <2>1, <2>2, <2>3, ClientGoes DEF ClientGoing
<1> DEFINE Good == /\ cpc' \in GetPlaces \cup {"crashed"}
                   /\ sample'.from \in 1..Len(delivered'[ctrack'])
                   /\ ctrack' \in Tracks /\ Right(sample', delivered'[ctrack'])
<1>2. ASSUME sample'.kind = "found", ~GetRead
      PROVE  Good
  BY <1>2, SampleMoves DEF Sampled
<1>3. ASSUME GetRead, sample'.kind = "found"
      PROVE  Good
  <2>0. room > 0
    BY <1>3 DEF GetRead, Sampled
  <2>1. PICK c, b, gs : Taking(c, b, gs)
    BY <1>0, <1>3, <2>0, ReadTakes
  <2>2. c \in Tracks /\ ctrack' = c /\ ctrack = c /\ cpc' \in GetPlaces
    BY <2>1 DEF Taking, GetPlaces
  <2>3. PICK out \in Seq(Byte) : out = delivered[c]
    BY <2>1 DEF Taking
  <2>4. delivered'[ctrack'] = out \o b
    <3>1. delivered \in [Tracks -> Seq(Byte)]
      BY <1>0 DEF TypeOK
    <3> QED
      BY <2>1, <2>2, <2>3, <3>1 DEF Taking
  <2>5. PICK fs \in Seq(Record) : fs = frames[c] /\ fs # <<>>
    BY <2>1 DEF Taking
  <2>6. /\ b \in Seq(Byte) /\ Len(b) > 0 /\ Only(b, fs[1].id) /\ Len(b) <= fs[1].left
        /\ NextSize = fs[1].left /\ sample' = FirstRound(Len(b))
    BY <2>1, <2>5 DEF Taking
  <2>7. Accounted(fs, out, c)
    <3>1. Settled /\ c \in opened \cap open
      BY <1>3, <2>1 DEF Taking, GetRead, Settled, ResetPlaces
    <3> QED
      BY <2>3, <2>5, <3>1 DEF Tally, Tallied
  <2>8. fs[1].left > 0
    <3>1. fs[1] \in Record
      BY <2>5
    <3>2. fs[1].left \in Nat /\ Len(b) \in Nat
      BY <2>6, <3>1, RecordTyped
    <3> QED
      BY <2>6, <3>2
  <2>9. sample'.from \in 1..Len(out \o b) /\ Right(sample', out \o b)
    <3>1. CASE sample # NoSample
      <4>1. PICK s : s = sample
        OBVIOUS
      <4>2. sample' = s
        BY <2>6, <3>1, <4>1 DEF FirstRound
      <4>3. s.from \in 1..Len(out) /\ Right(s, out)
        BY <1>3, <2>2, <2>3, <4>1, <4>2 DEF Sampled
      <4>4. PICK id : id = fs[1].id
        OBVIOUS
      <4>5. s.end => id # out[s.from].id
        BY <2>5, <2>7, <2>8, <4>3, <4>4, EndIsEnd
      <4>6. Only(b, id) /\ b \in Seq(Byte)
        BY <2>6, <4>4
      <4>7. s.from \in 1..Len(out \o b) /\ Right(s, out \o b)
        BY <4>3, <4>5, <4>6, RightStays
      <4> QED
        BY <4>2, <4>7
    <3>2. CASE sample = NoSample
      <4>1. PICK s : s = sample'
        OBVIOUS
      <4>2. s = [kind |-> "found", from |-> Len(delivered[ctrack]) + 1,
                 time |-> Head(frames[ctrack]).pts, end |-> Len(b) = NextSize]
        BY <2>6, <3>2, <4>1 DEF FirstRound
      <4>3. s.from = Len(out) + 1 /\ s.time = fs[1].pts /\ (s.end <=> Len(b) = fs[1].left)
        <5>1. s.from = Len(out) + 1
          BY <2>2, <2>3, <4>2
        <5>2. s.time = Head(fs).pts /\ Head(fs) = fs[1]
          BY <2>2, <2>5, <4>2
        <5>3. s.end <=> Len(b) = NextSize
          BY <4>2, Zenon
        <5> QED
          BY <2>6, <5>1, <5>2, <5>3
      <4> QED
        BY <2>5, <2>6, <2>7, <4>1, <4>3, RightStarts
    <3> QED
      BY <3>1, <3>2
  <2> QED
    BY <2>2, <2>4, <2>9
<1> QED
  BY <1>1, <1>2, <1>3 DEF Sampled

LEMMA InitSampled == Init => Tally /\ Sampled
<1> SUFFICES ASSUME Init PROVE Tally /\ Sampled
  OBVIOUS
<1>1. Tally
  BY DEF Init, Tally
<1>2. Sampled
  BY DEF Init, Sampled, NoSample
<1> QED
  BY <1>1, <1>2

(***************************************************************************)
(* A sample's time and its end, which come from the cache of records, are  *)
(* true of its bytes, which come from the ring: in every interleaving of   *)
(* the two threads, for every division of the frames by the client's       *)
(* buffer, and across seeks and the opening of other tracks.               *)
(***************************************************************************)
THEOREM SampleMatchesHolds == Spec => []SampleMatches
<1> DEFINE Inv == Typed /\ Fresh /\ Joint /\ Opening /\ Reading /\ Tally /\ Sampled
<1>1. Init => Inv
  BY InitTyped, InitFresh, InitJoint, InitOrdered, InitSampled DEF Ordered
<1>2. Inv /\ [Next]_vars => Inv'
  <2> SUFFICES ASSUME Inv, [Next]_vars PROVE Inv'
    OBVIOUS
  <2>1. TypeOK /\ Control /\ (cpc = "get" => room > 0)
    BY DEF Typed, Sampled
  <2>2. Typed' /\ Fresh' /\ Joint'
    BY TypedKept, FreshKept, JointKept
  <2>3. Opening' /\ Reading'
    BY <2>1, OpeningKept, ReadingKept
  <2>4. Tally'
    BY <2>1, TallyKept
  <2>5. Sampled'
    BY SampledKept
  <2> QED
    BY <2>2, <2>3, <2>4, <2>5
<1>3. Inv => SampleMatches
  BY DEF Sampled, SampleMatches, Right
<1> HIDE DEF Inv
<1> QED
  BY <1>1, <1>2, <1>3, PTL DEF Spec
=============================================================================
