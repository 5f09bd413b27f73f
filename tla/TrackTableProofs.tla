-------------------------- MODULE TrackTableProofs --------------------------
(***************************************************************************)
(* Proofs about TrackTable, for every file whose Tracks element is a       *)
(* sequence of entries: any number of entries, any numbers, any children,  *)
(* in any order.                                                           *)
(***************************************************************************)
EXTENDS TrackTable, LeastElement

-----------------------------------------------------------------------------
(***************************************************************************)
(* Looking for tracks.                                                     *)
(***************************************************************************)

\* First finds the least of some positions.
LEMMA FirstLeast ==
  ASSUME NEW S, S \subseteq Nat, S # {}
  PROVE  First(S) \in S /\ \A j \in S : First(S) <= j
BY LeastOf DEF First

\* GetTrackByID answers with a track whenever there is one: with the first of the
\* number, or with the last of all if none has it.
LEMMA ByIDFinds ==
  ASSUME NEW ts \in Seq(Track), ts # <<>>, NEW n \in Nat
  PROVE  /\ GetTrackByID(ts, n) \in DOMAIN ts
         /\ Numbered(ts, n) # {} =>
              /\ ts[GetTrackByID(ts, n)].num = n
              /\ \A j \in DOMAIN ts : ts[j].num = n => GetTrackByID(ts, n) <= j
         /\ Numbered(ts, n) = {} => GetTrackByID(ts, n) = Len(ts)
<1>1. Len(ts) \in DOMAIN ts
  OBVIOUS
<1>2. Numbered(ts, n) \subseteq Nat
  BY DEF Numbered
<1> QED
  BY <1>1, <1>2, FirstLeast DEF GetTrackByID, Numbered

\* GetVideoTrackID and GetAudioTrackID give the number of a track of the type, or 0.
LEMMA IDOfType ==
  ASSUME NEW ts \in Seq(Track), NEW count, NEW type
  PROVE  /\ GetTrackID(ts, count, type) \in Nat
         /\ GetTrackID(ts, count, type) # 0 \/ (count # 0 /\ OfType(ts, type) # {}) =>
              \E i \in DOMAIN ts :
                ts[i].type = type /\ ts[i].num = GetTrackID(ts, count, type)
<1> DEFINE default == {i \in OfType(ts, type) : ts[i].default}
           among == IF default = {} THEN OfType(ts, type) ELSE default
<1>1. CASE count = 0 \/ OfType(ts, type) = {}
  BY <1>1 DEF GetTrackID
<1>2. CASE count # 0 /\ OfType(ts, type) # {}
  <2>1. among \subseteq Nat /\ among # {} /\ among \subseteq OfType(ts, type)
    BY <1>2 DEF OfType
  <2>2. First(among) \in among
    <3> HIDE DEF among
    <3> QED
      BY <2>1, FirstLeast
  <2>3. First(among) \in DOMAIN ts /\ ts[First(among)].type = type
    BY <2>1, <2>2 DEF OfType
  <2>4. ts[First(among)].num \in Nat
    <3>1. \A j \in DOMAIN ts : ts[j] \in Track
      OBVIOUS
    <3> HIDE DEF among
    <3> QED
      BY <2>3, <3>1 DEF Track
  <2>5. GetTrackID(ts, count, type) = ts[First(among)].num
    BY <1>2 DEF GetTrackID
  <2> QED
    BY <2>3, <2>4, <2>5
<1> QED
  BY <1>1, <1>2

-----------------------------------------------------------------------------
(***************************************************************************)
(* Types.                                                                  *)
(***************************************************************************)

\* A track stays a track when one of its members is set, and a table a table when
\* one of its tracks is.
LEMMA TrackSet ==
  ASSUME NEW t \in Track
  PROVE  /\ \A x \in Nat : [t EXCEPT !.num = x] \in Track
         /\ \A x \in Types : [t EXCEPT !.type = x] \in Track
         /\ \A x \in Codecs : [t EXCEPT !.codec = x] \in Track
         /\ \A x \in BOOLEAN : [t EXCEPT !.default = x] \in Track
         /\ \A x \in Types : [t EXCEPT !.media = x] \in Track
         /\ \A x \in Privates : [t EXCEPT !.private = x] \in Track
         /\ \A x \in Extractors : [t EXCEPT !.ext = x] \in Track
         /\ \A x \in Extractors, y \in Privates :
              [t EXCEPT !.ext = x, !.private = y] \in Track
BY DEF Track

LEMMA TableSet ==
  ASSUME NEW ts \in Seq(Track), NEW i \in DOMAIN ts, NEW t \in Track
  PROVE  /\ [ts EXCEPT ![i] = t] \in Seq(Track)
         /\ Len([ts EXCEPT ![i] = t]) = Len(ts)
OBVIOUS

\* Which extractor a codec gets.
LEMMA ExtractorFits ==
  ASSUME NEW ts \in Seq(Track), NEW i \in DOMAIN ts, NEW ext \in Extracting(ts[i])
  PROVE  /\ ext \in Extractors
         /\ ext = "avc" => ts[i].codec = "AVC"
         /\ ext = "aac" => ts[i].codec \in {"AAC", "PCM"}
BY DEF Extracting, CreateExtractor, Extractors

\* What opening a track leaves in the table: only the extractor and the private data
\* of that track are new.
OpenedAt(ts, i) ==
  \E ext \in Extracting(ts[i]), private \in Privates :
    /\ tracks'[i] = [ts[i] EXCEPT !.ext = ext, !.private = private]
    /\ private \in Remade(ext, ts[i].private)
    /\ ~Exits(ext, ts[i].private) /\ ~WildAccess(ext, ts[i])

LEMMA OpensOne ==
  ASSUME NEW ts \in Seq(Track), NEW i \in DOMAIN ts, Opens(ts, i)
  PROVE  /\ tracks' \in Seq(Track) /\ Len(tracks') = Len(ts) /\ DOMAIN tracks' = DOMAIN ts
         /\ \A k \in DOMAIN ts : k # i => tracks'[k] = ts[k]
         /\ OpenedAt(ts, i)
<1>1. PICK ext \in Extracting(ts[i]) :
        /\ ~Exits(ext, ts[i].private) /\ ~WildAccess(ext, ts[i])
        /\ \E private \in Remade(ext, ts[i].private) :
             tracks' = [ts EXCEPT ![i].ext = ext, ![i].private = private]
  BY DEF Opens
<1>2. PICK private \in Remade(ext, ts[i].private) :
        tracks' = [ts EXCEPT ![i].ext = ext, ![i].private = private]
  BY <1>1
<1>3. ts[i] \in Track
  OBVIOUS
<1>4. ts[i].private \in Privates
  BY <1>3 DEF Track
<1>5. private \in Privates
  BY <1>4 DEF Remade, Privates, FilePrivates
<1>6. ext \in Extractors
  BY ExtractorFits
<1>7. /\ tracks' \in Seq(Track) /\ Len(tracks') = Len(ts) /\ DOMAIN tracks' = DOMAIN ts
      /\ tracks'[i] = [ts[i] EXCEPT !.ext = ext, !.private = private]
      /\ \A k \in DOMAIN ts : k # i => tracks'[k] = ts[k]
  <2> DEFINE t == [ts[i] EXCEPT !.ext = ext, !.private = private]
  <2>1. t \in Track /\ tracks' = [ts EXCEPT ![i] = t]
    BY <1>2, <1>3, <1>5, <1>6, TrackSet
  <2> HIDE DEF t
  <2>2. [ts EXCEPT ![i] = t] \in Seq(Track) /\ Len([ts EXCEPT ![i] = t]) = Len(ts)
    BY <2>1, TableSet
  <2>3. tracks' \in Seq(Track) /\ Len(tracks') = Len(ts)
    BY <2>1, <2>2
  <2>4. DOMAIN tracks' = DOMAIN ts
    BY <2>3
  <2>5. tracks'[i] = t /\ \A k \in DOMAIN ts : k # i => tracks'[k] = ts[k]
    BY <2>1
  <2> QED
    BY <2>3, <2>4, <2>5 DEF t
<1>8. OpenedAt(ts, i)
  BY <1>1, <1>2, <1>5, <1>7, Zenon DEF OpenedAt
<1> QED
  BY <1>7, <1>8

\* What is left of the table when the opening fails: the entry has the extractor
\* that ended the program.
FailedAt(ts, i) ==
  \E ext \in Extracting(ts[i]) :
    /\ \/ phase' = "exited" /\ MayExit(ext, ts[i].private)
       \/ phase' = "crashed" /\ WildAccess(ext, ts[i])
    /\ tracks'[i] = [ts[i] EXCEPT !.ext = ext]

LEMMA FailsOne ==
  ASSUME NEW ts \in Seq(Track), NEW i \in DOMAIN ts, Fails(ts, i)
  PROVE  /\ tracks' \in Seq(Track) /\ Len(tracks') = Len(ts) /\ DOMAIN tracks' = DOMAIN ts
         /\ \A k \in DOMAIN ts : k # i => tracks'[k] = ts[k]
         /\ fault' = i /\ UNCHANGED <<mkvtV, mkvtA, current, closed>>
         /\ FailedAt(ts, i) /\ phase' \in {"exited", "crashed"}
<1>1. PICK ext \in Extracting(ts[i]) :
        /\ \/ phase' = "exited" /\ MayExit(ext, ts[i].private)
           \/ phase' = "crashed" /\ WildAccess(ext, ts[i])
        /\ tracks' = [ts EXCEPT ![i].ext = ext]
  BY DEF Fails
<1> DEFINE t == [ts[i] EXCEPT !.ext = ext]
<1>2. ts[i] \in Track
  OBVIOUS
<1>3. t \in Track
  BY <1>2, ExtractorFits, TrackSet
<1>4. tracks' = [ts EXCEPT ![i] = t]
  BY <1>1, <1>2
<1>5. fault' = i /\ UNCHANGED <<mkvtV, mkvtA, current, closed>>
  BY DEF Fails, handles
<1> HIDE DEF t
<1>6. tracks' \in Seq(Track) /\ Len(tracks') = Len(ts)
  BY <1>3, <1>4, TableSet
<1>7. DOMAIN tracks' = DOMAIN ts
  BY <1>6
<1>8. tracks'[i] = t /\ \A k \in DOMAIN ts : k # i => tracks'[k] = ts[k]
  BY <1>4
<1> QED
  BY <1>1, <1>5, <1>6, <1>7, <1>8 DEF FailedAt, t

\* The entry in hand.
LEMMA CurThere ==
  ASSUME TypeOK, left # {}
  PROVE  /\ Cur \in DOMAIN tracks /\ Cur = Len(tracks) /\ tracks[Cur] \in Track
         /\ Cur \in DOMAIN file /\ file[Cur] \in Entries
         /\ left \subseteq Children(file[Cur])
<1>1. tracks # <<>> /\ tracks \in Seq(Track) /\ Len(tracks) <= Len(file)
  BY DEF TypeOK
<1>2. file \in Seq(Entries)
  BY FilesAssumption DEF TypeOK
<1>3. Cur \in DOMAIN tracks /\ Cur = Len(tracks)
  BY <1>1 DEF Cur
<1>4. Cur \in DOMAIN file
  BY <1>1, <1>2, <1>3
<1>5. tracks[Cur] \in Track
  BY <1>1, <1>3
<1>6. file[Cur] \in Entries
  BY <1>2, <1>4
<1> QED
  BY <1>1, <1>3, <1>4, <1>5, <1>6 DEF TypeOK, Cur

\* handle_video_track opens a track that is in the table.
LEMMA VideoOpens ==
  ASSUME TypeOK, Video
  PROVE  /\ Attach(tracks) \in Seq(Track) /\ Len(Attach(tracks)) = Len(tracks)
         /\ DOMAIN Attach(tracks) = DOMAIN tracks
         /\ Attach(tracks)[Cur] = [tracks[Cur] EXCEPT !.media = "video"]
         /\ \A k \in DOMAIN tracks : k # Cur => Attach(tracks)[k] = tracks[k]
         /\ Chosen(Attach(tracks)) \in DOMAIN tracks
<1>1. Cur \in DOMAIN tracks /\ tracks[Cur] \in Track
  BY CurThere DEF Video, Child
<1>2. tracks \in Seq(Track)
  BY DEF TypeOK
<1>3. [tracks[Cur] EXCEPT !.media = "video"] \in Track
  BY <1>1, TrackSet DEF Types
<1>4. Attach(tracks) = [tracks EXCEPT ![Cur] = [tracks[Cur] EXCEPT !.media = "video"]]
  BY <1>1, <1>2 DEF Attach
<1>5. Attach(tracks) \in Seq(Track) /\ Len(Attach(tracks)) = Len(tracks)
  BY <1>1, <1>2, <1>3, <1>4, TableSet
<1>6. Attach(tracks) # <<>>
  BY <1>1, <1>2, <1>5
<1>7. GetTrackID(Attach(tracks), numTracks["video"] + 1, "video") \in Nat
  BY <1>5, IDOfType
<1>8. Chosen(Attach(tracks)) \in DOMAIN Attach(tracks)
  BY <1>5, <1>6, <1>7, ByIDFinds DEF Chosen
<1> QED
  BY <1>1, <1>2, <1>3, <1>4, <1>5, <1>8

(***************************************************************************)
(* Opening the video track, or an audio track, that is chosen once the     *)
(* table is complete.                                                      *)
(***************************************************************************)
LEMMA OpenVideoFinds ==
  ASSUME TypeOK, GetVideoTrackID # 0
  PROVE  /\ tracks \in Seq(Track) /\ tracks # <<>>
         /\ GetVideoTrackID \in Nat
         /\ GetTrackByID(tracks, GetVideoTrackID) \in DOMAIN tracks
<1>1. tracks \in Seq(Track)
  BY DEF TypeOK
<1>2. /\ GetVideoTrackID \in Nat
      /\ \E i \in DOMAIN tracks : tracks[i].num = GetVideoTrackID
  BY <1>1, IDOfType DEF GetVideoTrackID
<1> QED
  BY <1>1, <1>2, ByIDFinds

LEMMA SelectAudioFinds ==
  ASSUME TypeOK, SelectAudio
  PROVE  /\ tracks \in Seq(Track)
         /\ \E index \in 1..numTracks["audio"], i \in DOMAIN tracks :
              Fails(tracks, i) \/ (Opens(tracks, i) /\ Selected(i, index))
<1>0. PICK index \in (1..numTracks["audio"]) \ {current} :
        \E i \in Found(index) : OpenTrack(tracks, i, Selected(i, index))
  BY DEF SelectAudio
<1>1. PICK i \in Found(index) : OpenTrack(tracks, i, Selected(i, index))
  BY <1>0
<1>2. tracks \in Seq(Track) /\ tracks # <<>>
  <2>1. numTracks["audio"] \in IF tracks = <<>> THEN {0} ELSE Nat
    BY DEF TypeOK, Types
  <2> QED
    BY <1>1, <2>1 DEF TypeOK
<1>3. Len(tracks) \in DOMAIN tracks
  BY <1>2
<1>4. ASSUME NEW k \in DOMAIN tracks
      PROVE  GetTrackByID(tracks, tracks[k].num) \in DOMAIN tracks
  <2>1. tracks[k] \in Track
    BY <1>2
  <2>2. tracks[k].num \in Nat
    BY <2>1 DEF Track
  <2> QED
    BY <1>2, <2>2, ByIDFinds
<1>5. i \in DOMAIN tracks
  BY <1>1, <1>3, <1>4 DEF Found
<1> QED
  BY <1>1, <1>2, <1>5 DEF OpenTrack

(***************************************************************************)
(* Handling the children of an entry e, whose track is t.                  *)
(***************************************************************************)

\* u is t once child c of e has been handled.
Says(c, t, u, e) ==
  \/ c = "num" /\ (u = t \/ u = [t EXCEPT !.num = e.num])
  \/ c = "type" /\ u = [t EXCEPT !.type = e.type]
  \/ c = "codec" /\ u = [t EXCEPT !.codec = e.codec]
  \/ c = "default" /\ u = [t EXCEPT !.default = e.default]
  \/ c = "private" /\ u = [t EXCEPT !.private = e.private]
  \/ c \in Types /\ u = [t EXCEPT !.media = c]

LEMMA SaysTrack ==
  ASSUME NEW t \in Track, NEW e \in Entries, NEW c, NEW u, Says(c, t, u, e)
  PROVE  u \in Track /\ u.ext = t.ext /\ (c # "num" => u.num = t.num)
<1>1. /\ e.num \in Nat /\ e.type \in Types \cup {"other"} /\ e.codec \in Codecs
      /\ e.default \in BOOLEAN /\ e.private \in Privates
  BY DEF Entries, Privates
<1>2. CASE c = "num" /\ (u = t \/ u = [t EXCEPT !.num = e.num])
  BY <1>1, <1>2 DEF Track
<1>3. CASE c = "type" /\ u = [t EXCEPT !.type = e.type]
  BY <1>1, <1>3 DEF Track
<1>4. CASE c = "codec" /\ u = [t EXCEPT !.codec = e.codec]
  BY <1>1, <1>4 DEF Track
<1>5. CASE c = "default" /\ u = [t EXCEPT !.default = e.default]
  BY <1>1, <1>5 DEF Track
<1>6. CASE c = "private" /\ u = [t EXCEPT !.private = e.private]
  BY <1>1, <1>6 DEF Track
<1>7. CASE c \in Types /\ u = [t EXCEPT !.media = c]
  BY <1>1, <1>7 DEF Track, Types
<1> QED
  BY <1>2, <1>3, <1>4, <1>5, <1>6, <1>7 DEF Says

\* Setting the entry in hand: only its track is new.
LEMMA SetsCur ==
  ASSUME TypeOK, NEW c, Child(c), NEW u,
         \/ tracks' = [tracks EXCEPT ![Cur] = u]
         \/ tracks' = tracks /\ u = tracks[Cur]
  PROVE  /\ Len(tracks') = Len(tracks) /\ DOMAIN tracks' = DOMAIN tracks
         /\ tracks'[Cur] = u
         /\ \A k \in DOMAIN tracks : k # Cur => tracks'[k] = tracks[k]
         /\ u \in Track => tracks' \in Seq(Track)
<1>1. Cur \in DOMAIN tracks /\ tracks \in Seq(Track)
  BY CurThere DEF Child, TypeOK
<1> QED
  BY <1>1

ReadsChild == TrackNumber \/ TrackType \/ CodecID \/ FlagDefault \/ CodecPrivate \/ Audio

\* The steps that handle a child without opening a track.
LEMMA EntrySteps ==
  ASSUME TypeOK, ReadsChild
  PROVE  /\ phase = "parsing" /\ Cur \in DOMAIN tracks /\ Cur = Len(tracks)
         /\ tracks' \in Seq(Track)
         /\ Len(tracks') = Len(tracks) /\ DOMAIN tracks' = DOMAIN tracks
         /\ \A k \in DOMAIN tracks : k # Cur => tracks'[k] = tracks[k]
         /\ tracks'[Cur] \in Track
         /\ UNCHANGED <<file, phase, fault, mkvtV, mkvtA, current, closed>>
         /\ \E c \in left :
              /\ left' = left \ {c} /\ c # "video"
              /\ Says(c, tracks[Cur], tracks'[Cur], file[Cur])
              /\ c = "num" => TrackNumber
              /\ IF c = "audio" THEN Counted("audio") ELSE UNCHANGED numTracks
<1>1. left # {} /\ phase = "parsing" /\ UNCHANGED file
  BY DEF ReadsChild, TrackNumber, TrackType, CodecID, FlagDefault, CodecPrivate, Audio, Child
<1>2. /\ Cur \in DOMAIN tracks /\ Cur = Len(tracks) /\ tracks[Cur] \in Track
      /\ file[Cur] \in Entries /\ tracks \in Seq(Track)
  BY <1>1, CurThere DEF TypeOK
<1>3. UNCHANGED <<phase, fault, mkvtV, mkvtA, current, closed>>
  BY DEF ReadsChild, TrackNumber, TrackType, CodecID, FlagDefault, CodecPrivate, Audio,
         Sets, handles
<1>4. PICK c \in left : \E u :
        /\ Child(c) /\ c # "video" /\ Says(c, tracks[Cur], u, file[Cur])
        /\ \/ tracks' = [tracks EXCEPT ![Cur] = u]
           \/ tracks' = tracks /\ u = tracks[Cur]
        /\ c = "num" => TrackNumber
        /\ IF c = "audio" THEN Counted("audio") ELSE UNCHANGED numTracks
  <2>1. CASE TrackNumber
    <3>1. CASE NumberFree(file[Cur].num)
      BY <1>2, <2>1, <3>1 DEF TrackNumber, Child, Sets, Says
    <3>2. CASE ~NumberFree(file[Cur].num)
      BY <1>2, <2>1, <3>2 DEF TrackNumber, Child, Sets, Says
    <3> QED
      BY <3>1, <3>2
  <2>2. CASE TrackType
    BY <1>2, <2>2 DEF TrackType, Child, Sets, Says
  <2>3. CASE CodecID
    BY <1>2, <2>3 DEF CodecID, Child, Sets, Says
  <2>4. CASE FlagDefault
    BY <1>2, <2>4 DEF FlagDefault, Child, Sets, Says
  <2>5. CASE CodecPrivate
    BY <1>2, <2>5 DEF CodecPrivate, Child, Sets, Says
  <2>6. CASE Audio
    BY <1>2, <2>6 DEF Audio, Child, Says, Types
  <2> QED
    BY <2>1, <2>2, <2>3, <2>4, <2>5, <2>6 DEF ReadsChild
<1>5. PICK u :
        /\ Child(c) /\ c # "video" /\ Says(c, tracks[Cur], u, file[Cur])
        /\ \/ tracks' = [tracks EXCEPT ![Cur] = u]
           \/ tracks' = tracks /\ u = tracks[Cur]
        /\ c = "num" => TrackNumber
        /\ IF c = "audio" THEN Counted("audio") ELSE UNCHANGED numTracks
  BY <1>4
<1>6. u \in Track
  BY <1>2, <1>5, SaysTrack
<1>7. /\ Len(tracks') = Len(tracks) /\ DOMAIN tracks' = DOMAIN tracks
      /\ tracks'[Cur] = u /\ tracks' \in Seq(Track)
      /\ \A k \in DOMAIN tracks : k # Cur => tracks'[k] = tracks[k]
  BY <1>5, <1>6, SetsCur
<1> QED
  BY <1>1, <1>2, <1>3, <1>4, <1>5, <1>7 DEF Child

\* Counting leaves the counters numbers, and the index of the audio track in range.
LEMMA CountsUp ==
  ASSUME TypeOK, UNCHANGED numTracks \/ \E type \in Types : Counted(type)
  PROVE  /\ numTracks \in [Types -> Nat] /\ numTracks' \in [Types -> Nat]
         /\ numTracks'["audio"] >= numTracks["audio"]
         /\ UNCHANGED current => current' \in 0..numTracks'["audio"]
<1>1. numTracks \in [Types -> Nat] /\ current \in 0..numTracks["audio"]
  BY DEF TypeOK
<1>2. numTracks' \in [Types -> Nat] /\ numTracks'["audio"] >= numTracks["audio"]
  BY <1>1 DEF Counted, Types
<1>3. numTracks["audio"] \in Nat /\ numTracks'["audio"] \in Nat
  BY <1>1, <1>2 DEF Types
<1> QED
  BY <1>1, <1>2, <1>3

-----------------------------------------------------------------------------
LEMMA InitTyped == Init => TypeOK
BY DEF Init, TypeOK, Types

LEMMA StepTyped == TypeOK /\ [Next]_vars => TypeOK'
<1> SUFFICES ASSUME TypeOK, [Next]_vars PROVE TypeOK'
  OBVIOUS
<1>1. CASE StartEntry
  <2>1. NewTrack \in Track
    BY DEF NewTrack, Track, Types, Codecs, Privates, FilePrivates, Extractors
  <2>2. tracks \in Seq(Track)
    BY DEF TypeOK
  <2>3. /\ tracks' \in Seq(Track) /\ Len(tracks') = Len(tracks) + 1
        /\ tracks' # <<>> /\ DOMAIN tracks \subseteq DOMAIN tracks'
    BY <1>1, <2>1, <2>2 DEF StartEntry
  <2>4. Len(tracks) + 1 <= Len(file)
    <3>1. file \in Seq(Entries)
      BY FilesAssumption DEF TypeOK
    <3> QED
      BY <1>1, <2>2, <3>1 DEF StartEntry
  <2>5. UNCHANGED <<numTracks, current>> /\ numTracks' \in [Types -> Nat]
    BY <1>1, CountsUp DEF StartEntry, handles
  <2> QED
    BY <1>1, <2>2, <2>3, <2>4, <2>5 DEF StartEntry, TypeOK, handles
<1>2. CASE ReadsChild
  <2>1. /\ tracks' \in Seq(Track) /\ Len(tracks') = Len(tracks)
        /\ DOMAIN tracks' = DOMAIN tracks /\ tracks # <<>> /\ tracks' # <<>>
        /\ UNCHANGED <<file, phase, fault, mkvtV, mkvtA, current, closed>>
        /\ left' \subseteq left
        /\ UNCHANGED numTracks \/ Counted("audio")
    BY <1>2, EntrySteps
  <2>2. numTracks' \in [Types -> Nat] /\ current' \in 0..numTracks'["audio"]
    BY <2>1, CountsUp DEF Types
  <2> QED
    BY <2>1, <2>2 DEF TypeOK
<1>3. CASE Video
  <2> DEFINE ts == Attach(tracks)
             i == Chosen(ts)
  <2>1. /\ ts \in Seq(Track) /\ Len(ts) = Len(tracks) /\ i \in DOMAIN ts
        /\ tracks \in Seq(Track) /\ tracks # <<>>
    BY <1>3, VideoOpens DEF TypeOK
  <2>2. /\ Fails(ts, i) \/ (Opens(ts, i) /\ UNCHANGED <<phase, fault, handles>>)
        /\ Counted("video") /\ phase = "parsing"
    BY <1>3 DEF Video, OpenTrack, Child
  <2>3. /\ tracks' \in Seq(Track) /\ Len(tracks') = Len(ts)
        /\ UNCHANGED <<mkvtV, mkvtA, current, closed>>
        /\ \/ phase' = "parsing" /\ UNCHANGED fault
           \/ phase' \in {"exited", "crashed"} /\ fault' = i
    <3> HIDE DEF ts, i
    <3> QED
      BY <2>1, <2>2, FailsOne, OpensOne DEF handles
  <2>4. /\ DOMAIN tracks' = DOMAIN tracks /\ tracks' # <<>>
        /\ i \in 1..Len(tracks) /\ Len(tracks) \in Nat
    BY <2>1, <2>3
  <2>5. numTracks' \in [Types -> Nat] /\ current' \in 0..numTracks'["audio"]
    BY <2>2, <2>3, CountsUp DEF Types
  <2> HIDE DEF ts, i
  <2>6. fault' \in 0..Len(tracks) /\ (fault' = 0 <=> phase' \notin {"exited", "crashed"})
    BY <2>2, <2>3, <2>4 DEF TypeOK
  <2> QED
    BY <1>3, <2>1, <2>3, <2>4, <2>5, <2>6 DEF Video, Child, TypeOK
<1>4. CASE EndTracks
  BY <1>4 DEF EndTracks, TypeOK, handles
<1>5. CASE OpenVideo
  <2>1. UNCHANGED <<file, left, numTracks>> /\ phase = "parsed" /\ fault = 0
    BY <1>5 DEF OpenVideo, TypeOK
  <2>2. CASE GetVideoTrackID = 0
    BY <1>5, <2>1, <2>2 DEF OpenVideo, TypeOK, handles
  <2>3. CASE GetVideoTrackID # 0
    <3> DEFINE i == GetTrackByID(tracks, GetVideoTrackID)
    <3>1. tracks \in Seq(Track) /\ i \in DOMAIN tracks /\ tracks # <<>>
      BY <2>3, OpenVideoFinds
    <3>2. Fails(tracks, i) \/ (Opens(tracks, i) /\ VideoOpened(i))
      BY <1>5, <2>3 DEF OpenVideo, OpenTrack
    <3>3. /\ tracks' \in Seq(Track) /\ Len(tracks') = Len(tracks)
          /\ \/ /\ phase' \in {"exited", "crashed"} /\ fault' = i
                /\ UNCHANGED <<mkvtV, mkvtA, current, closed>>
             \/ VideoOpened(i)
      <4> HIDE DEF i
      <4> QED
        BY <3>1, <3>2, FailsOne, OpensOne
    <3>4. /\ DOMAIN tracks' = DOMAIN tracks /\ tracks' # <<>>
          /\ i \in 1..Len(tracks) /\ Len(tracks) \in Nat
      BY <3>1, <3>3
    <3> HIDE DEF i
    <3>5. /\ fault' \in 0..Len(tracks) /\ (fault' = 0 <=> phase' \notin {"exited", "crashed"})
          /\ phase' \in {"opened", "exited", "crashed"}
          /\ UNCHANGED <<mkvtA, current>> /\ mkvtV' \in {mkvtV, i}
          /\ closed' \subseteq closed \cup {i}
      BY <2>1, <3>3, <3>4 DEF VideoOpened, Crash, handles
    <3> QED
      BY <2>1, <3>1, <3>3, <3>4, <3>5 DEF TypeOK
  <2> QED
    BY <2>2, <2>3
<1>6. CASE SelectAudio
  <2>1. UNCHANGED <<file, left, numTracks>> /\ phase = "opened" /\ fault = 0
    BY <1>6 DEF SelectAudio, TypeOK
  <2>2. PICK index \in 1..numTracks["audio"], i \in DOMAIN tracks :
          Fails(tracks, i) \/ (Opens(tracks, i) /\ Selected(i, index))
    BY <1>6, SelectAudioFinds
  <2>3. /\ tracks \in Seq(Track) /\ tracks' \in Seq(Track) /\ Len(tracks') = Len(tracks)
        /\ \/ /\ phase' \in {"exited", "crashed"} /\ fault' = i
              /\ UNCHANGED <<mkvtV, mkvtA, current, closed>>
           \/ Selected(i, index)
    <3>1. tracks \in Seq(Track)
      BY DEF TypeOK
    <3> QED
      BY <2>2, <3>1, FailsOne, OpensOne
  <2>4. /\ DOMAIN tracks' = DOMAIN tracks /\ tracks # <<>> /\ tracks' # <<>>
        /\ i \in 1..Len(tracks) /\ Len(tracks) \in Nat
    BY <2>3
  <2>5. /\ mkvtA \in 0..Len(tracks) /\ numTracks["audio"] \in Nat
        /\ current \in 0..numTracks["audio"] /\ closed \subseteq DOMAIN tracks
    BY <2>4, CountsUp, <2>1 DEF TypeOK, Types
  <2>6. /\ fault' \in 0..Len(tracks) /\ (fault' = 0 <=> phase' \notin {"exited", "crashed"})
        /\ phase' \in {"opened", "exited", "crashed"}
        /\ UNCHANGED mkvtV /\ mkvtA' \in {mkvtA, i} /\ current' \in {current, index}
        /\ closed' \subseteq closed \cup ({mkvtA} \ {0}) \cup {i}
    <3>1. CASE ~Selected(i, index)
      BY <2>3, <2>4, <3>1
    <3>2. CASE Selected(i, index)
      <4>1. \/ UNCHANGED <<phase, fault, handles>>
            \/ Crash(i)
            \/ /\ mkvtA' = i /\ current' = index
               /\ closed' = (closed \cup ({mkvtA} \ {0})) \ {i}
               /\ UNCHANGED <<phase, fault, mkvtV>>
            \/ closed' = closed \cup {i} /\ UNCHANGED <<phase, fault, mkvtV, mkvtA, current>>
        BY <3>2 DEF Selected
      <4> QED
        BY <2>1, <2>4, <4>1 DEF Crash, handles
    <3> QED
      BY <3>1, <3>2
  <2>7. closed' \subseteq DOMAIN tracks
    BY <2>2, <2>3, <2>5, <2>6
  <2>8. mkvtA' \in 0..Len(tracks) /\ current' \in 0..numTracks["audio"]
    BY <2>4, <2>5, <2>6
  <2> QED
    BY <2>1, <2>3, <2>4, <2>6, <2>7, <2>8 DEF TypeOK
<1>7. CASE PrintMKV
  <2> DEFINE bare == {i \in DOMAIN tracks : tracks[i].media = "none"}
  <2>1. CASE bare = {}
    BY <1>7, <2>1 DEF PrintMKV, vars, TypeOK
  <2>2. CASE bare # {}
    <3>1. tracks \in Seq(Track)
      BY DEF TypeOK
    <3>2. First(bare) \in bare
      <4>1. bare \subseteq Nat
        BY <3>1
      <4> HIDE DEF bare
      <4> QED
        BY <2>2, <4>1, FirstLeast
    <3>3. First(bare) \in 1..Len(tracks) /\ Len(tracks) \in Nat
      <4>1. bare \subseteq 1..Len(tracks)
        BY <3>1
      <4> QED
        BY <3>1, <3>2, <4>1
    <3>4. Crash(First(bare)) /\ UNCHANGED <<file, tracks, left, numTracks>>
      BY <1>7, <2>2 DEF PrintMKV
    <3> HIDE DEF bare
    <3> QED
      BY <3>3, <3>4 DEF Crash, TypeOK, handles
  <2> QED
    BY <2>1, <2>2
<1>8. CASE UNCHANGED vars
  BY <1>8 DEF vars, TypeOK
<1> QED
  BY <1>1, <1>2, <1>3, <1>4, <1>5, <1>6, <1>7, <1>8 DEF Next, ReadsChild

(***************************************************************************)
(* Whatever the Tracks element holds, the table, the children still to     *)
(* come, the counters and the program's handles keep their types: no       *)
(* lookup leaves the table, although a file may give a number twice or no  *)
(* track a number.                                                         *)
(***************************************************************************)
THEOREM TypeCorrect == Spec => []TypeOK
BY InitTyped, StepTyped, PTL DEF Spec

-----------------------------------------------------------------------------
(***************************************************************************)
(* What the table knows of the file.                                       *)
(***************************************************************************)

\* The child c of entry k has not been handled yet.
Pending(k, c) == k = Len(tracks) /\ c \in left

\* The children of entry k that have not been handled, in a state where those of the
\* last entry are rest.
RestOf(k, rest) == IF k = Len(tracks) THEN rest ELSE {}

\* What has been read of an entry is what the file says, and no more has been read;
\* private data is the file's unless it is that of H.264 and a track has been opened.
Agrees(t, e, rest) ==
  /\ t.type = IF "type" \in rest THEN "other" ELSE e.type
  /\ t.codec = IF "codec" \in rest THEN "other" ELSE e.codec
  /\ t.media \in (e.media \ rest) \cup {"none"}
  /\ e.media \ rest # {} => t.media # "none"
  /\ \/ t.private = e.private
     \/ t.private = "none" /\ "private" \in rest
     \/ e.codec = "AVC" /\ t.private \in {"empty", "short", "made"}

Told == \A k \in DOMAIN tracks : Agrees(tracks[k], file[k], RestOf(k, left))

\* An entry whose number has been read has it, and is the first to have it, or has
\* none because an earlier entry claims the same.
ClaimOf(ts, f, k, pending) ==
  IF pending THEN ts[k].num = 0
  ELSE \/ /\ ts[k].num = f[k].num
          /\ f[k].num # 0 => \A j \in 1..(k - 1) : ts[j].num # f[k].num
       \/ ts[k].num = 0 /\ \E j \in 1..(k - 1) : f[j].num = f[k].num

Claimed == \A k \in DOMAIN tracks : ClaimOf(tracks, file, k, Pending(k, "num"))

\* The entries whose child of the type has been handled have been counted.
Handled(type) == {k \in DOMAIN tracks : type \in file[k].media /\ ~Pending(k, type)}

CountedUp == \A type \in Types : numTracks[type] = Cardinality(Handled(type))

\* When the parsing is over, it has read everything.
Parsed == phase \in {"parsed", "opened"} => left = {} /\ Len(tracks) = Len(file)

\* Opening a track, whether it fails or not, leaves what has been read alone, but for
\* the private data of H.264.
KeepsEntries(ts) ==
  /\ Len(tracks') = Len(ts) /\ DOMAIN tracks' = DOMAIN ts
  /\ \A k \in DOMAIN ts :
       /\ tracks'[k].num = ts[k].num /\ tracks'[k].type = ts[k].type
       /\ tracks'[k].codec = ts[k].codec /\ tracks'[k].media = ts[k].media
       /\ \/ tracks'[k].private = ts[k].private
          \/ ts[k].codec = "AVC" /\ tracks'[k].private \in {"empty", "short", "made"}

LEMMA OpeningKeeps ==
  ASSUME NEW ts \in Seq(Track), NEW i \in DOMAIN ts, Fails(ts, i) \/ Opens(ts, i)
  PROVE  KeepsEntries(ts)
<1>1. ts[i] \in Track
  OBVIOUS
<1>2. CASE Opens(ts, i)
  <2>1. PICK ext \in Extracting(ts[i]), private \in Privates :
          /\ tracks'[i] = [ts[i] EXCEPT !.ext = ext, !.private = private]
          /\ private \in Remade(ext, ts[i].private)
    <3>1. OpenedAt(ts, i)
      BY <1>2, OpensOne
    <3> QED
      BY <3>1 DEF OpenedAt
  <2>2. /\ tracks'[i].num = ts[i].num /\ tracks'[i].type = ts[i].type
        /\ tracks'[i].codec = ts[i].codec /\ tracks'[i].media = ts[i].media
        /\ tracks'[i].private = private
    BY <1>1, <2>1 DEF Track
  <2>3. ext = "avc" => ts[i].codec = "AVC"
    BY ExtractorFits
  <2>4. /\ Len(tracks') = Len(ts) /\ DOMAIN tracks' = DOMAIN ts
        /\ \A k \in DOMAIN ts : k # i => tracks'[k] = ts[k]
    BY <1>2, OpensOne
  <2>5. \/ private = ts[i].private
        \/ ts[i].codec = "AVC" /\ private \in {"empty", "short", "made"}
    BY <2>1, <2>3 DEF Remade
  <2> QED
    BY <2>2, <2>4, <2>5 DEF KeepsEntries
<1>3. CASE Fails(ts, i)
  <2>1. PICK ext \in Extracting(ts[i]) : tracks'[i] = [ts[i] EXCEPT !.ext = ext]
    <3>1. FailedAt(ts, i)
      BY <1>3, FailsOne
    <3> QED
      BY <3>1 DEF FailedAt
  <2>2. /\ tracks'[i].num = ts[i].num /\ tracks'[i].type = ts[i].type
        /\ tracks'[i].codec = ts[i].codec /\ tracks'[i].media = ts[i].media
        /\ tracks'[i].private = ts[i].private
    BY <1>1, <2>1 DEF Track
  <2>3. /\ Len(tracks') = Len(ts) /\ DOMAIN tracks' = DOMAIN ts
        /\ \A k \in DOMAIN ts : k # i => tracks'[k] = ts[k]
    BY <1>3, FailsOne
  <2> QED
    BY <2>2, <2>3 DEF KeepsEntries
<1> QED
  BY <1>2, <1>3

\* What the steps do that open a track.
LEMMA OpeningSteps ==
  ASSUME TypeOK
  PROVE  /\ Video => KeepsEntries(Attach(tracks))
         /\ OpenVideo => KeepsEntries(tracks)
         /\ SelectAudio => KeepsEntries(tracks)
<1>1. ASSUME Video PROVE KeepsEntries(Attach(tracks))
  BY <1>1, VideoOpens, OpeningKeeps DEF Video, OpenTrack
<1>2. ASSUME OpenVideo PROVE KeepsEntries(tracks)
  <2>1. CASE GetVideoTrackID = 0
    BY <1>2, <2>1 DEF OpenVideo, KeepsEntries
  <2>2. CASE GetVideoTrackID # 0
    BY <1>2, <2>2, OpenVideoFinds, OpeningKeeps DEF OpenVideo, OpenTrack
  <2> QED
    BY <2>1, <2>2
<1>3. ASSUME SelectAudio PROVE KeepsEntries(tracks)
  BY <1>3, SelectAudioFinds, OpeningKeeps
<1> QED
  BY <1>1, <1>2, <1>3

\* A new entry: nothing of it has been read.
LEMMA StartSteps ==
  ASSUME TypeOK, StartEntry
  PROVE  /\ Len(tracks') = Len(tracks) + 1 /\ Len(tracks') \in DOMAIN file
         /\ DOMAIN tracks' = DOMAIN tracks \cup {Len(tracks')}
         /\ \A k \in DOMAIN tracks : tracks'[k] = tracks[k] /\ k < Len(tracks')
         /\ tracks'[Len(tracks')] = NewTrack
         /\ left = {} /\ left' = Children(file[Len(tracks')])
         /\ file[Len(tracks')] \in Entries
         /\ UNCHANGED <<file, numTracks, phase, fault, mkvtV, mkvtA, current, closed>>
<1>1. tracks \in Seq(Track) /\ file \in Seq(Entries)
  BY FilesAssumption DEF TypeOK
<1>2. tracks' = Append(tracks, NewTrack) /\ Len(tracks) < Len(file)
  BY DEF StartEntry
<1>3. Len(tracks') = Len(tracks) + 1 /\ Len(tracks') \in DOMAIN file
  BY <1>1, <1>2
<1>4. file[Len(tracks')] \in Entries
  BY <1>1, <1>3
<1> QED
  BY <1>1, <1>2, <1>3, <1>4 DEF StartEntry, handles

\* RMPrintMKV only looks at the tracks.
LEMMA PrintSteps ==
  ASSUME PrintMKV
  PROVE  UNCHANGED <<file, tracks, left, numTracks, mkvtV, mkvtA, current, closed>>
BY DEF PrintMKV, vars, Crash, handles

\* Every entry is one of the file.
LEMMA EntriesThere ==
  ASSUME TypeOK
  PROVE  /\ DOMAIN tracks = 1..Len(tracks) /\ Len(tracks) \in Nat
         /\ DOMAIN tracks \subseteq DOMAIN file
         /\ \A k \in DOMAIN tracks : tracks[k] \in Track /\ file[k] \in Entries
         /\ \A k \in DOMAIN file : file[k] \in Entries
<1>1. tracks \in Seq(Track) /\ file \in Seq(Entries) /\ Len(tracks) <= Len(file)
  BY FilesAssumption DEF TypeOK
<1> QED
  BY <1>1

\* The children an entry has.
LEMMA ChildrenOf ==
  ASSUME NEW e \in Entries
  PROVE  /\ Agrees(NewTrack, e, Children(e))
         /\ "num" \in Children(e) <=> e.num # 0
         /\ \A type \in Types : type \in Children(e) <=> type \in e.media
<1>1. e.media \subseteq Types /\ Types = {"video", "audio"}
  BY DEF Entries, Types
<1>2. /\ "num" \in Children(e) <=> e.num # 0
      /\ "type" \in Children(e) <=> e.type # "other"
      /\ "codec" \in Children(e) <=> e.codec # "other"
      /\ "private" \in Children(e) <=> e.private # "none"
      /\ \A type \in Types : type \in Children(e) <=> type \in e.media
  BY <1>1 DEF Children, NewTrack
<1>3. e.media \ Children(e) = {}
  BY <1>1, <1>2
<1> QED
  BY <1>2, <1>3 DEF Agrees, NewTrack

\* Handling a child of an entry e tells what it says, and nothing else.
LEMMA SaysAgrees ==
  ASSUME NEW t \in Track, NEW e \in Entries, NEW rest, NEW c \in rest, NEW u,
         rest \subseteq Children(e), Agrees(t, e, rest), Says(c, t, u, e)
  PROVE  Agrees(u, e, rest \ {c})
<1>1. e.media \subseteq Types /\ Types = {"video", "audio"}
  BY DEF Entries, Types
<1>2. CASE c = "num" /\ (u = t \/ u = [t EXCEPT !.num = e.num])
  <2>1. e.media \ (rest \ {c}) = e.media \ rest
    BY <1>1, <1>2
  <2>2. u.type = t.type /\ u.codec = t.codec /\ u.media = t.media /\ u.private = t.private
    BY <1>2 DEF Track
  <2> QED
    BY <1>2, <2>1, <2>2 DEF Agrees
<1>3. CASE c = "type" /\ u = [t EXCEPT !.type = e.type]
  <2>1. e.media \ (rest \ {c}) = e.media \ rest
    BY <1>1, <1>3
  <2>2. u.type = e.type /\ u.codec = t.codec /\ u.media = t.media /\ u.private = t.private
    BY <1>3 DEF Track
  <2> QED
    BY <1>3, <2>1, <2>2 DEF Agrees
<1>4. CASE c = "codec" /\ u = [t EXCEPT !.codec = e.codec]
  <2>1. e.media \ (rest \ {c}) = e.media \ rest
    BY <1>1, <1>4
  <2>2. u.type = t.type /\ u.codec = e.codec /\ u.media = t.media /\ u.private = t.private
    BY <1>4 DEF Track
  <2> QED
    BY <1>4, <2>1, <2>2 DEF Agrees
<1>5. CASE c = "default" /\ u = [t EXCEPT !.default = e.default]
  <2>1. e.media \ (rest \ {c}) = e.media \ rest
    BY <1>1, <1>5
  <2>2. u.type = t.type /\ u.codec = t.codec /\ u.media = t.media /\ u.private = t.private
    BY <1>5 DEF Track
  <2> QED
    BY <1>5, <2>1, <2>2 DEF Agrees
<1>6. CASE c = "private" /\ u = [t EXCEPT !.private = e.private]
  <2>1. e.media \ (rest \ {c}) = e.media \ rest
    BY <1>1, <1>6
  <2>2. u.type = t.type /\ u.codec = t.codec /\ u.media = t.media /\ u.private = e.private
    BY <1>6 DEF Track
  <2> QED
    BY <1>6, <2>1, <2>2 DEF Agrees
<1>7. CASE c \in Types /\ u = [t EXCEPT !.media = c]
  <2>1. c \in e.media \ (rest \ {c}) /\ c # "none"
    BY <1>1, <1>7, ChildrenOf
  <2>2. u.type = t.type /\ u.codec = t.codec /\ u.media = c /\ u.private = t.private
    BY <1>7 DEF Track
  <2>3. /\ "type" \in rest \ {c} <=> "type" \in rest
        /\ "codec" \in rest \ {c} <=> "codec" \in rest
        /\ "private" \in rest \ {c} <=> "private" \in rest
    BY <1>1, <1>7
  <2> QED
    BY <2>1, <2>2, <2>3 DEF Agrees
<1> QED
  BY <1>2, <1>3, <1>4, <1>5, <1>6, <1>7 DEF Says

\* handle_video_track before it opens a track.
LEMMA VideoSays ==
  ASSUME TypeOK, Video
  PROVE  /\ "video" \in left /\ left' = left \ {"video"} /\ UNCHANGED file
         /\ Cur \in DOMAIN tracks /\ Cur = Len(tracks) /\ tracks[Cur] \in Track
         /\ file[Cur] \in Entries /\ left \subseteq Children(file[Cur])
         /\ "video" \in file[Cur].media
         /\ Says("video", tracks[Cur], Attach(tracks)[Cur], file[Cur])
         /\ phase = "parsing" /\ Counted("video")
<1>1. "video" \in left /\ left' = left \ {"video"} /\ UNCHANGED file
  BY DEF Video, Child
<1>2. /\ Cur \in DOMAIN tracks /\ Cur = Len(tracks) /\ tracks[Cur] \in Track
      /\ file[Cur] \in Entries /\ left \subseteq Children(file[Cur])
  BY <1>1, CurThere
<1>3. "video" \in file[Cur].media
  BY <1>1, <1>2, ChildrenOf DEF Types
<1>4. Attach(tracks)[Cur] = [tracks[Cur] EXCEPT !.media = "video"]
  BY VideoOpens
<1> QED
  BY <1>1, <1>2, <1>3, <1>4 DEF Says, Types, Video, Child

\* A table that knows of every entry what has been read of it still does once one of
\* its tracks has been opened.
LEMMA KeepsAgrees ==
  ASSUME NEW ts, KeepsEntries(ts), NEW k \in DOMAIN ts, NEW e, NEW rest,
         Agrees(ts[k], e, rest)
  PROVE  Agrees(tracks'[k], e, rest)
<1>1. /\ tracks'[k].type = ts[k].type
      /\ tracks'[k].codec = ts[k].codec /\ tracks'[k].media = ts[k].media
      /\ \/ tracks'[k].private = ts[k].private
         \/ ts[k].codec = "AVC" /\ tracks'[k].private \in {"empty", "short", "made"}
  BY DEF KeepsEntries
<1>2. ts[k].codec = "AVC" => e.codec = "AVC"
  BY DEF Agrees
<1> QED
  BY <1>1, <1>2 DEF Agrees

LEMMA StepTold == TypeOK /\ Told /\ [Next]_vars => Told'
<1> SUFFICES ASSUME TypeOK, Told, [Next]_vars PROVE Told'
  OBVIOUS
<1>1. CASE StartEntry
  <2>1. \A k \in DOMAIN tracks : Agrees(tracks[k], file[k], {})
    BY <1>1, StartSteps DEF Told, RestOf
  <2>2. Agrees(tracks'[Len(tracks')], file[Len(tracks')], left')
    BY <1>1, StartSteps, ChildrenOf
  <2>3. /\ DOMAIN tracks' = DOMAIN tracks \cup {Len(tracks')} /\ file' = file
        /\ \A k \in DOMAIN tracks : tracks'[k] = tracks[k] /\ k < Len(tracks')
    BY <1>1, StartSteps
  <2> SUFFICES ASSUME NEW k \in DOMAIN tracks'
               PROVE  Agrees(tracks'[k], file[k], IF k = Len(tracks') THEN left' ELSE {})
    BY <2>3 DEF Told, RestOf
  <2>5. CASE k = Len(tracks')
    BY <2>2, <2>5
  <2>6. CASE k # Len(tracks')
    BY <2>1, <2>3, <2>6
  <2> QED
    BY <2>5, <2>6
<1>2. ASSUME NEW ts, DOMAIN ts = DOMAIN tracks, Len(tracks') = Len(tracks),
             DOMAIN tracks' = DOMAIN tracks, UNCHANGED file, left' \subseteq left,
             left # {} => Agrees(ts[Len(tracks)], file[Len(tracks)], left'),
             \A k \in DOMAIN tracks : k # Len(tracks) => ts[k] = tracks[k],
             left = {} => ts = tracks,
             \A k \in DOMAIN tracks : \A rest :
               Agrees(ts[k], file[k], rest) => Agrees(tracks'[k], file[k], rest)
      PROVE  Told'
  <2> SUFFICES ASSUME NEW k \in DOMAIN tracks
               PROVE  Agrees(ts[k], file[k], RestOf(k, left'))
    BY <1>2 DEF Told, RestOf
  <2>1. CASE k = Len(tracks) /\ left # {}
    BY <1>2, <2>1 DEF RestOf
  <2>2. CASE ~(k = Len(tracks) /\ left # {})
    <3>1. ts[k] = tracks[k] /\ RestOf(k, left') = RestOf(k, left)
      BY <1>2, <2>2 DEF RestOf
    <3> QED
      BY <3>1 DEF Told
  <2> QED
    BY <2>1, <2>2
<1>3. CASE ReadsChild
  <2>1. PICK c \in left :
          left' = left \ {c} /\ Says(c, tracks[Cur], tracks'[Cur], file[Cur])
    BY <1>3, EntrySteps
  <2>2. /\ Cur \in DOMAIN tracks /\ Cur = Len(tracks) /\ tracks[Cur] \in Track
        /\ file[Cur] \in Entries /\ left \subseteq Children(file[Cur])
    BY <2>1, CurThere
  <2>3. Agrees(tracks[Cur], file[Cur], left)
    BY <2>2 DEF Told, RestOf
  <2>4. Agrees(tracks'[Cur], file[Cur], left')
    BY <2>1, <2>2, <2>3, SaysAgrees
  <2>5. /\ DOMAIN tracks' = DOMAIN tracks /\ file' = file /\ Len(tracks') = Len(tracks)
        /\ \A k \in DOMAIN tracks : k # Cur => tracks'[k] = tracks[k]
    BY <1>3, EntrySteps
  <2> DEFINE ts == tracks'
  <2>6. /\ DOMAIN ts = DOMAIN tracks /\ left # {} /\ left' \subseteq left
        /\ \A k \in DOMAIN tracks : \A rest :
             Agrees(ts[k], file[k], rest) => Agrees(tracks'[k], file[k], rest)
    BY <2>1, <2>5
  <2> QED
    BY <1>2, <2>2, <2>4, <2>5, <2>6
<1>4. CASE Video
  <2> DEFINE ts == Attach(tracks)
  <2>1. KeepsEntries(ts)
    BY <1>4, OpeningSteps
  <2>2. /\ Len(ts) = Len(tracks) /\ DOMAIN ts = DOMAIN tracks
        /\ \A k \in DOMAIN tracks : k # Cur => ts[k] = tracks[k]
    BY <1>4, VideoOpens
  <2>3. Agrees(tracks[Cur], file[Cur], left)
    BY <1>4, VideoSays DEF Told, RestOf
  <2>4. Agrees(ts[Cur], file[Cur], left')
    BY <1>4, <2>3, VideoSays, SaysAgrees
  <2>5. /\ left # {} /\ left' \subseteq left /\ UNCHANGED file /\ Cur = Len(tracks)
    BY <1>4, VideoSays
  <2> HIDE DEF ts
  <2>6. Len(tracks') = Len(tracks) /\ DOMAIN tracks' = DOMAIN tracks
    BY <2>1, <2>2 DEF KeepsEntries
  <2>7. \A k \in DOMAIN tracks : \A rest :
          Agrees(ts[k], file[k], rest) => Agrees(tracks'[k], file[k], rest)
    BY <2>1, <2>2, KeepsAgrees
  <2> QED
    BY <1>2, <2>2, <2>4, <2>5, <2>6, <2>7
<1>5. ASSUME KeepsEntries(tracks), UNCHANGED <<file, left>>
      PROVE  Told'
  <2> SUFFICES ASSUME NEW k \in DOMAIN tracks
               PROVE  Agrees(tracks'[k], file[k], RestOf(k, left))
    BY <1>5 DEF Told, KeepsEntries, RestOf
  <2> QED
    BY <1>5, KeepsAgrees DEF Told
<1>6. CASE OpenVideo \/ SelectAudio
  BY <1>5, <1>6, OpeningSteps DEF OpenVideo, SelectAudio
<1>7. CASE EndTracks \/ PrintMKV \/ UNCHANGED vars
  BY <1>7, PrintSteps DEF EndTracks, vars, Told, RestOf
<1> QED
  BY <1>1, <1>3, <1>4, <1>6, <1>7 DEF Next, ReadsChild

LEMMA StepParsed == TypeOK /\ Parsed /\ [Next]_vars => Parsed'
<1> SUFFICES ASSUME TypeOK, Parsed, [Next]_vars PROVE Parsed'
  OBVIOUS
<1>1. CASE StartEntry \/ EndTracks
  BY <1>1 DEF StartEntry, EndTracks, Parsed
<1>2. CASE ReadsChild
  BY <1>2, EntrySteps DEF Parsed
<1>3. CASE Video
  BY <1>3, VideoSays DEF Video, OpenTrack, Fails, Parsed
<1>4. CASE OpenVideo \/ SelectAudio
  <2>1. Len(tracks') = Len(tracks) /\ UNCHANGED <<file, left>>
    BY <1>4, OpeningSteps DEF KeepsEntries, OpenVideo, SelectAudio
  <2>2. phase \in {"parsed", "opened"}
    BY <1>4 DEF OpenVideo, SelectAudio
  <2> QED
    BY <2>1, <2>2 DEF Parsed
<1>5. CASE PrintMKV
  BY <1>5, PrintSteps DEF PrintMKV, Parsed
<1>6. CASE UNCHANGED vars
  BY <1>6 DEF vars, Parsed
<1> QED
  BY <1>1, <1>2, <1>3, <1>4, <1>5, <1>6 DEF Next, ReadsChild

LEMMA StepClaimed == TypeOK /\ Claimed /\ [Next]_vars => Claimed'
<1> SUFFICES ASSUME TypeOK, Claimed, [Next]_vars PROVE Claimed'
  OBVIOUS
<1>0. /\ DOMAIN tracks = 1..Len(tracks) /\ Len(tracks) \in Nat
      /\ DOMAIN tracks \subseteq DOMAIN file
      /\ \A k \in DOMAIN file : file[k].num \in Nat
  BY EntriesThere DEF Entries
<1>1. CASE StartEntry
  <2> SUFFICES ASSUME NEW k \in DOMAIN tracks'
               PROVE  ClaimOf(tracks', file', k, Pending(k, "num")')
    BY DEF Claimed
  <2>1. /\ DOMAIN tracks' = DOMAIN tracks \cup {Len(tracks')} /\ file' = file
        /\ Len(tracks') = Len(tracks) + 1
        /\ \A j \in DOMAIN tracks : tracks'[j] = tracks[j]
    BY <1>1, StartSteps
  <2>2. CASE k = Len(tracks')
    <3>1. /\ tracks'[k] = NewTrack /\ file[k] \in Entries
          /\ "num" \in left' <=> file[k].num # 0
      BY <1>1, <2>2, StartSteps, ChildrenOf
    <3>2. Pending(k, "num")' <=> file[k].num # 0
      BY <2>2, <3>1 DEF Pending
    <3>3. NewTrack.num = 0
      BY DEF NewTrack
    <3> QED
      BY <2>1, <3>1, <3>2, <3>3 DEF ClaimOf
  <2>3. CASE k # Len(tracks')
    <3>1. k \in DOMAIN tracks /\ k <= Len(tracks)
      BY <1>0, <2>1, <2>3
    <3>2. ~Pending(k, "num")'
      BY <2>3 DEF Pending
    <3>3. ~Pending(k, "num")
      BY <1>1 DEF Pending, StartEntry
    <3>4. \A j \in 1..(k - 1) : tracks'[j] = tracks[j]
      BY <1>0, <2>1, <3>1
    <3>5. ClaimOf(tracks, file, k, Pending(k, "num"))
      BY <3>1 DEF Claimed
    <3> QED
      BY <2>1, <3>1, <3>2, <3>3, <3>4, <3>5 DEF ClaimOf
  <2> QED
    BY <2>2, <2>3
<1>2. ASSUME DOMAIN tracks' = DOMAIN tracks, Len(tracks') = Len(tracks), file' = file,
             \A k \in DOMAIN tracks : tracks'[k].num = tracks[k].num,
             "num" \in left' <=> "num" \in left
      PROVE  Claimed'
  <2> SUFFICES ASSUME NEW k \in DOMAIN tracks
               PROVE  ClaimOf(tracks', file', k, Pending(k, "num")')
    BY <1>2 DEF Claimed
  <2>1. Pending(k, "num")' <=> Pending(k, "num")
    BY <1>2 DEF Pending
  <2>2. \A j \in 1..(k - 1) : tracks'[j].num = tracks[j].num
    BY <1>0, <1>2
  <2>3. ClaimOf(tracks, file, k, Pending(k, "num"))
    BY DEF Claimed
  <2> QED
    BY <1>2, <2>1, <2>2, <2>3 DEF ClaimOf
<1>3. CASE ReadsChild /\ ~TrackNumber
  <2>1. PICK c \in left :
          /\ left' = left \ {c} /\ c # "num"
          /\ Says(c, tracks[Cur], tracks'[Cur], file[Cur])
    BY <1>3, EntrySteps
  <2>2. tracks[Cur] \in Track /\ file[Cur] \in Entries
    BY <2>1, CurThere
  <2>3. tracks'[Cur].num = tracks[Cur].num
    BY <2>1, <2>2, SaysTrack
  <2> QED
    BY <1>2, <1>3, <2>1, <2>3, EntrySteps
<1>4. CASE TrackNumber
  <2> DEFINE n == file[Cur].num
  <2>1. "num" \in left /\ left' = left \ {"num"}
    BY <1>4 DEF TrackNumber, Child
  <2>2. /\ Cur \in DOMAIN tracks /\ Cur = Len(tracks) /\ tracks[Cur] \in Track
        /\ file[Cur] \in Entries /\ left \subseteq Children(file[Cur])
    BY <2>1, CurThere
  <2>3. tracks[Cur].num = 0 /\ n \in Nat \ {0}
    <3>1. n # 0 /\ n \in Nat
      BY <1>0, <2>1, <2>2, ChildrenOf
    <3> QED
      BY <2>1, <2>2, <3>1 DEF Claimed, Pending, ClaimOf
  <2>4. /\ DOMAIN tracks' = DOMAIN tracks /\ Len(tracks') = Len(tracks) /\ file' = file
        /\ \A k \in DOMAIN tracks : k # Cur => tracks'[k] = tracks[k]
    BY <1>4, EntrySteps DEF ReadsChild
  <2>5. tracks'[Cur].num = IF NumberFree(n) THEN n ELSE 0
    <3>1. tracks' = IF NumberFree(n) THEN [tracks EXCEPT ![Cur].num = n] ELSE tracks
      BY <1>4 DEF TrackNumber, Sets
    <3>2. tracks \in Seq(Track)
      BY DEF TypeOK
    <3>3. [tracks[Cur] EXCEPT !.num = n].num = n
      BY <2>2 DEF Track
    <3> HIDE DEF n
    <3> QED
      BY <2>2, <2>3, <3>1, <3>2, <3>3
  <2> SUFFICES ASSUME NEW k \in DOMAIN tracks
               PROVE  ClaimOf(tracks', file', k, Pending(k, "num")')
    BY <2>4 DEF Claimed
  <2>6. ~Pending(k, "num")'
    BY <2>1 DEF Pending
  <2>7. \A j \in 1..(k - 1) : j \in DOMAIN tracks /\ j # Cur /\ tracks'[j] = tracks[j]
    <3>1. k \in 1..Len(tracks) /\ Len(tracks) \in Nat
      BY <1>0
    <3>2. \A j \in 1..(k - 1) : j \in 1..Len(tracks) /\ j # Len(tracks)
      BY <3>1
    <3> QED
      BY <1>0, <2>2, <2>4, <3>2
  <2>8. \A j \in DOMAIN tracks : j # Cur => ClaimOf(tracks, file, j, FALSE)
    BY <2>2 DEF Claimed, Pending
  <2>9. CASE k # Cur
    BY <2>4, <2>6, <2>7, <2>8, <2>9 DEF ClaimOf
  <2>10. CASE k = Cur /\ NumberFree(n)
    <3>1. \A j \in DOMAIN tracks : tracks[j].num # n
      BY <2>10 DEF NumberFree, Numbered
    <3> QED
      BY <2>4, <2>5, <2>6, <2>7, <2>10, <3>1 DEF ClaimOf
  <2>11. CASE k = Cur /\ ~NumberFree(n)
    <3>1. PICK j \in DOMAIN tracks : tracks[j].num = n
      BY <2>11 DEF NumberFree, Numbered
    <3>2. j # Cur /\ j \in 1..(Cur - 1)
      BY <1>0, <2>2, <2>3, <3>1
    <3>3. file[j].num = n
      BY <2>3, <2>8, <3>1, <3>2 DEF ClaimOf
    <3> QED
      BY <2>4, <2>5, <2>6, <2>11, <3>2, <3>3 DEF ClaimOf
  <2> QED
    BY <2>9, <2>10, <2>11
<1>5. CASE Video
  <2> DEFINE ts == Attach(tracks)
  <2>1. ts[Cur].num = tracks[Cur].num
    BY <1>5, VideoSays, SaysTrack
  <2>2. /\ DOMAIN ts = DOMAIN tracks /\ Len(ts) = Len(tracks)
        /\ \A k \in DOMAIN tracks : k # Cur => ts[k] = tracks[k]
    BY <1>5, VideoOpens
  <2>3. KeepsEntries(ts)
    BY <1>5, OpeningSteps
  <2>4. left' = left \ {"video"} /\ UNCHANGED file
    BY <1>5, VideoSays
  <2> HIDE DEF ts
  <2>5. \A k \in DOMAIN tracks : tracks'[k].num = tracks[k].num
    BY <2>1, <2>2, <2>3 DEF KeepsEntries
  <2>6. DOMAIN tracks' = DOMAIN tracks /\ Len(tracks') = Len(tracks)
    BY <2>2, <2>3 DEF KeepsEntries
  <2>7. "num" \in left' <=> "num" \in left
    BY <2>4
  <2> QED
    BY <1>2, <2>4, <2>5, <2>6, <2>7
<1>6. CASE OpenVideo \/ SelectAudio
  <2>1. KeepsEntries(tracks) /\ UNCHANGED <<file, left>>
    BY <1>6, OpeningSteps DEF OpenVideo, SelectAudio
  <2> QED
    BY <1>2, <2>1 DEF KeepsEntries
<1>7. CASE EndTracks \/ PrintMKV \/ UNCHANGED vars
  BY <1>2, <1>7, PrintSteps DEF EndTracks, vars
<1> QED
  BY <1>1, <1>3, <1>4, <1>5, <1>6, <1>7 DEF Next, ReadsChild

\* Handled entries are finitely many.
LEMMA HandledFinite ==
  ASSUME TypeOK, NEW type
  PROVE  IsFiniteSet(Handled(type)) /\ Handled(type) \subseteq DOMAIN tracks
<1>1. Handled(type) \subseteq 1..Len(tracks) /\ Len(tracks) \in Nat
  BY EntriesThere DEF Handled
<1>2. IsFiniteSet(1..Len(tracks))
  BY <1>1, FS_Interval
<1> QED
  BY <1>1, <1>2, FS_Subset DEF Handled

\* A child of the type c of the entry in hand is handled and counted.
LEMMA CountsCur ==
  ASSUME TypeOK, CountedUp, NEW c \in Types, c \in left, left' = left \ {c}, Counted(c),
         UNCHANGED file, DOMAIN tracks' = DOMAIN tracks, Len(tracks') = Len(tracks)
  PROVE  CountedUp'
<1>1. /\ Cur \in DOMAIN tracks /\ Cur = Len(tracks) /\ file[Cur] \in Entries
      /\ c \in file[Cur].media
  BY CurThere, ChildrenOf
<1>2. numTracks \in [Types -> Nat]
  BY DEF TypeOK
<1> SUFFICES ASSUME NEW type \in Types
             PROVE  numTracks'[type] = Cardinality(Handled(type)')
  BY DEF CountedUp
<1>3. CASE type # c
  <2>1. Handled(type)' = Handled(type)
    BY <1>3 DEF Handled, Pending
  <2>2. numTracks'[type] = numTracks[type]
    BY <1>2, <1>3 DEF Counted
  <2> QED
    BY <2>1, <2>2 DEF CountedUp
<1>4. CASE type = c
  <2>1. Handled(type)' = Handled(type) \cup {Cur} /\ Cur \notin Handled(type)
    BY <1>1, <1>4 DEF Handled, Pending
  <2>2. numTracks'[type] = numTracks[type] + 1
    BY <1>2, <1>4 DEF Counted
  <2>3. Cardinality(Handled(type) \cup {Cur}) = Cardinality(Handled(type)) + 1
    BY <2>1, HandledFinite, FS_AddElement
  <2> QED
    BY <2>1, <2>2, <2>3 DEF CountedUp
<1> QED
  BY <1>3, <1>4

LEMMA StepCounted == TypeOK /\ CountedUp /\ [Next]_vars => CountedUp'
<1> SUFFICES ASSUME TypeOK, CountedUp, [Next]_vars PROVE CountedUp'
  OBVIOUS
<1>1. ASSUME UNCHANGED <<file, numTracks>>, DOMAIN tracks' = DOMAIN tracks,
             Len(tracks') = Len(tracks), \A c \in Types : c \in left' <=> c \in left
      PROVE  CountedUp'
  <2>1. \A type \in Types : Handled(type)' = Handled(type)
    BY <1>1 DEF Handled, Pending
  <2> QED
    BY <1>1, <2>1 DEF CountedUp
<1>2. CASE StartEntry
  <2> SUFFICES ASSUME NEW type \in Types PROVE Handled(type)' = Handled(type)
    BY <1>2, StartSteps DEF CountedUp
  <2>1. /\ DOMAIN tracks' = DOMAIN tracks \cup {Len(tracks')} /\ file' = file
        /\ \A k \in DOMAIN tracks : k # Len(tracks')
        /\ left = {} /\ left' = Children(file[Len(tracks')])
        /\ file[Len(tracks')] \in Entries
    <3>1. DOMAIN tracks \subseteq Nat /\ Len(tracks') \in Nat
      BY <1>2, StartSteps, EntriesThere
    <3> QED
      BY <1>2, <3>1, StartSteps
  <2>2. type \in left' <=> type \in file[Len(tracks')].media
    BY <2>1, ChildrenOf
  <2> QED
    BY <2>1, <2>2 DEF Handled, Pending
<1>3. CASE ReadsChild
  <2>1. PICK c \in left :
          /\ left' = left \ {c} /\ c # "video"
          /\ IF c = "audio" THEN Counted("audio") ELSE UNCHANGED numTracks
    BY <1>3, EntrySteps
  <2>2. DOMAIN tracks' = DOMAIN tracks /\ Len(tracks') = Len(tracks) /\ UNCHANGED file
    BY <1>3, EntrySteps
  <2>3. CASE c = "audio"
    BY <2>1, <2>2, <2>3, CountsCur DEF Types
  <2>4. CASE c # "audio"
    BY <1>1, <2>1, <2>2, <2>4 DEF Types
  <2> QED
    BY <2>3, <2>4
<1>4. CASE Video
  <2>1. /\ "video" \in left /\ left' = left \ {"video"} /\ UNCHANGED file
        /\ Counted("video")
    BY <1>4, VideoSays
  <2>2. DOMAIN tracks' = DOMAIN tracks /\ Len(tracks') = Len(tracks)
    BY <1>4, OpeningSteps, VideoOpens DEF KeepsEntries
  <2> QED
    BY <2>1, <2>2, CountsCur DEF Types
<1>5. CASE OpenVideo \/ SelectAudio
  <2>1. UNCHANGED <<file, left, numTracks>>
    BY <1>5 DEF OpenVideo, SelectAudio
  <2>2. DOMAIN tracks' = DOMAIN tracks /\ Len(tracks') = Len(tracks)
    BY <1>5, OpeningSteps DEF KeepsEntries
  <2> QED
    BY <1>1, <2>1, <2>2
<1>6. CASE EndTracks \/ PrintMKV \/ UNCHANGED vars
  BY <1>1, <1>6, PrintSteps DEF EndTracks, vars
<1> QED
  BY <1>2, <1>3, <1>4, <1>5, <1>6 DEF Next, ReadsChild

-----------------------------------------------------------------------------
(***************************************************************************)
(* The inductive invariant.                                                *)
(***************************************************************************)
Inv == TypeOK /\ Told /\ Claimed /\ CountedUp /\ Parsed

LEMMA InitInv == Init => Inv
<1> SUFFICES ASSUME Init PROVE Inv
  OBVIOUS
<1>1. TypeOK /\ DOMAIN tracks = {}
  BY InitTyped DEF Init
<1>2. \A type : Handled(type) = {}
  BY <1>1 DEF Handled
<1>3. CountedUp
  BY <1>2, FS_EmptySet DEF Init, CountedUp
<1> QED
  BY <1>1, <1>3 DEF Init, Inv, Told, Claimed, Parsed

LEMMA StepInv == Inv /\ [Next]_vars => Inv'
BY StepTyped, StepTold, StepClaimed, StepCounted, StepParsed DEF Inv

LEMMA Invariance == Spec => []Inv
BY InitInv, StepInv, PTL DEF Spec

\* A number other than 0 is the number of one track.
LEMMA NumbersDistinct ==
  ASSUME Inv, NEW i \in DOMAIN tracks, NEW j \in DOMAIN tracks,
         tracks[i].num = tracks[j].num, tracks[i].num # 0
  PROVE  i = j
<1>1. DOMAIN tracks = 1..Len(tracks) /\ Len(tracks) \in Nat
  BY EntriesThere DEF Inv
<1>2. ASSUME NEW a \in DOMAIN tracks, NEW b \in DOMAIN tracks, a < b,
             tracks[a].num = tracks[b].num, tracks[a].num # 0
      PROVE  FALSE
  <2>1. ClaimOf(tracks, file, b, Pending(b, "num"))
    BY <1>2 DEF Inv, Claimed
  <2>2. a \in 1..(b - 1)
    BY <1>1, <1>2
  <2> QED
    BY <1>2, <2>1, <2>2 DEF ClaimOf
<1>3. i \in Nat /\ j \in Nat
  BY <1>1
<1>4. i < j \/ j < i \/ i = j
  BY <1>3
<1> QED
  BY <1>2, <1>4

\* A number by which a track of a type is found leads to a track of that type.
LEMMA LeadsBack ==
  ASSUME Inv, NEW count, NEW type, GetTrackID(tracks, count, type) # 0
  PROVE  LET r == GetTrackByID(tracks, GetTrackID(tracks, count, type)) IN
         r \in DOMAIN tracks /\ tracks[r].type = type
<1> DEFINE id == GetTrackID(tracks, count, type)
           r == GetTrackByID(tracks, id)
<1>1. tracks \in Seq(Track) /\ id \in Nat
  BY IDOfType DEF Inv, TypeOK
<1>2. PICK i \in DOMAIN tracks : tracks[i].type = type /\ tracks[i].num = id
  BY <1>1, IDOfType
<1>3. tracks # <<>> /\ Numbered(tracks, id) # {}
  <2>1. i \in Numbered(tracks, id)
    BY <1>2 DEF Numbered
  <2> QED
    BY <1>2, <2>1
<1>4. r \in DOMAIN tracks /\ tracks[r].num = id
  <2> HIDE DEF id
  <2> QED
    BY <1>1, <1>3, ByIDFinds
<1>5. r = i
  <2> HIDE DEF r
  <2> QED
    BY <1>2, <1>4, NumbersDistinct
<1> QED
  BY <1>2, <1>4, <1>5

UpTo(S, i) == {j \in S : j <= i}

\* Counting the positions of a set from the first, every number up to its size is
\* reached at one of them.
LEMMA IndexReached ==
  ASSUME NEW n \in Nat, NEW S, S \subseteq 1..n, NEW index \in 1..Cardinality(S)
  PROVE  \E i \in S : Cardinality(UpTo(S, i)) = index
<1> DEFINE Up(i) == {j \in S : j <= i}
           T == {i \in 0..n : Cardinality(Up(i)) >= index}
<1>0. \A j \in S : j \in Int /\ 1 <= j /\ j <= n
  OBVIOUS
<1>1. IsFiniteSet(S) /\ Cardinality(S) \in Nat
  <2>1. IsFiniteSet(1..n)
    BY FS_Interval
  <2>2. IsFiniteSet(S)
    BY <2>1, FS_Subset
  <2> QED
    BY <2>2, FS_CardinalityType
<1>2. \A i : IsFiniteSet(Up(i)) /\ Cardinality(Up(i)) \in Nat
  <2> SUFFICES ASSUME NEW i PROVE IsFiniteSet(Up(i)) /\ Cardinality(Up(i)) \in Nat
    OBVIOUS
  <2>1. Up(i) \subseteq S
    OBVIOUS
  <2>2. IsFiniteSet(Up(i))
    BY <1>1, <2>1, FS_Subset
  <2> QED
    BY <2>2, FS_CardinalityType
<1>3. Up(n) = S
  BY <1>0, Zenon
<1>4. n \in T
  <2>1. Cardinality(Up(n)) >= index
    BY <1>1, <1>3
  <2> HIDE DEF Up
  <2> QED
    BY <2>1
<1>5. PICK m \in T : \A j \in T : m <= j
  <2>1. T \subseteq Nat
    <3> HIDE DEF Up
    <3> QED
      OBVIOUS
  <2>2. T # {}
    BY <1>4, Zenon
  <2> HIDE DEF T
  <2> QED
    BY <2>1, <2>2, LeastOf
<1>6. m \in 0..n /\ Cardinality(Up(m)) >= index
  BY <1>5, Zenon
<1>7. m # 0
  <2> SUFFICES ASSUME m = 0 PROVE FALSE
    OBVIOUS
  <2>1. \A j \in S : ~(j <= 0)
    BY <1>0
  <2>2. Up(0) = {}
    BY <2>1, Zenon
  <2>3. Cardinality(Up(m)) = 0
    BY <2>2, FS_EmptySet
  <2> HIDE DEF Up, T
  <2> QED
    BY <1>1, <1>6, <2>3
<1>8. Cardinality(Up(m - 1)) < index
  <2> SUFFICES ASSUME ~(Cardinality(Up(m - 1)) < index) PROVE FALSE
    OBVIOUS
  <2>1. m - 1 \in 0..n /\ ~(m <= m - 1)
    BY <1>6, <1>7
  <2>2. Cardinality(Up(m - 1)) \in Nat
    BY <1>2, Zenon
  <2>3. Cardinality(Up(m - 1)) >= index
    <3> HIDE DEF Up
    <3> QED
      BY <1>1, <2>2
  <2>4. m - 1 \in T
    BY <2>1, <2>3, Zenon
  <2> HIDE DEF T
  <2> QED
    BY <1>5, <2>1, <2>4
<1>9. \A j \in S : j <= m <=> j <= m - 1 \/ j = m
  BY <1>0, <1>6
<1>10. m \in S
  <2> SUFFICES ASSUME m \notin S PROVE FALSE
    OBVIOUS
  <2>1. Up(m) = Up(m - 1)
    BY <1>9, Zenon
  <2>2. Cardinality(Up(m - 1)) \in Nat
    BY <1>2, Zenon
  <2> HIDE DEF Up, T
  <2> QED
    BY <1>1, <1>6, <1>8, <2>1, <2>2
<1>11. Up(m) = Up(m - 1) \cup {m} /\ m \notin Up(m - 1)
  <2>1. ~(m <= m - 1) /\ m <= m
    BY <1>6
  <2>2. m \notin Up(m - 1)
    BY <2>1, Zenon
  <2>3. ASSUME NEW j PROVE j \in Up(m) <=> j \in Up(m - 1) \cup {m}
    BY <1>9, <1>10, <2>1, Zenon
  <2> QED
    BY <2>2, <2>3, Zenon
<1>12. Cardinality(Up(m)) = index
  <2>1. IsFiniteSet(Up(m - 1)) /\ Cardinality(Up(m - 1)) \in Nat
    BY <1>2, Zenon
  <2> HIDE DEF Up, T
  <2>2. Cardinality(Up(m)) = Cardinality(Up(m - 1)) + 1
    BY <1>11, <2>1, FS_AddElement
  <2> QED
    BY <1>1, <1>6, <1>8, <2>1, <2>2
<1> QED
  BY <1>10, <1>12, Zenon DEF UpTo

\* When the parsing is over, every entry has been read to its end.
LEMMA AllRead ==
  ASSUME Inv, phase \in {"parsed", "opened"}
  PROVE  /\ left = {} /\ Len(tracks) = Len(file) /\ DOMAIN tracks = DOMAIN file
         /\ \A k \in DOMAIN tracks :
              /\ Agrees(tracks[k], file[k], {})
              /\ tracks[k].type = file[k].type /\ tracks[k].codec = file[k].codec
              /\ ClaimOf(tracks, file, k, FALSE)
<1>1. left = {} /\ Len(tracks) = Len(file)
  BY DEF Inv, Parsed
<1>2. tracks \in Seq(Track) /\ file \in Seq(Entries)
  BY FilesAssumption DEF Inv, TypeOK
<1>3. DOMAIN tracks = DOMAIN file
  BY <1>1, <1>2
<1> SUFFICES ASSUME NEW k \in DOMAIN tracks
             PROVE  /\ Agrees(tracks[k], file[k], {})
                    /\ tracks[k].type = file[k].type /\ tracks[k].codec = file[k].codec
                    /\ ClaimOf(tracks, file, k, FALSE)
  BY <1>1, <1>3
<1>4. Agrees(tracks[k], file[k], {})
  BY <1>1 DEF Inv, Told, RestOf
<1>5. ClaimOf(tracks, file, k, Pending(k, "num")) /\ ~Pending(k, "num")
  BY <1>1 DEF Inv, Claimed, Pending
<1>6. ClaimOf(tracks, file, k, FALSE)
  BY <1>5 DEF ClaimOf
<1> QED
  BY <1>4, <1>6 DEF Agrees

LEMMA InvSelection == Inv => SelectionLeadsBack
<1> SUFFICES ASSUME Inv PROVE SelectionLeadsBack
  OBVIOUS
<1>1. ASSUME NEW type \in Types, GetTrackID(tracks, numTracks[type], type) # 0
      PROVE  tracks[GetTrackByID(tracks, GetTrackID(tracks, numTracks[type], type))].type
               = type
  BY <1>1, LeadsBack
<1>2. ASSUME phase = "parsed",
             \A i \in DOMAIN file : "audio" \in file[i].media => file[i].type = "audio",
             NEW index \in 1..numTracks["audio"]
      PROVE  AudioTrackByIndex(tracks, index) # {}
  <2> DEFINE S == OfType(tracks, "audio")
             n == Len(tracks)
  <2>1. Handled("audio") \subseteq S
    BY <1>2, AllRead DEF Handled, OfType
  <2>2. n \in Nat /\ S \subseteq 1..n
    BY EntriesThere DEF OfType, Inv
  <2>3. IsFiniteSet(S)
    <3> HIDE DEF S, n
    <3>1. IsFiniteSet(1..n)
      BY <2>2, FS_Interval
    <3> QED
      BY <2>2, <3>1, FS_Subset
  <2>4. /\ Cardinality(Handled("audio")) <= Cardinality(S)
        /\ Cardinality(S) \in Nat /\ Cardinality(Handled("audio")) \in Nat
    <3> HIDE DEF S
    <3>1. Cardinality(Handled("audio")) <= Cardinality(S)
      BY <2>1, <2>3, FS_Subset
    <3>2. IsFiniteSet(Handled("audio"))
      BY <2>1, <2>3, FS_Subset
    <3> QED
      BY <2>3, <3>1, <3>2, FS_CardinalityType
  <2>5. numTracks["audio"] = Cardinality(Handled("audio"))
    BY DEF Inv, CountedUp, Types
  <2>6. PICK i \in S : Cardinality(UpTo(S, i)) = index
    <3> HIDE DEF S, n
    <3>1. index \in 1..Cardinality(S)
      BY <1>2, <2>4, <2>5
    <3> QED
      BY <2>2, <3>1, IndexReached, Zenon
  <2>7. i \in AudioTrackByIndex(tracks, index)
    BY <2>6 DEF AudioTrackByIndex, UpTo
  <2> QED
    BY <2>7
<1> QED
  BY <1>1, <1>2 DEF SelectionLeadsBack

LEMMA InvFirstClaim == Inv => FirstClaimWins
<1> SUFFICES ASSUME Inv, phase = "parsed", NEW i \in DOMAIN file,
                    file[i].num # 0
             PROVE  First({j \in DOMAIN file : file[j].num = file[i].num})
                      = GetTrackByID(tracks, file[i].num)
  BY DEF FirstClaimWins
<1> DEFINE n == file[i].num
           S == {j \in DOMAIN file : file[j].num = n}
           i0 == First(S)
           r == GetTrackByID(tracks, n)
<1>1. /\ DOMAIN tracks = DOMAIN file /\ DOMAIN tracks = 1..Len(tracks)
      /\ Len(tracks) \in Nat /\ n \in Nat \ {0}
  BY AllRead, EntriesThere DEF Inv, Entries
<1>2. i0 \in S /\ \A j \in S : i0 <= j
  <2>1. S \subseteq Nat /\ i \in S
    BY <1>1
  <2> HIDE DEF S
  <2> QED
    BY <2>1, FirstLeast
<1>3. i0 \in DOMAIN tracks /\ file[i0].num = n
  BY <1>1, <1>2
<1>4. tracks[i0].num = n
  <2>1. ClaimOf(tracks, file, i0, FALSE)
    <3> HIDE DEF i0
    <3> QED
      BY <1>3, AllRead
  <2>2. \A j \in 1..(i0 - 1) : file[j].num # n
    <3>1. \A j \in 1..(i0 - 1) : j \in DOMAIN file /\ ~(i0 <= j)
      <4> HIDE DEF i0
      <4> QED
        BY <1>1, <1>3
    <3> HIDE DEF i0
    <3> QED
      BY <1>2, <3>1
  <2> HIDE DEF i0, n
  <2> QED
    BY <1>3, <2>1, <2>2 DEF ClaimOf
<1>5. r \in DOMAIN tracks /\ tracks[r].num = n
  <2>1. tracks \in Seq(Track) /\ tracks # <<>>
    BY <1>3 DEF Inv, TypeOK
  <2>2. i0 \in Numbered(tracks, n)
    BY <1>3, <1>4 DEF Numbered
  <2> HIDE DEF i0, n
  <2> QED
    BY <1>1, <2>1, <2>2, ByIDFinds
<1>6. r = i0
  <2> HIDE DEF r, i0, n
  <2> QED
    BY <1>1, <1>3, <1>4, <1>5, NumbersDistinct
<1> QED
  BY <1>6

-----------------------------------------------------------------------------
(***************************************************************************)
(* What opening a track may lead to.  All three steps that open one open a *)
(* track of a table ts which knows of every entry what has been read of    *)
(* it, and that an entry with a track object has one.                      *)
(***************************************************************************)
Known(ts) ==
  /\ ts \in Seq(Track) /\ Len(ts) = Len(tracks) /\ DOMAIN ts = DOMAIN tracks
  /\ \A k \in DOMAIN tracks :
       /\ Agrees(ts[k], file[k], RestOf(k, left'))
       /\ ts[k].media = "none" => file[k].media = {}
       /\ ts[k].num = tracks[k].num /\ ts[k].ext = tracks[k].ext
  /\ file' = file /\ left' \subseteq left

LEMMA VideoKnows ==
  ASSUME Inv, Video
  PROVE  /\ Known(Attach(tracks)) /\ Chosen(Attach(tracks)) \in DOMAIN tracks
         /\ \/ Fails(Attach(tracks), Chosen(Attach(tracks)))
            \/ Opens(Attach(tracks), Chosen(Attach(tracks))) /\ phase' = phase
<1> DEFINE ts == Attach(tracks)
<1>1. /\ "video" \in left /\ left' = left \ {"video"} /\ UNCHANGED file
      /\ Cur \in DOMAIN tracks /\ Cur = Len(tracks) /\ tracks[Cur] \in Track
      /\ file[Cur] \in Entries /\ left \subseteq Children(file[Cur])
      /\ "video" \in file[Cur].media
      /\ Says("video", tracks[Cur], ts[Cur], file[Cur])
  BY VideoSays DEF Inv
<1>2. /\ ts \in Seq(Track) /\ Len(ts) = Len(tracks) /\ DOMAIN ts = DOMAIN tracks
      /\ \A k \in DOMAIN tracks : k # Cur => ts[k] = tracks[k]
      /\ Chosen(ts) \in DOMAIN tracks
  BY VideoOpens DEF Inv
<1>3. Fails(ts, Chosen(ts)) \/ (Opens(ts, Chosen(ts)) /\ phase' = phase)
  BY DEF Video, OpenTrack
<1>4. Agrees(tracks[Cur], file[Cur], left)
  BY <1>1 DEF Inv, Told, RestOf
<1> HIDE DEF ts
<1>5. Agrees(ts[Cur], file[Cur], left')
  BY <1>1, <1>4, SaysAgrees
<1>6. "video" \in file[Cur].media \ left'
  BY <1>1
<1>7. ts[Cur].media # "none"
  BY <1>5, <1>6 DEF Agrees
<1>8. ts[Cur].num = tracks[Cur].num /\ ts[Cur].ext = tracks[Cur].ext
  BY <1>1, SaysTrack
<1>9. ASSUME NEW k \in DOMAIN tracks, k # Cur
      PROVE  Agrees(ts[k], file[k], {}) /\ (ts[k].media = "none" => file[k].media = {})
  <2>1. Agrees(ts[k], file[k], {})
    BY <1>1, <1>2, <1>9 DEF Inv, Told, RestOf
  <2>2. file[k].media \ {} # {} => ts[k].media # "none"
    BY <2>1 DEF Agrees
  <2>3. file[k].media # {} => file[k].media \ {} # {}
    OBVIOUS
  <2> QED
    BY <2>1, <2>2, <2>3
<1>10. Known(ts)
  <2> SUFFICES ASSUME NEW k \in DOMAIN tracks
               PROVE  /\ Agrees(ts[k], file[k], RestOf(k, left'))
                      /\ ts[k].media = "none" => file[k].media = {}
                      /\ ts[k].num = tracks[k].num /\ ts[k].ext = tracks[k].ext
    BY <1>1, <1>2 DEF Known
  <2>1. CASE k = Cur
    BY <1>1, <1>5, <1>7, <1>8, <2>1 DEF RestOf
  <2>2. CASE k # Cur
    BY <1>1, <1>2, <1>9, <2>2 DEF RestOf
  <2> QED
    BY <2>1, <2>2
<1> QED
  BY <1>2, <1>3, <1>10 DEF ts

LEMMA PlayingKnows ==
  ASSUME Inv, phase \in {"parsed", "opened"}, UNCHANGED <<file, left>>
  PROVE  Known(tracks)
<1> SUFFICES ASSUME NEW k \in DOMAIN tracks
             PROVE  /\ Agrees(tracks[k], file[k], RestOf(k, left'))
                    /\ tracks[k].media = "none" => file[k].media = {}
  BY DEF Known, Inv, TypeOK
<1>1. left = {} /\ Agrees(tracks[k], file[k], {})
  BY AllRead
<1>2. file[k].media \ {} # {} => tracks[k].media # "none"
  BY <1>1 DEF Agrees
<1>3. file[k].media # {} => file[k].media \ {} # {}
  OBVIOUS
<1> QED
  BY <1>1, <1>2, <1>3 DEF RestOf

\* A track object that is missing, or not of the kind that the type calls for.
Unfit(t) == t.media = "none" \/ \E type \in Types : Misread(t, type)

\* How a step ends the program: in a track of a table that knows the file, whose
\* opening fails, or whose track object is used although it does not fit.
EndsAt(ts, i) ==
  /\ Known(ts) /\ i \in DOMAIN tracks /\ DOMAIN tracks' = DOMAIN tracks
  /\ Len(tracks') = Len(tracks)
  /\ FailedAt(ts, i) \/ (phase' = "crashed" /\ Unfit(ts[i]))

LEMMA FailureEnds ==
  ASSUME NEW ts, Known(ts), NEW i \in DOMAIN tracks, Fails(ts, i)
  PROVE  fault' = i /\ EndsAt(ts, i)
<1>1. ts \in Seq(Track) /\ Len(ts) = Len(tracks) /\ DOMAIN ts = DOMAIN tracks
  BY DEF Known
<1> QED
  BY <1>1, FailsOne DEF EndsAt

LEMMA Endings ==
  ASSUME Inv, [Next]_vars, phase' \in {"exited", "crashed"}, phase' # phase
  PROVE  \E ts : EndsAt(ts, fault')
<1>1. CASE Video
  <2>1. phase = "parsing"
    BY <1>1 DEF Video, Child
  <2>2. Fails(Attach(tracks), Chosen(Attach(tracks)))
    BY <1>1, <2>1, VideoKnows
  <2> QED
    BY <1>1, <2>2, VideoKnows, FailureEnds
<1>2. CASE OpenVideo
  <2> DEFINE i == GetTrackByID(tracks, GetVideoTrackID)
  <2>1. phase = "parsed" /\ UNCHANGED <<file, left>> /\ GetVideoTrackID # 0
    BY <1>2 DEF OpenVideo
  <2>2. Known(tracks) /\ i \in DOMAIN tracks /\ tracks \in Seq(Track)
    BY <2>1, PlayingKnows, OpenVideoFinds DEF Inv
  <2>3. Fails(tracks, i) \/ (Opens(tracks, i) /\ VideoOpened(i))
    BY <1>2, <2>1 DEF OpenVideo, OpenTrack
  <2> HIDE DEF i
  <2>4. CASE Fails(tracks, i)
    BY <2>2, <2>4, FailureEnds
  <2>5. CASE Opens(tracks, i) /\ VideoOpened(i)
    <3>1. Crash(i) /\ Misread(tracks[i], "video")
      BY <2>5 DEF VideoOpened
    <3>2. DOMAIN tracks' = DOMAIN tracks /\ Len(tracks') = Len(tracks)
      BY <2>2, <2>5, OpensOne
    <3> QED
      BY <2>2, <3>1, <3>2 DEF EndsAt, Unfit, Crash, Types
  <2> QED
    BY <2>3, <2>4, <2>5
<1>3. CASE SelectAudio
  <2>1. phase = "opened" /\ UNCHANGED <<file, left>>
    BY <1>3 DEF SelectAudio
  <2>2. PICK index \in 1..numTracks["audio"], i \in DOMAIN tracks :
          Fails(tracks, i) \/ (Opens(tracks, i) /\ Selected(i, index))
    BY <1>3, SelectAudioFinds DEF Inv
  <2>3. Known(tracks) /\ tracks \in Seq(Track)
    BY <2>1, PlayingKnows DEF Known
  <2>4. CASE Fails(tracks, i)
    BY <2>2, <2>3, <2>4, FailureEnds
  <2>5. CASE Opens(tracks, i) /\ Selected(i, index)
    <3>1. Crash(i) /\ Misread(tracks[i], "audio")
      BY <2>1, <2>5 DEF Selected
    <3>2. DOMAIN tracks' = DOMAIN tracks /\ Len(tracks') = Len(tracks)
      BY <2>2, <2>3, <2>5, OpensOne
    <3> QED
      BY <2>2, <2>3, <3>1, <3>2 DEF EndsAt, Unfit, Crash, Types
  <2> QED
    BY <2>2, <2>4, <2>5
<1>4. CASE PrintMKV
  <2> DEFINE bare == {i \in DOMAIN tracks : tracks[i].media = "none"}
  <2>1. /\ phase \in {"parsed", "opened"} /\ bare # {} /\ Crash(First(bare))
        /\ UNCHANGED <<file, tracks, left>>
    BY <1>4, PrintSteps DEF PrintMKV, vars
  <2>2. First(bare) \in bare
    <3>1. bare \subseteq Nat
      BY EntriesThere DEF Inv
    <3> HIDE DEF bare
    <3> QED
      BY <2>1, <3>1, FirstLeast
  <2>3. Known(tracks)
    BY <2>1, PlayingKnows
  <2> QED
    BY <2>1, <2>2, <2>3 DEF EndsAt, Unfit, Crash
<1>5. CASE ReadsChild
  BY <1>5, EntrySteps DEF Inv
<1>6. CASE StartEntry \/ EndTracks \/ UNCHANGED vars
  BY <1>6 DEF StartEntry, EndTracks, vars
<1> QED
  BY <1>1, <1>2, <1>3, <1>4, <1>5, <1>6 DEF Next, ReadsChild

\* Once the program has ended, nothing happens.
LEMMA Ended ==
  ASSUME [Next]_vars, phase \in {"exited", "crashed"}
  PROVE  UNCHANGED vars
<1>1. ~ReadsChild /\ ~Video
  BY DEF ReadsChild, TrackNumber, TrackType, CodecID, FlagDefault, CodecPrivate, Audio,
         Video, Child
<1>2. ~StartEntry /\ ~EndTracks /\ ~OpenVideo /\ ~SelectAudio /\ ~PrintMKV
  BY DEF StartEntry, EndTracks, OpenVideo, SelectAudio, PrintMKV
<1> QED
  BY <1>1, <1>2 DEF Next, ReadsChild

-----------------------------------------------------------------------------
\* Where a track object does not fit, the entry has not the children it should have.
Excused(e) ==
  \/ e.media = {}
  \/ (e.codec = "AVC" \/ e.type = "video") /\ ~Fits(e, "video")
  \/ e.type = "audio" /\ ~Fits(e, "audio")

LEMMA WildExcused ==
  ASSUME NEW t, NEW e \in Entries, NEW rest, Agrees(t, e, rest),
         t.media = "none" => e.media = {},
         Unfit(t) \/ \E ext \in Extracting(t) : WildAccess(ext, t)
  PROVE  Excused(e)
<1>1. CASE t.media = "none"
  BY <1>1 DEF Excused
<1>2. CASE t.media # "none"
  <2>1. t.media \in e.media
    BY <1>2 DEF Agrees
  <2>2. /\ t.type # "other" => t.type = e.type
        /\ t.codec = "AVC" => e.codec = "AVC"
    BY DEF Agrees
  <2>3. \/ t.codec = "AVC" /\ t.media # "video"
        \/ t.type = "audio" /\ t.media # "audio"
        \/ t.type = "video" /\ t.media # "video"
    BY <1>2 DEF Unfit, Misread, Types, Extracting, CreateExtractor, WildAccess
  <2>4. \A type : e.media = {type} => t.media = type
    BY <2>1
  <2> QED
    BY <2>2, <2>3, <2>4 DEF Excused, Fits
<1> QED
  BY <1>1, <1>2

LEMMA StepNoWild == Inv /\ NoWildAccess /\ [Next]_vars => NoWildAccess'
<1> SUFFICES ASSUME Inv, NoWildAccess, [Next]_vars, phase' = "crashed"
             PROVE  Excused(file'[fault'])
  BY DEF NoWildAccess, Excused
<1>1. CASE phase = "crashed"
  BY <1>1, Ended DEF vars, NoWildAccess, Excused
<1>2. CASE phase # "crashed"
  <2>1. PICK ts : EndsAt(ts, fault')
    BY <1>2, Endings
  <2> DEFINE i == fault'
  <2>2. /\ i \in DOMAIN tracks /\ file' = file
        /\ Agrees(ts[i], file[i], RestOf(i, left'))
        /\ ts[i].media = "none" => file[i].media = {}
    BY <2>1 DEF EndsAt, Known
  <2>3. Unfit(ts[i]) \/ \E ext \in Extracting(ts[i]) : WildAccess(ext, ts[i])
    BY <2>1 DEF EndsAt, FailedAt
  <2>4. file[i] \in Entries
    BY <2>2, EntriesThere DEF Inv
  <2> HIDE DEF i
  <2>5. Excused(file[i])
    BY <2>2, <2>3, <2>4, WildExcused
  <2> QED
    BY <2>2, <2>5 DEF i
<1> QED
  BY <1>1, <1>2

LEMMA StepExit == Inv /\ ExitExplained /\ [Next]_vars => ExitExplained'
<1> SUFFICES ASSUME Inv, ExitExplained, [Next]_vars, phase' = "exited"
             PROVE  ExitExplained'
  BY DEF ExitExplained
<1>1. CASE phase = "exited"
  BY <1>1, Ended DEF vars, ExitExplained
<1>2. CASE phase # "exited"
  <2>1. PICK ts : EndsAt(ts, fault')
    BY <1>2, Endings
  <2> DEFINE i == fault'
             e == file[i]
  <2>2. /\ i \in DOMAIN tracks /\ file' = file /\ ts \in Seq(Track)
        /\ DOMAIN ts = DOMAIN tracks /\ Len(tracks') = Len(tracks)
        /\ Agrees(ts[i], e, RestOf(i, left'))
    BY <2>1 DEF EndsAt, Known
  <2>3. PICK ext \in Extracting(ts[i]) :
          MayExit(ext, ts[i].private) /\ tracks'[i] = [ts[i] EXCEPT !.ext = ext]
    <3>1. FailedAt(ts, i)
      BY <2>1 DEF EndsAt
    <3> QED
      BY <3>1 DEF FailedAt
  <2>4. tracks'[i].private = ts[i].private
    <3>1. ts[i] \in Track
      BY <2>2
    <3> QED
      BY <2>3, <3>1 DEF Track
  <2> HIDE DEF i
  <2>5. /\ ext \in {"avc", "aac"}
        /\ ext = "avc" => ts[i].codec = "AVC"
        /\ ts[i].codec \in {"AVC", "AAC", "PCM"}
        /\ \/ ts[i].private = "none"
           \/ ext = "avc" /\ ts[i].private \in {"empty", "short", "bad", "made"}
    <3>1. i \in DOMAIN ts
      BY <2>2
    <3> QED
      BY <2>2, <2>3, <3>1, ExtractorFits DEF MayExit, Exits
  <2>6. ts[i].codec = e.codec
    BY <2>2, <2>5 DEF Agrees
  <2>7. \/ ts[i].private = e.private
        \/ ts[i].private = "none" /\ i = Len(tracks') /\ "private" \in left'
        \/ e.codec = "AVC" /\ ts[i].private \in {"empty", "short", "made"}
    BY <2>2 DEF Agrees, RestOf
  <2>8. e.private # "made"
    <3>1. e \in Entries
      BY <2>2, EntriesThere DEF Inv
    <3> QED
      BY <3>1 DEF Entries, FilePrivates
  <2>9. /\ e.codec \in {"AVC", "AAC", "PCM"}
        /\ \/ e.private = "none"
           \/ e.codec = "AVC" /\ e.private \in {"empty", "short", "bad"}
           \/ i = Len(tracks') /\ "private" \in left'
           \/ e.codec = "AVC" /\ tracks'[i].private \in {"empty", "short", "made"}
    BY <2>4, <2>5, <2>6, <2>7, <2>8
  <2> QED
    BY <2>2, <2>9 DEF ExitExplained, i
<1> QED
  BY <1>1, <1>2

-----------------------------------------------------------------------------
\* The steps other than those that open a track leave the extractors alone.
LEMMA OthersOpenNone ==
  ASSUME Inv, [Next]_vars, ~Video, ~OpenVideo, ~SelectAudio
  PROVE  /\ phase' \in {"parsing", "parsed"} => phase \in {"parsing", "parsed"}
         /\ file' = file
         /\ DOMAIN tracks \subseteq DOMAIN tracks'
         /\ \A k \in DOMAIN tracks' :
              tracks'[k].ext # "none" => k \in DOMAIN tracks /\ tracks[k].ext # "none"
         /\ numTracks' \in [Types -> Nat] /\ numTracks'["video"] = numTracks["video"]
         /\ phase' = "opened" => UNCHANGED <<tracks, phase, mkvtV, mkvtA, closed>>
<1>0. UNCHANGED numTracks => numTracks' \in [Types -> Nat]
  BY CountsUp DEF Inv
<1>1. CASE StartEntry
  <2>1. NewTrack.ext = "none"
    BY DEF NewTrack
  <2>2. phase = "parsing" /\ UNCHANGED phase
    BY <1>1 DEF StartEntry
  <2> QED
    BY <1>0, <1>1, <2>1, <2>2, StartSteps DEF Inv
<1>2. CASE ReadsChild
  <2>1. PICK c \in left :
          /\ left' = left \ {c} /\ c # "video"
          /\ Says(c, tracks[Cur], tracks'[Cur], file[Cur])
          /\ IF c = "audio" THEN Counted("audio") ELSE UNCHANGED numTracks
    BY <1>2, EntrySteps DEF Inv
  <2>2. tracks[Cur] \in Track /\ file[Cur] \in Entries
    BY <2>1, CurThere DEF Inv
  <2>3. tracks'[Cur].ext = tracks[Cur].ext
    BY <2>1, <2>2, SaysTrack
  <2>4. /\ DOMAIN tracks' = DOMAIN tracks /\ UNCHANGED <<file, phase>> /\ phase = "parsing"
        /\ \A k \in DOMAIN tracks : k # Cur => tracks'[k] = tracks[k]
    BY <1>2, EntrySteps DEF Inv
  <2>5. numTracks' \in [Types -> Nat] /\ numTracks'["video"] = numTracks["video"]
    <3>1. numTracks \in [Types -> Nat] /\ numTracks' \in [Types -> Nat]
      BY <2>1, CountsUp DEF Inv, Types
    <3> QED
      BY <2>1, <3>1 DEF Counted, Types
  <2> QED
    BY <2>3, <2>4, <2>5
<1>3. CASE EndTracks \/ UNCHANGED vars
  BY <1>0, <1>3 DEF EndTracks, vars, handles
<1>4. CASE PrintMKV
  BY <1>0, <1>4, PrintSteps DEF PrintMKV, vars, Crash
<1> QED
  BY <1>1, <1>2, <1>3, <1>4 DEF Next, ReadsChild

\* Until the video is chosen, only the parsing has opened a track: not before a Video
\* child is there, and in a file whose numbers differ only a video track.
OpensVideo ==
  phase \in {"parsing", "parsed"} =>
    \A i \in DOMAIN tracks :
      tracks[i].ext # "none" => numTracks["video"] # 0 /\ (Distinct => IsVideo(file[i]))

LEMMA ChosenIsVideo ==
  ASSUME Inv, Video, Distinct
  PROVE  IsVideo(file[Chosen(Attach(tracks))])
<1> DEFINE ts == Attach(tracks)
           count == numTracks["video"] + 1
           id == GetTrackID(ts, count, "video")
           r == Chosen(ts)
<1>1. Known(ts) /\ r \in DOMAIN tracks
  BY VideoKnows
<1>2. Cur \in DOMAIN tracks /\ Cur = Len(tracks) /\ IsVideo(file[Cur])
  BY VideoSays DEF Inv, IsVideo
<1>3. /\ ts \in Seq(Track) /\ Len(ts) = Len(tracks) /\ DOMAIN ts = DOMAIN tracks
      /\ \A k \in DOMAIN tracks : ts[k].num = tracks[k].num
  BY <1>1 DEF Known
<1>4. ts # <<>> /\ id \in Nat /\ r = GetTrackByID(ts, id)
  <2>1. id \in Nat /\ r = GetTrackByID(ts, id)
    <3> HIDE DEF ts
    <3> QED
      BY <1>3, IDOfType DEF Chosen
  <2> HIDE DEF ts, id, r
  <2> QED
    BY <1>2, <1>3, <2>1
<1>5. CASE id # 0
  <2>1. PICK j \in DOMAIN ts : ts[j].type = "video" /\ ts[j].num = id
    <3> HIDE DEF ts, count
    <3> QED
      BY <1>3, <1>5, IDOfType
  <2> HIDE DEF ts, id, r
  <2>2. j \in Numbered(ts, id)
    BY <2>1 DEF Numbered
  <2>3. ts[r].num = id
    BY <1>3, <1>4, <2>2, ByIDFinds
  <2>4. r = j
    BY <1>1, <1>3, <1>5, <2>1, <2>3, NumbersDistinct
  <2>5. Agrees(ts[r], file[r], RestOf(r, left'))
    BY <1>1 DEF Known
  <2>6. file[r].type = "video"
    BY <2>1, <2>4, <2>5 DEF Agrees
  <2> QED
    BY <2>6 DEF IsVideo, r, ts
<1>6. CASE id = 0
  <2> HIDE DEF ts, id, r
  <2>1. CASE Numbered(ts, id) = {}
    <3>1. r = Cur
      BY <1>2, <1>3, <1>4, <2>1, ByIDFinds
    <3> QED
      BY <1>2, <3>1 DEF r, ts
  <2>2. CASE Numbered(ts, id) # {}
    <3>1. tracks[r].num = 0
      BY <1>1, <1>3, <1>4, <1>6, <2>2, ByIDFinds
    <3>2. ClaimOf(tracks, file, r, Pending(r, "num"))
      BY <1>1 DEF Inv, Claimed
    <3>3. /\ DOMAIN tracks = 1..Len(tracks) /\ Len(tracks) \in Nat
          /\ DOMAIN tracks \subseteq DOMAIN file
      BY EntriesThere DEF Inv
    <3>4. file[r].num # 0
      BY <1>1, <3>3 DEF Distinct
    <3>5. ASSUME NEW j \in 1..(r - 1), file[j].num = file[r].num
          PROVE  FALSE
      <4>1. j \in DOMAIN file /\ j # r /\ r \in DOMAIN file
        BY <1>1, <3>3
      <4> QED
        BY <3>5, <4>1 DEF Distinct
    <3>6. Pending(r, "num")
      BY <3>1, <3>2, <3>4, <3>5 DEF ClaimOf
    <3>7. r = Cur
      BY <1>2, <3>6 DEF Pending
    <3> QED
      BY <1>2, <3>7 DEF r, ts
  <2> QED
    BY <2>1, <2>2
<1> QED
  BY <1>5, <1>6

LEMMA StepOpensVideo == Inv /\ OpensVideo /\ [Next]_vars => OpensVideo'
<1> SUFFICES ASSUME Inv, OpensVideo, [Next]_vars, phase' \in {"parsing", "parsed"},
                    NEW k \in DOMAIN tracks', tracks'[k].ext # "none"
             PROVE  numTracks'["video"] # 0 /\ (Distinct' => IsVideo(file'[k]))
  BY DEF OpensVideo
<1>1. CASE Video
  <2> DEFINE ts == Attach(tracks)
             i == Chosen(ts)
  <2>1. /\ file' = file /\ Counted("video") /\ phase = "parsing"
    BY <1>1, VideoSays DEF Inv
  <2>2. Known(ts) /\ i \in DOMAIN tracks /\ (Distinct => IsVideo(file[i]))
    BY <1>1, VideoKnows, ChosenIsVideo
  <2>3. Opens(ts, i)
    BY <1>1, VideoKnows DEF Fails
  <2> HIDE DEF ts, i
  <2>4. /\ DOMAIN tracks' = DOMAIN tracks
        /\ k # i => tracks'[k].ext = tracks[k].ext
    <3>1. /\ ts \in Seq(Track) /\ i \in DOMAIN ts /\ DOMAIN ts = DOMAIN tracks
          /\ \A m \in DOMAIN tracks : ts[m].ext = tracks[m].ext
      BY <2>2 DEF Known
    <3>2. DOMAIN tracks' = DOMAIN ts /\ \A m \in DOMAIN ts : m # i => tracks'[m] = ts[m]
      BY <2>3, <3>1, OpensOne
    <3> QED
      BY <3>1, <3>2
  <2>5. numTracks'["video"] # 0
    <3>1. numTracks \in [Types -> Nat]
      BY <2>1, CountsUp DEF Inv, Types
    <3> QED
      BY <2>1, <3>1 DEF Counted, Types
  <2>6. k # i => (Distinct => IsVideo(file[k]))
    BY <2>1, <2>4 DEF OpensVideo
  <2> QED
    BY <2>1, <2>2, <2>5, <2>6 DEF Distinct, IsVideo
<1>2. CASE OpenVideo \/ SelectAudio
  BY <1>2 DEF OpenVideo, SelectAudio, OpenTrack, Fails, VideoOpened, Selected, Crash
<1>3. CASE ~(Video \/ OpenVideo \/ SelectAudio)
  <2>1. /\ phase \in {"parsing", "parsed"} /\ file' = file
        /\ k \in DOMAIN tracks /\ tracks[k].ext # "none"
        /\ numTracks'["video"] = numTracks["video"]
    BY <1>3, OthersOpenNone
  <2> QED
    BY <2>1 DEF OpensVideo, Distinct, IsVideo
<1> QED
  BY <1>1, <1>2, <1>3

-----------------------------------------------------------------------------
OneVideo ==
  \E v \in DOMAIN file :
    file[v].type = "video" /\ \A i \in DOMAIN file : IsVideo(file[i]) => i = v

LEMMA StepUnread == Inv /\ OpensVideo /\ UnreadIsClosed /\ [Next]_vars => UnreadIsClosed'
<1> SUFFICES ASSUME Inv, OpensVideo, UnreadIsClosed, [Next]_vars,
                    phase' = "opened", Distinct', OneVideo',
                    NEW k \in DOMAIN tracks', tracks'[k].ext # "none"
             PROVE  \/ k \in {mkvtV', mkvtA'} \cup closed'
                    \/ Lost(file'[k])
  BY DEF UnreadIsClosed, OneVideo
<1>1. CASE Video
  <2>1. phase = "parsing"
    BY <1>1 DEF Video, Child
  <2> QED
    BY <1>1, <2>1 DEF Video, OpenTrack, Fails
<1>2. CASE OpenVideo
  <2>1. phase = "parsed" /\ UNCHANGED <<file, left>> /\ Distinct /\ OneVideo
    BY <1>2 DEF OpenVideo, Distinct, OneVideo, IsVideo
  <2>2. PICK v \in DOMAIN file :
          file[v].type = "video" /\ \A i \in DOMAIN file : IsVideo(file[i]) => i = v
    BY <2>1 DEF OneVideo
  <2>3. /\ DOMAIN tracks = DOMAIN file
        /\ \A i \in DOMAIN tracks :
             tracks[i].ext # "none" => numTracks["video"] # 0 /\ i = v
    BY <2>1, <2>2, AllRead DEF OpensVideo
  <2>4. CASE GetVideoTrackID = 0
    <3>1. tracks' = tracks
      BY <1>2, <2>4 DEF OpenVideo
    <3>2. numTracks["video"] # 0
      BY <2>3, <3>1
    <3>3. v \in OfType(tracks, "video")
      BY <2>1, <2>2, <2>3, AllRead DEF OfType
    <3>4. PICK i \in DOMAIN tracks : tracks[i].num = 0
      BY <2>4, <3>2, <3>3, IDOfType DEF Inv, TypeOK, GetVideoTrackID
    <3>5. ClaimOf(tracks, file, i, FALSE)
      BY <2>1, AllRead
    <3>6. file[i].num # 0
      BY <2>1, <2>3 DEF Distinct
    <3>7. \A j \in 1..(i - 1) : j \in DOMAIN file /\ j # i
      BY <2>3, EntriesThere DEF Inv
    <3>8. \A j \in 1..(i - 1) : file[j].num # file[i].num
      BY <2>1, <2>3, <3>7 DEF Distinct
    <3> QED
      BY <3>4, <3>5, <3>6, <3>8 DEF ClaimOf
  <2>5. CASE GetVideoTrackID # 0
    <3> DEFINE i == GetTrackByID(tracks, GetVideoTrackID)
    <3>1. i \in DOMAIN tracks /\ tracks[i].type = "video"
      BY <2>5, LeadsBack DEF GetVideoTrackID
    <3>2. Opens(tracks, i) /\ VideoOpened(i)
      BY <1>2, <2>5 DEF OpenVideo, OpenTrack, Fails
    <3> HIDE DEF i
    <3>3. i = v /\ tracks \in Seq(Track)
      BY <2>1, <2>2, <2>3, <3>1, AllRead DEF IsVideo, Inv, TypeOK
    <3>4. DOMAIN tracks' = DOMAIN tracks /\ (k # i => tracks'[k] = tracks[k])
      <4>1. /\ DOMAIN tracks' = DOMAIN tracks
            /\ \A m \in DOMAIN tracks : m # i => tracks'[m] = tracks[m]
        BY <3>1, <3>2, <3>3, OpensOne
      <4> QED
        BY <4>1
    <3>5. k = i
      BY <2>3, <3>3, <3>4
    <3> QED
      BY <3>2, <3>5 DEF VideoOpened, Crash
  <2> QED
    BY <2>4, <2>5
<1>3. CASE SelectAudio
  <2>1. phase = "opened" /\ UNCHANGED <<file, left>> /\ Distinct /\ OneVideo
    BY <1>3 DEF SelectAudio, Distinct, OneVideo, IsVideo
  <2>2. PICK index \in 1..numTracks["audio"], i \in DOMAIN tracks :
          Fails(tracks, i) \/ (Opens(tracks, i) /\ Selected(i, index))
    BY <1>3, SelectAudioFinds DEF Inv
  <2>3. Opens(tracks, i) /\ Selected(i, index)
    BY <2>2 DEF Fails
  <2>4. tracks \in Seq(Track)
    BY DEF Inv, TypeOK
  <2>5. DOMAIN tracks' = DOMAIN tracks /\ (k # i => tracks'[k] = tracks[k])
    <3>1. /\ DOMAIN tracks' = DOMAIN tracks
          /\ \A m \in DOMAIN tracks : m # i => tracks'[m] = tracks[m]
      BY <2>3, <2>4, OpensOne
    <3> QED
      BY <3>1
  <2>6. \/ Lost(tracks[i]) /\ UNCHANGED <<mkvtV, mkvtA, closed>>
        \/ /\ mkvtA' = i /\ closed' = (closed \cup ({mkvtA} \ {0})) \ {i}
           /\ UNCHANGED mkvtV
        \/ closed' = closed \cup {i} /\ UNCHANGED <<mkvtV, mkvtA>>
    BY <2>3 DEF Selected, Crash, handles
  <2>7. CASE k # i
    <3>1. tracks[k].ext # "none" /\ k \in DOMAIN tracks
      BY <2>5, <2>7
    <3>2. k \in {mkvtV, mkvtA} \cup closed \/ Lost(file[k])
      BY <2>1, <3>1 DEF UnreadIsClosed, OneVideo
    <3>3. k # 0
      BY <3>1, EntriesThere DEF Inv
    <3> QED
      BY <2>1, <2>6, <2>7, <3>2, <3>3
  <2>8. CASE k = i
    <3>1. Agrees(tracks[i], file[i], {}) /\ tracks[i].codec = file[i].codec
      BY <2>1, <2>2, AllRead
    <3>2. Lost(tracks[i]) => Lost(file[i])
      BY <3>1 DEF Agrees, Lost
    <3> QED
      BY <2>1, <2>6, <2>8, <3>2
  <2> QED
    BY <2>7, <2>8
<1>4. CASE ~(Video \/ OpenVideo \/ SelectAudio)
  <2>1. UNCHANGED <<file, tracks, phase, mkvtV, mkvtA, closed>>
    BY <1>4, OthersOpenNone
  <2> QED
    BY <2>1 DEF UnreadIsClosed, Distinct, OneVideo, IsVideo
<1> QED
  BY <1>1, <1>2, <1>3, <1>4

-----------------------------------------------------------------------------
(***************************************************************************)
(* A number by which the program is told to open the video, or an audio    *)
(* track, leads back to a track of that type, in every state, so also      *)
(* where handle_video_track looks one up in the middle of an entry, and    *)
(* for files that use a number twice; and every index up to the count of   *)
(* Audio children leads to an audio track, if only such have one.          *)
(***************************************************************************)
THEOREM SelectionCorrect == Spec => []SelectionLeadsBack
BY Invariance, InvSelection, PTL

(***************************************************************************)
(* Blocks go to the track whose entry is the first in the file to claim    *)
(* their number, whatever order the children of the entries come in.       *)
(***************************************************************************)
THEOREM FirstClaimHolds == Spec => []FirstClaimWins
BY Invariance, InvFirstClaim, PTL

(***************************************************************************)
(* A track object that is missing or of the wrong kind is used only where  *)
(* the entry itself lacks the child that its type or its codec calls for,  *)
(* or has the other one: in a file whose entries are sound, handling them  *)
(* child by child and opening a track in between never leads to one, in    *)
(* create_file, in the questions of the program or in dump_track.          *)
(***************************************************************************)
THEOREM NoWildAccessHolds == Spec => []NoWildAccess
<1>1. Init => NoWildAccess
  BY DEF Init, NoWildAccess
<1> QED
  BY <1>1, Invariance, StepNoWild, PTL DEF Spec

\* The inductive form of the next theorem.
LEMMA OpensVideoHolds == Spec => []OpensVideo
<1>1. Init => OpensVideo
  BY DEF Init, OpensVideo
<1> QED
  BY <1>1, Invariance, StepOpensVideo, PTL DEF Spec

(***************************************************************************)
(* The parsing opens video tracks only, in a file whose numbers differ:    *)
(* whatever handle_video_track chooses while the table is incomplete.      *)
(***************************************************************************)
THEOREM ParsingOpensVideoHolds == Spec => []ParsingOpensVideo
<1>1. OpensVideo => ParsingOpensVideo
  BY DEF OpensVideo, ParsingOpensVideo
<1> QED
  BY <1>1, OpensVideoHolds, PTL

(***************************************************************************)
(* The program ends in the opening of a track only for private data of     *)
(* that track's own entry that is missing, too short, malformed or still   *)
(* to come, or that an earlier opening has remade.                         *)
(***************************************************************************)
THEOREM ExitHolds == Spec => []ExitExplained
<1>1. Init => ExitExplained
  BY DEF Init, ExitExplained
<1> QED
  BY <1>1, Invariance, StepExit, PTL DEF Spec

(***************************************************************************)
(* In a file with one video track and different numbers, every extractor   *)
(* is that of a track the program reads, has closed, or has lost for its   *)
(* DSI: however often it changes its audio track.                          *)
(***************************************************************************)
THEOREM UnreadHolds == Spec => []UnreadIsClosed
<1>1. Init => UnreadIsClosed
  BY DEF Init, UnreadIsClosed
<1> QED
  BY <1>1, Invariance, OpensVideoHolds, StepUnread, PTL DEF Spec
=============================================================================
