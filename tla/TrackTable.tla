----------------------------- MODULE TrackTable -----------------------------
(***************************************************************************)
(* The tracks of a file: how handle_tracks of matroska_demux.cpp fills     *)
(* m_tracks from the Tracks element, entry by entry and child by child, in *)
(* the order the children have in the file; how handle_video_track opens   *)
(* a track in the middle of its entry; and how the program then chooses    *)
(* its tracks and opens them with RMOpenMKVTrack.                          *)
(*                                                                         *)
(* An entry of the file may lack any child: one without TrackNumber has    *)
(* number 0, one without TrackType is of type "other" (as are those for    *)
(* subtitles), one without CodecID of codec "other" (as are those with a   *)
(* codec nobody knows), and any of Video and Audio may be there or not. A  *)
(* child that would set what a new track already has is not distinguished  *)
(* from one that is missing.                                               *)
(*                                                                         *)
(* Private data: "none"; "empty", of no bytes; "short", fewer than six;    *)
(* "full", up to 64 bytes, which as an avcC are well formed; "big", longer *)
(* ones; "bad", as an avcC a NAL unit does not fit; and "made", what the   *)
(* AVC extractor has left in place of the file's: parameter sets with      *)
(* start codes, six bytes or more.                                         *)
(*                                                                         *)
(* open_extractor leaves tspec.extract_raw uninitialised; if it happens to *)
(* be 1 or 2 the codec is not looked at, and the extractor is a raw one.   *)
(*                                                                         *)
(* Not here: memory and dump files that cannot be had, and a PCM entry of  *)
(* bit depth 2^32 - 1, which xtr_wav_c takes for one that has none.        *)
(***************************************************************************)
EXTENDS Naturals, Sequences, FiniteSets

CONSTANT Files      \* the contents of Tracks elements: sequences of entries

Types == {"video", "audio"}
Codecs == {"AVC", "MSCOMP", "MPEG4", "AAC", "PCM", "AC3", "MP3", "other"}
FilePrivates == {"none", "empty", "short", "bad", "full", "big"}

Entries == [num : Nat, type : Types \cup {"other"}, codec : Codecs, default : BOOLEAN,
            private : FilePrivates, media : SUBSET Types]

ASSUME FilesAssumption == Files \subseteq Seq(Entries)

VARIABLES file,         \* the file being opened
          tracks,       \* m_tracks
          left,         \* children of the last track's entry still to come
          numTracks,    \* m_num_video_tracks, m_num_audio_tracks
          phase,        \* parsing, parsed, video opened, or how the program ended
          fault,        \* the track at which it ended
          mkvtV,        \* the tracks whose handles the program has (0: none)
          mkvtA,
          current,      \* currentAudioTrack
          closed        \* tracks it has closed (RMCloseMKVTrack) and not opened again

handles == <<mkvtV, mkvtA, current, closed>>
vars == <<file, tracks, left, numTracks, phase, fault, mkvtV, mkvtA, current, closed>>

Extractors == {"none", "raw", "base", "avc", "aac"}
Privates == FilePrivates \cup {"made"}

Track == [num : Nat, type : Types \cup {"other"}, codec : Codecs, default : BOOLEAN,
          media : Types \cup {"none"}, private : Privates, ext : Extractors]

NewTrack == [num |-> 0, type |-> "other", codec |-> "other", default |-> FALSE,
             media |-> "none", private |-> "none", ext |-> "none"]

\* The children of an entry that say something, by the member they set.
Children(e) ==
  {c \in {"num", "type", "codec", "default", "private"} : e[c] # NewTrack[c]} \cup e.media

TypeOK ==
  /\ file \in Files
  /\ tracks \in Seq(Track) /\ Len(tracks) <= Len(file)
  /\ left \subseteq (IF tracks = <<>> THEN {} ELSE Children(file[Len(tracks)]))
  /\ numTracks \in [Types -> IF tracks = <<>> THEN {0} ELSE Nat]
  /\ phase \in {"parsing", "parsed", "opened", "exited", "crashed"}
  /\ fault \in 0..Len(tracks) /\ (fault = 0 <=> phase \notin {"exited", "crashed"})
  /\ mkvtV \in 0..Len(tracks) /\ mkvtA \in 0..Len(tracks)
  /\ current \in 0..numTracks["audio"] /\ closed \subseteq DOMAIN tracks

Init ==
  /\ file \in Files
  /\ tracks = <<>> /\ left = {} /\ numTracks = [type \in Types |-> 0]
  /\ phase = "parsing" /\ fault = 0
  /\ mkvtV = 0 /\ mkvtA = 0 /\ current = 0 /\ closed = {}
-----------------------------------------------------------------------------
(* Looking for tracks.                                                     *)

First(S) == CHOOSE i \in S : \A j \in S : i <= j

Numbered(ts, n) == {i \in DOMAIN ts : ts[i].num = n}
OfType(ts, type) == {i \in DOMAIN ts : ts[i].type = type}

\* Mutant: the first track there is, when none has the number.
FirstWhenUnknown(ts, n) == IF Numbered(ts, n) = {} THEN 1 ELSE First(Numbered(ts, n))

\* The last track there is, when none has the number.
GetTrackByID(ts, n) == IF Numbered(ts, n) = {} THEN Len(ts) ELSE First(Numbered(ts, n))

\* The default track of the type, or the first one; 0 if there is none, or if no
\* entry had a child of the type (count).
GetTrackID(ts, count, type) ==
  LET default == {i \in OfType(ts, type) : ts[i].default} IN
  IF count = 0 \/ OfType(ts, type) = {} THEN 0
  ELSE ts[First(IF default = {} THEN OfType(ts, type) ELSE default)].num

GetVideoTrackID == GetTrackID(tracks, numTracks["video"], "video")

\* The index-th audio track, if there is one.
AudioTrackByIndex(ts, index) ==
  {i \in OfType(ts, "audio") :
     Cardinality({j \in OfType(ts, "audio") : j <= i}) = index}
-----------------------------------------------------------------------------
(* Opening a track.                                                        *)

\* create_extractor, by the codec; MSCOMP stands for MPEG-1 and -2, AC3 for DTS, and
\* the AAC extractor for that of PCM, which asks for the same.
CreateExtractor(codec) ==
  CASE codec = "AVC" -> "avc"
    [] codec \in {"AAC", "PCM"} -> "aac"
    [] codec \in {"MSCOMP", "AC3", "MP3"} -> "base"
    [] OTHER -> "none"

\* Mutant: the extractors that need no private data ask for it too.
ExitsWithout(ext, private) == ext # "none" /\ private \in {"none", "empty", "short"}

\* create_file leaves by mxerror: no private data, or for AVC too few or such that
\* write_nal finds a NAL unit too big.
Exits(ext, private) ==
  \/ ext \in {"avc", "aac"} /\ private = "none"
  \/ ext = "avc" /\ private \in {"empty", "short", "bad"}

\* The AVC extractor may take a NAL unit for too big in what it made itself.
MayExit(ext, private) == Exits(ext, private) \/ (ext = "avc" /\ private = "made")

\* What create_file leaves as private data: that of AVC what it has written, nothing
\* if there are no parameter sets.
Remade(ext, private) == IF ext = "avc" THEN {"empty", "short", "made"} ELSE {private}

\* create_file of AVC writes into mp_track as a video track; that of AAC reads the
\* audio track object, of a track that is known to be audio.
WildAccess(ext, t) ==
  \/ ext = "avc" /\ t.media # "video"
  \/ ext = "aac" /\ t.type = "audio" /\ t.media # "audio"

\* The extractors that open_extractor may make for a track.
Extracting(t) == {"raw", CreateExtractor(t.codec)}

\* create_file of the extractor of track i of ts does not return.
Fails(ts, i) ==
  /\ \E ext \in Extracting(ts[i]) :
       /\ \/ MayExit(ext, ts[i].private) /\ phase' = "exited"
          \/ /\ ~Exits(ext, ts[i].private) /\ WildAccess(ext, ts[i])
             /\ phase' = "crashed"
       /\ tracks' = [ts EXCEPT ![i].ext = ext]
  /\ fault' = i /\ UNCHANGED handles

\* It returns.
Opens(ts, i) ==
  \E ext \in Extracting(ts[i]) :
    /\ ~Exits(ext, ts[i].private) /\ ~WildAccess(ext, ts[i])
    /\ \E private \in Remade(ext, ts[i].private) :
         tracks' = [ts EXCEPT ![i].ext = ext, ![i].private = private]

\* OpenTrack of track i of ts, and what comes next if it returns.
OpenTrack(ts, i, next) == Fails(ts, i) \/ (Opens(ts, i) /\ next)
-----------------------------------------------------------------------------
(* handle_tracks: the children of the entries, in any order.               *)

StartEntry ==
  /\ phase = "parsing" /\ left = {} /\ Len(tracks) < Len(file)
  /\ tracks' = Append(tracks, NewTrack)
  /\ left' = Children(file[Len(tracks) + 1])
  /\ UNCHANGED <<file, numTracks, phase, fault, handles>>

\* A child c of the current entry is handled.
Child(c) == phase = "parsing" /\ c \in left /\ left' = left \ {c} /\ UNCHANGED file

Cur == Len(tracks)

Sets(ts) == tracks' = ts /\ UNCHANGED <<numTracks, phase, fault, handles>>

\* Mutant: a number is taken although a track has it.
AnyNumberFree(n) == TRUE

\* Mutant: the tracks are taken to be numbered in ascending order.
NumberRises(n) == \A i \in DOMAIN tracks : tracks[i].num < n

\* find_track: no track has the number yet.
NumberFree(n) == Numbered(tracks, n) = {}

TrackNumber ==
  /\ Child("num")
  /\ Sets(IF NumberFree(file[Cur].num)
          THEN [tracks EXCEPT ![Cur].num = file[Cur].num] ELSE tracks)

TrackType == Child("type") /\ Sets([tracks EXCEPT ![Cur].type = file[Cur].type])

CodecID == Child("codec") /\ Sets([tracks EXCEPT ![Cur].codec = file[Cur].codec])

FlagDefault ==
  Child("default") /\ Sets([tracks EXCEPT ![Cur].default = file[Cur].default])

CodecPrivate ==
  Child("private") /\ Sets([tracks EXCEPT ![Cur].private = file[Cur].private])

Counted(type) == numTracks' = [numTracks EXCEPT ![type] = @ + 1]

\* handle_audio_track.
Audio ==
  /\ Child("audio") /\ Counted("audio")
  /\ tracks' = [tracks EXCEPT ![Cur].media = "audio"]
  /\ UNCHANGED <<phase, fault, handles>>

\* Mutant: the new track object is attached after the track is opened.
AttachLate(ts) == ts

\* The track gets its matroska_video_track_c.
Attach(ts) == [ts EXCEPT ![Cur].media = "video"]

\* Mutant: the first track of the file is opened.
FirstTrack(ts) == 1

\* The track handle_video_track opens: the one that would be chosen now, with this
\* video track counted.
Chosen(ts) == GetTrackByID(ts, GetTrackID(ts, numTracks["video"] + 1, "video"))

\* handle_video_track, which opens the video track chosen so far.
Video ==
  /\ Child("video") /\ Counted("video")
  /\ OpenTrack(Attach(tracks), Chosen(Attach(tracks)), UNCHANGED <<phase, fault, handles>>)

EndTracks ==
  /\ phase = "parsing" /\ left = {} /\ Len(tracks) = Len(file)
  /\ phase' = "parsed"
  /\ UNCHANGED <<file, tracks, left, numTracks, fault, handles>>
-----------------------------------------------------------------------------
(* The program: init_MKV_tracks and mkv_select_audio_track of play_mkv.cpp, *)
(* built with WITH_MONO.                                                   *)

\* A track of the type is asked for its width, or its sampling rate, although its
\* track object is missing or of the other kind.
Misread(t, type) == t.type = type /\ t.media # type

Crash(i) == phase' = "crashed" /\ fault' = i /\ UNCHANGED handles

\* The video handle is kept or closed: the player shows H.264 and MPEG-4 with a DSI
\* only, and of these not every level, profile and size of the DSI.
VideoOpened(i) ==
  IF Misread(tracks[i], "video") THEN Crash(i)
  ELSE /\ phase' = "opened" /\ UNCHANGED <<fault, mkvtA, current>>
       /\ \/ /\ tracks[i].codec \in {"AVC", "MPEG4"}
             /\ tracks'[i].private \notin {"none", "empty"}
             /\ mkvtV' = i /\ UNCHANGED closed
          \/ closed' = closed \cup {i} /\ UNCHANGED mkvtV

OpenVideo ==
  /\ phase = "parsed"
  /\ IF GetVideoTrackID = 0
     THEN phase' = "opened" /\ UNCHANGED <<tracks, fault, handles>>
     ELSE LET i == GetTrackByID(tracks, GetVideoTrackID) IN
          OpenTrack(tracks, i, VideoOpened(i))
  /\ UNCHANGED <<file, left, numTracks>>

\* The handle is forgotten: an AAC track whose DSI is missing or larger than tempdsi.
Lost(e) == e.codec = "AAC" /\ e.private \in {"none", "empty", "big"}

\* Mutant: the handle remembers the number of its track.
SelectedByNumber(i, index) ==
  mkvtA' = tracks[i].num /\ current' = index /\ UNCHANGED <<phase, fault, mkvtV, closed>>

\* The new handle replaces that of the track played before, which is closed; the
\* handle of a track of another codec is closed at once.
Selected(i, index) ==
  CASE Lost(tracks[i]) -> UNCHANGED <<phase, fault, handles>>
    [] ~Lost(tracks[i]) /\ tracks[i].codec \in {"AAC", "AC3"} ->
         IF Misread(tracks[i], "audio") THEN Crash(i)
         ELSE /\ mkvtA' = i /\ current' = index
              /\ closed' = (closed \cup ({mkvtA} \ {0})) \ {i}
              /\ UNCHANGED <<phase, fault, mkvtV>>
    [] OTHER -> closed' = closed \cup {i} /\ UNCHANGED <<phase, fault, mkvtV, mkvtA, current>>

\* The tracks that RMOpenMKVTrack may open for the index-th audio track. If there is
\* none, GetAudioTrackIDByIndex ends without returning a value: any number but 0.
Found(index) ==
  LET known == {i \in DOMAIN tracks : tracks[i].num > 0}
      there == AudioTrackByIndex(tracks, index)
  IN IF there = {} THEN known \cup {Len(tracks)}
     ELSE {GetTrackByID(tracks, tracks[k].num) : k \in there \cap known}

\* The index-th audio track is selected, by the option, as the first that works, or
\* by a key.
SelectAudio ==
  /\ phase = "opened"
  /\ \E index \in (1..numTracks["audio"]) \ {current} : \E i \in Found(index) :
       OpenTrack(tracks, i, Selected(i, index))
  /\ UNCHANGED <<file, left, numTracks>>

\* RMPrintMKV, with which other programs list the tracks: dump_track calls a method
\* of the track object.
PrintMKV ==
  /\ phase \in {"parsed", "opened"}
  /\ LET bare == {i \in DOMAIN tracks : tracks[i].media = "none"} IN
       IF bare = {} THEN UNCHANGED vars
       ELSE Crash(First(bare)) /\ UNCHANGED <<file, tracks, left, numTracks>>

Next ==
  \/ StartEntry \/ TrackNumber \/ TrackType \/ CodecID \/ FlagDefault \/ CodecPrivate
  \/ Audio \/ Video \/ EndTracks
  \/ OpenVideo \/ SelectAudio \/ PrintMKV

Spec == Init /\ [][Next]_vars
-----------------------------------------------------------------------------
(* Properties.                                                             *)

\* The file gives every track a number of its own.
Distinct ==
  \A i \in DOMAIN file :
    file[i].num # 0 /\ \A j \in DOMAIN file : i # j => file[i].num # file[j].num

\* An entry that says it is video, or has a Video child.
IsVideo(e) == e.type = "video" \/ "video" \in e.media

\* The entry has the child that the type calls for, and not the other one.
Fits(e, type) == e.media = {type}

\* A number by which the program is told to open a video or an audio track leads
\* back to a track of that type, also when the file uses a number twice: the
\* last track, which GetTrackByID returns for a number nobody has, is never
\* opened in place of another. If no Audio child is in an entry of another type,
\* there is a track for every index of an audio track.
SelectionLeadsBack ==
  /\ \A type \in Types :
       LET id == GetTrackID(tracks, numTracks[type], type) IN
       id # 0 => tracks[GetTrackByID(tracks, id)].type = type
  /\ phase = "parsed" /\ (\A i \in DOMAIN file : "audio" \in file[i].media => file[i].type = "audio") =>
       \A index \in 1..numTracks["audio"] : AudioTrackByIndex(tracks, index) # {}

\* A block of number n goes to the first entry of the file that claims n, whatever
\* the order of the children: a later claim does not divert its blocks.
FirstClaimWins ==
  phase = "parsed" =>
    \A i \in DOMAIN file :
      file[i].num # 0 =>
        First({j \in DOMAIN file : file[j].num = file[i].num})
          = GetTrackByID(tracks, file[i].num)

\* A track object that is missing or of another kind is used only where the entry of
\* the track at fault lacks the child for its type or its codec, or has one too many:
\* never because parsing opened a track whose entry it had not read to its end.
NoWildAccess ==
  phase = "crashed" =>
    LET e == file[fault] IN
    \/ e.media = {}
    \/ (e.codec = "AVC" \/ e.type = "video") /\ ~Fits(e, "video")
    \/ e.type = "audio" /\ ~Fits(e, "audio")

\* Parsing opens video tracks only, in a file whose numbers differ: a track it
\* opens by mistake would fill its buffers with nobody to read them.
ParsingOpensVideo ==
  phase = "parsing" /\ Distinct =>
    \A i \in DOMAIN tracks : tracks[i].ext # "none" => IsVideo(file[i])

\* Opening a track ends the program only where the private data of this track's own
\* entry is missing, too short or malformed, comes behind its Video child, or
\* was remade by an earlier opening of the same track.
ExitExplained ==
  phase = "exited" =>
    LET e == file[fault] IN
    /\ e.codec \in {"AVC", "AAC", "PCM"}
    /\ \/ e.private = "none"
       \/ e.codec = "AVC" /\ e.private \in {"empty", "short", "bad"}
       \/ fault = Len(tracks) /\ "private" \in left
       \/ e.codec = "AVC" /\ tracks[fault].private \in {"empty", "short", "made"}

\* In a file with one video track and different numbers, once the program has
\* opened its video, an extractor that nobody reads is one of a track that the
\* program has closed or whose handle it has lost: the parsing leaves none behind
\* under a track the program does not know of.
UnreadIsClosed ==
  /\ phase = "opened" /\ Distinct
  /\ \E v \in DOMAIN file :
       file[v].type = "video" /\ \A i \in DOMAIN file : IsVideo(file[i]) => i = v
  => \A i \in DOMAIN tracks :
       tracks[i].ext # "none" => i \in {mkvtV, mkvtA} \cup closed \/ Lost(file[i])
=============================================================================
