------------------------------ MODULE MkvDemux ------------------------------
(***************************************************************************)
(* The rmmkv client library at work: the demux thread                      *)
(* (MKVDemuxThreadFunc, Demux) reads the file cluster by cluster and fills *)
(* a ring of bytes and a cache of frame records per opened track; the      *)
(* client's one thread opens tracks, takes samples, seeks and closes.      *)
(*                                                                         *)
(* RingBuffer and FrameCache model the two buffers in detail.  Here a      *)
(* buffer operation is one action together with the broadcast that ends    *)
(* it; what stays apart is where a thread waits, and the pre-buffering     *)
(* windows of the ring's write.  m_lock is held by the demux thread in the *)
(* places of Holding; the client's locked sections are single actions.     *)
(* mb_demuxing is raised and lowered inside one locked section, so nobody  *)
(* who holds m_lock can see it raised, and the wait on it is dead code.    *)
(*                                                                         *)
(* Parsing the tracks opens one of them already (handle_video_track), and  *)
(* Open puts the file's first cluster into it before there is a demux      *)
(* thread.  RMOpenMKVTrack later gives the track a second extractor; the   *)
(* first is not freed, and the demux thread may still be at work in it.    *)
(***************************************************************************)
EXTENDS Integers, FiniteSets, Sequences, SequencesExt

CONSTANTS TrackOrder,   \* m_tracks: the file's tracks, in order
          VideoTracks,  \* those that the demuxer pre-buffers by preference
          File,         \* the clusters: sequences of frames [id, track, tick, entry, size]
          NsPerTick,    \* m_timecode_scale: frame times are ticks * NsPerTick
          RingCap,      \* bytes a track's ring can hold
          CacheCap,     \* records a track's frame cache can hold
          Rooms,        \* the maxSize values the client passes
          Targets,      \* the times, in ticks, the client seeks to
          JunkTimes,    \* what may lie behind the last element of mp_indexes
          MaxSeeks,     \* bound: seeks per behaviour
          Profiles,     \* what clients do and what Open found in the file:
                        \* [tracks, ops, cues, early]
          NoTrack       \* no track pre-buffers

Tracks == ToSet(TrackOrder)
AllFrames == UNION {ToSet(File[c]) : c \in 1..Len(File)}
Cuts == [time : Nat, cluster : 1..Len(File)]
Block == [id : Nat, track : Tracks, tick : Nat, entry : BOOLEAN, size : 1..RingCap]

ASSUME FileAssumption ==
  /\ NoTrack \notin Tracks /\ VideoTracks \subseteq Tracks
  /\ TrackOrder \in Seq(Tracks)
  /\ File \in Seq(Seq(Block)) /\ File # <<>>
  /\ \A c, d \in DOMAIN File : \A i \in DOMAIN File[c], j \in DOMAIN File[d] :
       c < d \/ (c = d /\ i < j) => File[c][i].id < File[d][j].id  \* in file order
  /\ RingCap \in Nat \ {0} /\ CacheCap \in Nat \ {0} /\ NsPerTick \in Nat \ {0}
  /\ Rooms \subseteq Nat \ {0} /\ Targets \subseteq Nat /\ MaxSeeks \in Nat
  /\ \A p \in Profiles : /\ p.tracks \subseteq Tracks
                         /\ p.ops \subseteq {"get", "seek", "close"}
                         /\ p.cues \in Seq(Cuts)
                         /\ p.early \subseteq VideoTracks

VARIABLES running,      \* mkvc->running
          state,        \* mkvc->state
          needSeek,     \* mb_need_to_seek
          closeReq,     \* mb_require_to_close
          skip,         \* mb_skip_to_timecode
          seekTime,     \* m_seek_time
          pos,          \* the cluster the file pointer stands at
          eof,          \* feof of the file
          released,     \* Close has deleted the stream, the file and the tracks
          open,         \* tracks with an extractor and its ring
          half,         \* tracks with an extractor that has no ring yet
          opened,       \* tracks the client has opened
          orphan,       \* the demux thread works in an extractor that was replaced;
                        \* how many bytes and records that one holds
          ring,         \* per track, the bytes: sequence of [id, gen]
          frames,       \* per track, the records: sequence of [id, gen, left, pts]
          spaceNeeded,  \* per track, m_space_needed of its frame cache
          preBuffering, \* the track whose ring has mb_pre_buffering, if any
          dpc,          \* where the demux thread is
          todo,         \* the rest of the cluster it has read
          lost,         \* it sleeps although it was due a wakeup (history)
          cpc,          \* where the client is
          op,           \* the call it is in
          ctrack,       \* the track it works on
          room,         \* get: bytes left in the caller's buffer
          sample,       \* get: what the first round has found out for the caller
          target,       \* seek: the time asked for
          rest,         \* seek, close: the tracks still to reset
          reported,     \* what the last seek returned, <<>> before (history)
          delivered,    \* per track, the bytes handed out since the last seek (history)
          gen,          \* completed seeks (history and bound)
          client        \* its profile (chosen once)

flags   == <<running, state, needSeek, closeReq>>
skips   == <<skip, seekTime>>
file    == <<pos, eof, released>>
tracks  == <<open, half, opened, orphan>>
bufs    == <<ring, frames, spaceNeeded, preBuffering>>
demux   == <<dpc, todo, lost>>
call    == <<cpc, op, ctrack, room, target, rest>>
history == <<reported, delivered, gen, sample>>
vars == <<flags, skips, file, tracks, bufs, demux, call, history, client>>

Holding == {"block", "unskip", "unskipTime", "write", "announce1", "relock1",
            "announce2", "relock2", "ringWait", "push", "cacheWait", "cacheWoken", "unlock"}
Cur == Head(todo)
NoOrphan == [on |-> FALSE, bytes |-> 0, records |-> 0]
BytesHeld   == IF orphan.on THEN orphan.bytes ELSE Len(ring[Cur.track])
RecordsHeld == IF orphan.on THEN orphan.records ELSE Len(frames[Cur.track])
Fits == BytesHeld + Cur.size <= RingCap
(* m_pts and m_flag of a record from which something was taken; a sample    *)
(* before its first round, and one whose first round found no record and    *)
(* so copied what was on the stack.                                         *)
Taken    == -1
NoSample == [kind |-> "none", from |-> 0, time |-> Taken, end |-> FALSE]
Junk     == [NoSample EXCEPT !.kind = "junk"]
Bytes(f, n) == [i \in 1..n |-> [id |-> f.id, gen |-> f.gen]]
(* The demux thread after a broadcast on track t to those who wait at from. *)
At(from, t) == dpc = from /\ Cur.track = t /\ ~orphan.on
Wake(wake, from, t, to) ==
  IF wake /\ At(from, t) THEN dpc' = to /\ lost' = FALSE ELSE UNCHANGED <<dpc, lost>>
(* mutant: the reader of the ring tells the waiting writer nothing         *)
FreeUnannounced(t) == UNCHANGED <<dpc, lost>>
FreeAvailable(t) == Wake(TRUE, "ringWait", t, "write")
-----------------------------------------------------------------------------
Tag(f, g) == [id |-> f.id, track |-> f.track, tick |-> f.tick, entry |-> f.entry,
              size |-> f.size, gen |-> g]
Cluster(c) == [i \in 1..Len(File[c]) |-> Tag(File[c][i], gen)]

(* Parsing a video track opens the one to play, as far as it is known.     *)
OpenedByParsing == client.early

(***************************************************************************)
(* Open is at the first cluster: the client's thread handles it in place   *)
(* of the demux thread, which does not exist before OpenReturn.            *)
(* mb_skip_to_timecode is not initialised: it starts with either value.    *)
(***************************************************************************)
Init ==
  /\ running = TRUE /\ state = "PLAY" /\ needSeek = FALSE /\ closeReq = FALSE
  /\ skip \in BOOLEAN /\ seekTime = 0
  /\ client \in Profiles
  /\ gen = 0
  /\ pos = 2 /\ eof = FALSE /\ released = FALSE
  /\ open = OpenedByParsing /\ half = {} /\ opened = {} /\ orphan = NoOrphan
  /\ ring = [t \in Tracks |-> <<>>] /\ frames = [t \in Tracks |-> <<>>]
  /\ spaceNeeded = [t \in Tracks |-> 0] /\ preBuffering = NoTrack
  /\ dpc = "block" /\ todo = Cluster(1) /\ lost = FALSE
  /\ cpc = "opening" /\ op = "none" /\ ctrack = NoTrack
  /\ room = 0 /\ target = 0 /\ rest = {}
  /\ reported = <<>> /\ delivered = [t \in Tracks |-> <<>>] /\ sample = NoSample

(* A thread has followed an invalid pointer: that is the end of both.      *)
Crash ==
  /\ dpc' = "crashed" /\ cpc' = "crashed"
  /\ UNCHANGED <<flags, skips, file, tracks, bufs, todo, lost,
                 op, ctrack, room, target, rest, history, client>>

-----------------------------------------------------------------------------
(* The demux thread.                                                       *)

(* The loop of MKVDemuxThreadFunc reads running and state with no lock.    *)
DCheck ==
  /\ dpc = "check"
  /\ dpc' = IF running THEN "switch" ELSE "exited"
  /\ UNCHANGED <<flags, skips, file, tracks, bufs, todo, lost, call, history, client>>

DSwitch ==
  /\ dpc = "switch"
  /\ dpc' = IF state = "PLAY" THEN "lock" ELSE "check"
  /\ UNCHANGED <<flags, skips, file, tracks, bufs, todo, lost, call, history, client>>

(* Demux takes m_lock and reads one cluster whole, if there is another.    *)
DLock ==
  /\ dpc = "lock"
  /\ ~released
  /\ IF pos <= Len(File)
     THEN /\ todo' = Cluster(pos)
          /\ pos' = pos + 1 /\ eof' = eof
          /\ dpc' = "block"
     ELSE /\ dpc' = "unlock" /\ eof' = TRUE
          /\ UNCHANGED <<todo, pos>>
  /\ UNCHANGED <<flags, skips, released, tracks, bufs, lost, call, history, client>>

(* Close has let m_lock go, and the stream that Demux reads is deleted.    *)
DLockReleased == dpc = "lock" /\ released /\ Crash

GivenUp == needSeek \/ closeReq
(* Frame times are nanoseconds, m_seek_time is in ticks.                   *)
Skipped(f) == skip /\ (f.tick * NsPerTick < seekTime \/ ~f.entry)

(* The cluster is through, or given up for a seek or a close.              *)
DLeave ==
  /\ dpc = "block" /\ cpc # "opening" /\ (todo = <<>> \/ GivenUp)
  /\ dpc' = "unlock" /\ todo' = <<>>
  /\ UNCHANGED <<flags, skips, file, tracks, bufs, lost, call, history, client>>

(* A frame of a track nobody opened, or before the first one to play.      *)
DDrop ==
  /\ dpc = "block" /\ todo # <<>> /\ ~GivenUp
  /\ Cur.track \notin open \cup half \/ Skipped(Cur)
  /\ todo' = Tail(todo)
  /\ UNCHANGED <<flags, skips, file, tracks, bufs, dpc, lost, call, history, client>>

DTake ==
  /\ dpc = "block" /\ todo # <<>> /\ ~GivenUp
  /\ Cur.track \in open \cup half /\ ~Skipped(Cur)
  /\ dpc' = IF skip THEN "unskip" ELSE "write"
  /\ UNCHANGED <<flags, skips, file, tracks, bufs, todo, lost, call, history, client>>

(* mutant: the first frame to play does not end the skipping              *)
DUnskipNever ==
  /\ dpc = "unskip"
  /\ dpc' = "unskipTime"
  /\ UNCHANGED <<flags, skips, file, tracks, bufs, todo, lost, call, history, client>>

(* Two stores, between which a seek that has let m_lock go may arm anew.   *)
DUnskip ==
  /\ dpc = "unskip"
  /\ skip' = FALSE
  /\ dpc' = "unskipTime"
  /\ UNCHANGED <<flags, seekTime, file, tracks, bufs, todo, lost, call, history, client>>

DUnskipTime ==
  /\ dpc = "unskipTime"
  /\ seekTime' = 0
  /\ dpc' = "write"
  /\ UNCHANGED <<flags, skip, file, tracks, bufs, todo, lost, call, history, client>>

(* handle_frame, with an extractor whose ring create_file has yet to make. *)
DWriteHalf == dpc = "write" /\ Cur.track \in half /\ ~orphan.on /\ Crash

Writing == dpc = "write" /\ (Cur.track \in open \/ orphan.on)
PreBufferDone == preBuffering = Cur.track /\ BytesHeld = RingCap

DWriteStore ==
  /\ Writing /\ Fits
  /\ ring' = IF orphan.on THEN ring
             ELSE [ring EXCEPT ![Cur.track] = @ \o Bytes(Cur, Cur.size)]
  /\ dpc' = "push"
  /\ UNCHANGED <<flags, skips, file, tracks, frames, spaceNeeded, preBuffering,
                 todo, lost, call, history, client>>

(* No room: wait, but let a pre-buffering client go first.                 *)
DWriteFull ==
  /\ Writing /\ ~Fits
  /\ dpc' = CASE PreBufferDone                -> "announce1"
              [] ~PreBufferDone /\ preBuffering = Cur.track -> "announce2"
              [] OTHER                        -> "ringWait"
  /\ UNCHANGED <<flags, skips, file, tracks, bufs, todo, lost, call, history, client>>

(* The broadcast to m_pre_buffer_cond, with the ring unlocked.             *)
DAnnounce ==
  /\ dpc \in {"announce1", "announce2"}
  /\ dpc' = IF dpc = "announce1" THEN "relock1" ELSE "relock2"
  /\ cpc' = IF cpc = "preWait" /\ ctrack = Cur.track THEN "preWoken" ELSE cpc
  /\ UNCHANGED <<flags, skips, file, tracks, bufs, todo, lost,
                 op, ctrack, room, target, rest, history, client>>

(* The ring was full when write looked last: it waits without a new look.  *)
DRelock ==
  /\ dpc \in {"relock1", "relock2"}
  /\ IF dpc = "relock1" /\ preBuffering = Cur.track
     THEN dpc' = "announce2" /\ lost' = lost
     ELSE dpc' = "ringWait" /\ lost' = Fits
  /\ UNCHANGED <<flags, skips, file, tracks, bufs, todo, call, history, client>>

Pushing == dpc \in {"push", "cacheWoken"}
(* mutant: the cache takes one record more than it has room for            *)
CacheFullLate == RecordsHeld > CacheCap
CacheFull == RecordsHeld >= CacheCap
(* A woken push_back undoes its own increment of m_space_needed; that of a *)
(* replaced extractor nobody looks at any more.                            *)
SpaceUndone(t) ==
  IF dpc = "cacheWoken" /\ ~orphan.on THEN spaceNeeded[t] - 1 ELSE spaceNeeded[t]

DPushStore ==
  /\ Pushing /\ ~CacheFull
  /\ frames' = IF orphan.on THEN frames
               ELSE [frames EXCEPT ![Cur.track] =
                       Append(@, [id |-> Cur.id, gen |-> Cur.gen, left |-> Cur.size,
                                  pts |-> Cur.tick * NsPerTick])]
  /\ spaceNeeded' = [spaceNeeded EXCEPT ![Cur.track] = SpaceUndone(Cur.track)]
  /\ orphan' = NoOrphan
  /\ dpc' = "block" /\ todo' = Tail(todo)
  /\ UNCHANGED <<flags, skips, file, open, half, opened, ring, preBuffering, lost,
                 call, history, client>>

DPushWait ==
  /\ Pushing /\ CacheFull
  /\ spaceNeeded' = [spaceNeeded EXCEPT ![Cur.track] =
                       IF orphan.on THEN @ ELSE SpaceUndone(Cur.track) + 1]
  /\ dpc' = "cacheWait"
  /\ UNCHANGED <<flags, skips, file, tracks, ring, frames, preBuffering, todo, lost,
                 call, history, client>>

DUnlock ==
  /\ dpc = "unlock"
  /\ dpc' = "check"
  /\ UNCHANGED <<flags, skips, file, tracks, bufs, todo, lost, call, history, client>>

-----------------------------------------------------------------------------
(* The client.                                                             *)

(* The first cluster is through: PreparePlayback goes back to its start,   *)
(* and RMOpenFileMKV starts the demux thread.                              *)
OpenReturn ==
  /\ cpc = "opening" /\ dpc = "block" /\ todo = <<>>
  /\ pos' = 1 /\ dpc' = "check" /\ cpc' = "idle"
  /\ UNCHANGED <<flags, skips, eof, released, tracks, bufs, todo, lost,
                 op, ctrack, room, target, rest, history, client>>

(* It opens its tracks first, as every program here does.                  *)
Ready == cpc = "idle" /\ opened = client.tracks

(***************************************************************************)
(* open_extractor publishes a new extractor, then create_file makes its    *)
(* ring.  The one that the track had before is forgotten, with what it     *)
(* holds, but the demux thread may have looked it up already.              *)
(***************************************************************************)
InHand(t) == dpc \in Holding \ {"block", "unlock"} /\ Cur.track = t
CallOpen(t) ==
  /\ cpc = "idle" /\ t \in client.tracks \ opened
  /\ half' = {t} /\ open' = open \ {t} /\ cpc' = "create"
  /\ orphan' = IF InHand(t)
               THEN [on |-> TRUE, bytes |-> Len(ring[t]), records |-> Len(frames[t])]
               ELSE orphan
  /\ ring' = [ring EXCEPT ![t] = <<>>] /\ frames' = [frames EXCEPT ![t] = <<>>]
  /\ spaceNeeded' = [spaceNeeded EXCEPT ![t] = 0]
  /\ UNCHANGED <<flags, skips, file, opened, preBuffering, demux,
                 op, ctrack, room, target, rest, history, client>>

CreateFile ==
  /\ cpc = "create"
  /\ open' = open \cup half /\ opened' = opened \cup half /\ half' = {}
  /\ cpc' = "idle"
  /\ UNCHANGED <<flags, skips, file, orphan, bufs, demux,
                 op, ctrack, room, target, rest, history, client>>

(* RMGetNextMKVSample: track_get_next_frame fills the caller's buffer.     *)
CallGet(t, n) ==
  /\ Ready /\ "get" \in client.ops /\ t \in opened
  /\ cpc' = "get" /\ op' = "get" /\ ctrack' = t /\ room' = n
  /\ UNCHANGED <<flags, skips, file, tracks, bufs, demux, target, rest, history, client>>

NextSize == IF frames[ctrack] = <<>> THEN 0 ELSE Head(frames[ctrack]).left

(* mutant: a record keeps its size when only a part of it is read          *)
Unshrunk(record, n) == [record EXCEPT !.pts = Taken]
(* mutant: a record keeps its time and its flag of a frame's start         *)
StillFresh(record, n) == [record EXCEPT !.left = @ - n]
Shrunk(record, n) == [record EXCEPT !.left = @ - n, !.pts = Taken]

(* The flags and the time that track_get_next_frame keeps are those of its *)
(* first round, with FRAME_FLAG_FRAME_END if that used up the record.      *)
FirstRound(n) ==
  IF sample # NoSample THEN sample
  ELSE [kind |-> "found", from |-> Len(delivered[ctrack]) + 1,
        time |-> Head(frames[ctrack]).pts, end |-> n = NextSize]

(* get_next_frame with records in the cache: read bytes of the oldest one. *)
GetRead ==
  LET n == IF room < NextSize THEN room ELSE NextSize
  IN  /\ cpc = "get" /\ frames[ctrack] # <<>>
      /\ n <= Len(ring[ctrack])
      /\ delivered' = [delivered EXCEPT ![ctrack] = @ \o SubSeq(ring[ctrack], 1, n)]
      /\ ring' = [ring EXCEPT ![ctrack] = SubSeq(@, n + 1, Len(@))]
      /\ frames' = [frames EXCEPT ![ctrack][1] = Shrunk(@, n)]
      /\ room' = room - n
      /\ sample' = FirstRound(n)
      /\ cpc' = IF n = NextSize THEN "pop" ELSE "next"
      /\ FreeAvailable(ctrack)
      /\ UNCHANGED <<flags, skips, file, tracks, spaceNeeded, preBuffering, todo,
                     op, ctrack, target, rest, reported, gen, client>>

(* get_next_frame with none: it returns 0.                                 *)
GetNothing ==
  /\ cpc = "get" /\ frames[ctrack] = <<>>
  /\ sample' = IF sample = NoSample THEN Junk ELSE sample
  /\ cpc' = "next"
  /\ UNCHANGED <<flags, skips, file, tracks, bufs, demux,
                 op, ctrack, room, target, rest, reported, delivered, gen, client>>

GetPop ==
  /\ cpc = "pop"
  /\ frames' = [frames EXCEPT ![ctrack] = Tail(@)]
  /\ cpc' = "next"
  /\ Wake(spaceNeeded[ctrack] # 0, "cacheWait", ctrack, "cacheWoken")
  /\ UNCHANGED <<flags, skips, file, tracks, ring, spaceNeeded, preBuffering, todo,
                 op, ctrack, room, target, rest, history, client>>

(* Go on while there is room and the next record, if any, fits whole.      *)
GetMore ==
  /\ cpc = "next" /\ room > 0 /\ room >= NextSize
  /\ cpc' = "get"
  /\ UNCHANGED <<flags, skips, file, tracks, bufs, demux,
                 op, ctrack, room, target, rest, history, client>>

GetReturn ==
  /\ cpc = "next" /\ (room = 0 \/ room < NextSize)
  /\ cpc' = "idle" /\ op' = "none" /\ ctrack' = NoTrack /\ room' = 0
  /\ sample' = NoSample
  /\ UNCHANGED <<flags, skips, file, tracks, bufs, demux, target, rest,
                 reported, delivered, gen, client>>

(***************************************************************************)
(* RMSeekMKV and RMSeekMKVmillisec ("seek"), RMSeekMKVTrack, which does    *)
(* not pre-buffer ("seekTrack"), and RMCloseMKV.  Each raises its flags,   *)
(* one unsynchronised store at a time, and resets the tracks without       *)
(* m_lock, to stop the demux thread, before it takes m_lock.               *)
(***************************************************************************)
(* mutant: the demux thread is not paused                                  *)
CallSeekPlaying(kind, time) ==
  /\ Ready /\ "seek" \in client.ops /\ gen < MaxSeeks
  /\ state' = state
  /\ cpc' = "needSeek" /\ op' = kind /\ target' = time
  /\ UNCHANGED <<running, needSeek, closeReq, skips, file, tracks, bufs, demux,
                 ctrack, room, rest, history, client>>

CallSeek(kind, time) ==
  /\ Ready /\ "seek" \in client.ops /\ gen < MaxSeeks
  /\ state' = "PAUSE"
  /\ cpc' = "needSeek" /\ op' = kind /\ target' = time
  /\ UNCHANGED <<running, needSeek, closeReq, skips, file, tracks, bufs, demux,
                 ctrack, room, rest, history, client>>

StartReset == IF open = {} THEN "locked" ELSE "flush"
\* The one whose turn it is: reset_demuxer goes through m_tracks in order.
NextReset == TrackOrder[Min({i \in DOMAIN TrackOrder : TrackOrder[i] \in rest})]

SeekFlag ==
  /\ cpc = "needSeek"
  /\ needSeek' = TRUE
  /\ cpc' = StartReset /\ rest' = open
  /\ UNCHANGED <<running, state, closeReq, skips, file, tracks, bufs, demux,
                 op, ctrack, room, target, history, client>>

CallClose ==
  /\ Ready /\ "close" \in client.ops
  /\ running' = FALSE
  /\ cpc' = "finish" /\ op' = "close"
  /\ UNCHANGED <<state, needSeek, closeReq, skips, file, tracks, bufs, demux,
                 ctrack, room, target, rest, history, client>>

CloseState ==
  /\ cpc = "finish"
  /\ state' = "FINISH" /\ cpc' = "closeReq"
  /\ UNCHANGED <<running, needSeek, closeReq, skips, file, tracks, bufs, demux,
                 op, ctrack, room, target, rest, history, client>>

CloseFlag ==
  /\ cpc = "closeReq"
  /\ closeReq' = TRUE
  /\ cpc' = StartReset /\ rest' = open
  /\ UNCHANGED <<running, state, needSeek, skips, file, tracks, bufs, demux,
                 op, ctrack, room, target, history, client>>

(* xtr_base_c::reset of one track: flush the ring and wake its writer,     *)
FlushTrack ==
  /\ cpc = "flush"
  /\ ring' = [ring EXCEPT ![NextReset] = <<>>]
  /\ FreeAvailable(NextReset)
  /\ cpc' = "clear"
  /\ UNCHANGED <<flags, skips, file, tracks, frames, spaceNeeded, preBuffering, todo,
                 op, ctrack, room, target, rest, history, client>>

(* then clear the cache, which forgets its waiter and wakes nobody.        *)
ClearTrack ==
  /\ cpc = "clear"
  /\ frames' = [frames EXCEPT ![NextReset] = <<>>]
  /\ spaceNeeded' = [spaceNeeded EXCEPT ![NextReset] = 0]
  /\ lost' = (lost \/ At("cacheWait", NextReset))
  /\ rest' = rest \ {NextReset}
  /\ cpc' = IF rest = {NextReset} THEN "locked" ELSE "flush"
  /\ UNCHANGED <<flags, skips, file, tracks, ring, preBuffering, dpc, todo,
                 op, ctrack, room, target, history, client>>

LockFree == dpc \notin Holding
(* mutant: the tracks are not reset again under m_lock                     *)
NoneReset == UNCHANGED <<ring, frames, spaceNeeded>>
AllReset ==
  /\ ring' = [t \in Tracks |-> <<>>] /\ frames' = [t \in Tracks |-> <<>>]
  /\ spaceNeeded' = [t \in Tracks |-> 0]

(* The last cue at or before the target, or the first one.                 *)
CueIndex ==
  LET late == {i \in 1..Len(client.cues) : client.cues[i].time > target}
      stop == IF late = {} THEN Len(client.cues) ELSE Min(late) - 1
  IN  IF stop > 0 THEN stop ELSE 1

(* Seek under m_lock, with an index.  It returns the time of the cue after *)
(* the one it goes to, whether or not the index has one.                   *)
SeekLocked ==
  /\ cpc = "locked" /\ op # "close" /\ LockFree
  /\ client.cues # <<>>
  /\ AllReset
  /\ pos' = client.cues[CueIndex].cluster /\ eof' = FALSE
  /\ seekTime' = client.cues[CueIndex].time
  /\ needSeek' = FALSE
  /\ \E t \in IF CueIndex < Len(client.cues) THEN {client.cues[CueIndex + 1].time}
              ELSE JunkTimes : reported' = <<t>>
  /\ gen' = gen + 1 /\ delivered' = [t \in Tracks |-> <<>>] /\ UNCHANGED sample
  /\ cpc' = "seekTime"
  /\ UNCHANGED <<running, state, closeReq, skip, released, tracks, preBuffering,
                 demux, op, ctrack, room, target, rest, client>>

(* Without one m_num_indexes is not initialised.  At most zero: the seek   *)
(* goes nowhere and leaves mb_need_to_seek raised for good.                *)
SeekLockedNoCues ==
  /\ cpc = "locked" /\ op # "close" /\ LockFree
  /\ client.cues = <<>>
  /\ AllReset
  /\ reported' = <<target>>
  /\ gen' = gen + 1 /\ delivered' = [t \in Tracks |-> <<>>] /\ UNCHANGED sample
  /\ cpc' = "play"
  /\ UNCHANGED <<flags, skips, file, tracks, preBuffering,
                 demux, op, ctrack, room, target, rest, client>>

(* More than zero: it follows a pointer nobody set.                        *)
SeekLockedJunkCues ==
  cpc = "locked" /\ op # "close" /\ LockFree /\ client.cues = <<>> /\ Crash

(* m_lock is free again when Seek arms the skipping.                       *)
SeekTime ==
  /\ cpc = "seekTime"
  /\ seekTime' = target /\ cpc' = "seekSkip"
  /\ UNCHANGED <<flags, skip, file, tracks, bufs, demux,
                 op, ctrack, room, target, rest, history, client>>

SeekSkip ==
  /\ cpc = "seekSkip"
  /\ skip' = TRUE /\ cpc' = "play"
  /\ UNCHANGED <<flags, seekTime, file, tracks, bufs, demux,
                 op, ctrack, room, target, rest, history, client>>

(* The track whose ring matroska_demux_c::pre_buffer fills.                *)
PreTrack ==
  IF open \cap VideoTracks # {} THEN CHOOSE t \in open \cap VideoTracks : TRUE
  ELSE IF open # {} THEN CHOOSE t \in open : TRUE ELSE NoTrack

Idle == cpc' = "idle" /\ op' = "none" /\ ctrack' = NoTrack /\ target' = 0

SeekPlay ==
  /\ cpc = "play"
  /\ state' = "PLAY"
  /\ IF op = "seek" /\ PreTrack # NoTrack
     THEN cpc' = "pre" /\ ctrack' = PreTrack /\ UNCHANGED <<op, target>>
     ELSE Idle
  /\ UNCHANGED <<running, needSeek, closeReq, skips, file, tracks, bufs, demux,
                 room, rest, history, client>>

(* A ring never holds m_size bytes, so pre_buffer always waits.            *)
PreBuffer ==
  /\ cpc = "pre"
  /\ preBuffering' = ctrack /\ cpc' = "preWait"
  /\ UNCHANGED <<flags, skips, file, tracks, ring, frames, spaceNeeded, demux,
                 op, ctrack, room, target, rest, history, client>>

(* The ten seconds are over.                                               *)
PreTimeout ==
  /\ cpc = "preWait"
  /\ cpc' = "preWoken"
  /\ UNCHANGED <<flags, skips, file, tracks, bufs, demux,
                 op, ctrack, room, target, rest, history, client>>

PreReturn ==
  /\ cpc = "preWoken"
  /\ preBuffering' = NoTrack
  /\ Idle
  /\ UNCHANGED <<flags, skips, file, tracks, ring, frames, spaceNeeded, demux,
                 room, rest, history, client>>

(* Close under m_lock: everything is deleted.                              *)
CloseLocked ==
  /\ cpc = "locked" /\ op = "close" /\ LockFree
  /\ released' = TRUE
  /\ AllReset /\ open' = {}
  /\ cpc' = "join"
  /\ UNCHANGED <<flags, skips, pos, eof, half, opened, orphan, preBuffering, demux,
                 op, ctrack, room, target, rest, history, client>>

CloseJoin ==
  /\ cpc = "join" /\ dpc = "exited"
  /\ cpc' = "closed"
  /\ UNCHANGED <<flags, skips, file, tracks, bufs, demux,
                 op, ctrack, room, target, rest, history, client>>

(* POSIX lets pthread_cond_wait return without a broadcast.                *)
SpuriousWakeup ==
  /\ \/ dpc = "ringWait" /\ dpc' = "write"
     \/ dpc = "cacheWait" /\ dpc' = "cacheWoken"
  /\ lost' = FALSE
  /\ UNCHANGED <<flags, skips, file, tracks, bufs, todo, call, history, client>>

-----------------------------------------------------------------------------
DemuxStep ==
  \/ DCheck \/ DSwitch \/ DLock \/ DLockReleased \/ DLeave \/ DDrop \/ DTake
  \/ DUnskip \/ DUnskipTime
  \/ DWriteHalf \/ DWriteStore \/ DWriteFull \/ DAnnounce \/ DRelock
  \/ DPushStore \/ DPushWait \/ DUnlock

ClientStep ==
  \/ OpenReturn \/ CreateFile \/ GetRead \/ GetNothing \/ GetPop \/ GetMore \/ GetReturn
  \/ SeekFlag \/ CloseState \/ CloseFlag \/ FlushTrack \/ ClearTrack
  \/ SeekLocked \/ SeekLockedNoCues \/ SeekLockedJunkCues
  \/ SeekTime \/ SeekSkip \/ SeekPlay
  \/ PreBuffer \/ PreTimeout \/ PreReturn \/ CloseLocked \/ CloseJoin

(* With RMSeekMKV's way of pre-buffering, or RMSeekMKVTrack's of not.       *)
SeekKinds == {"seek", "seekTrack"}

ClientCall ==
  \/ \E t \in Tracks : CallOpen(t) \/ (\E n \in Rooms : CallGet(t, n))
  \/ \E kind \in SeekKinds : \E time \in Targets : CallSeek(kind, time)
  \/ CallClose

Next == DemuxStep \/ ClientStep \/ ClientCall \/ SpuriousWakeup

(***************************************************************************)
(* Both threads are scheduled while they can go on, and the timer runs     *)
(* out.  m_lock is not assumed fair, nobody has to start a call, and no    *)
(* wakeup has to be spurious.                                              *)
(***************************************************************************)
Fairness == WF_vars(DemuxStep) /\ WF_vars(ClientStep)

Spec == Init /\ [][Next]_vars /\ Fairness
-----------------------------------------------------------------------------
DemuxPlaces  == Holding \cup {"check", "switch", "lock", "exited", "crashed"}
GetPlaces    == {"get", "pop", "next"}
ResetPlaces  == {"needSeek", "finish", "closeReq", "flush", "clear", "locked"}
ClientPlaces == GetPlaces \cup ResetPlaces
                \cup {"opening", "idle", "create", "seekTime", "seekSkip", "play", "pre", "preWait",
                      "preWoken", "join", "closed", "crashed"}
Ids   == {f.id : f \in AllFrames}
Byte  == [id : Ids, gen : 0..MaxSeeks]
Record == [id : Ids, gen : 0..MaxSeeks, left : 0..RingCap, pts : Nat \cup {Taken}]
Tagged == {Tag(f, g) : f \in AllFrames, g \in 0..MaxSeeks}

(***************************************************************************)
(* Type correctness, with the capacities of ring and frame cache.          *)
(***************************************************************************)
TypeOK ==
  /\ running \in BOOLEAN /\ needSeek \in BOOLEAN /\ closeReq \in BOOLEAN
  /\ skip \in BOOLEAN /\ eof \in BOOLEAN /\ released \in BOOLEAN /\ lost \in BOOLEAN
  /\ state \in {"PLAY", "PAUSE", "FINISH"}
  /\ seekTime \in Nat /\ target \in Targets \cup {0} /\ gen \in 0..MaxSeeks
  /\ pos \in 1..(Len(File) + 1)
  /\ open \subseteq Tracks /\ half \subseteq Tracks /\ opened \subseteq Tracks
  /\ orphan \in [on : BOOLEAN, bytes : 0..RingCap, records : 0..CacheCap]
  /\ ring \in [Tracks -> Seq(Byte)] /\ \A t \in Tracks : Len(ring[t]) <= RingCap
  /\ frames \in [Tracks -> Seq(Record)] /\ \A t \in Tracks : Len(frames[t]) <= CacheCap
  /\ spaceNeeded \in [Tracks -> -1..1]  \* clear() forgets a waiter
  /\ delivered \in [Tracks -> Seq(Byte)]
  /\ preBuffering \in Tracks \cup {NoTrack}
  /\ dpc \in DemuxPlaces /\ todo \in Seq(Tagged)
  /\ cpc \in ClientPlaces /\ op \in SeekKinds \cup {"none", "get", "close"}
  /\ ctrack \in Tracks \cup {NoTrack} /\ room \in Nat
  /\ rest \subseteq Tracks /\ client \in Profiles
  /\ sample \in [kind : {"none", "junk", "found"}, from : Nat,
                 time : Nat \cup {Taken}, end : BOOLEAN]

(* The bytes that the records of a track describe, and those of the frame  *)
(* that is in the ring already but not yet in the cache.                   *)
Described(t) ==
  FlattenSeq([i \in 1..Len(frames[t]) |-> Bytes(frames[t][i], frames[t][i].left)])
InFlight(t) ==
  IF dpc \in {"push", "cacheWait", "cacheWoken"} /\ Cur.track = t /\ ~orphan.on
  THEN Bytes(Cur, Cur.size) ELSE <<>>
Resetting == cpc \in ResetPlaces
Settled == cpc \notin ResetPlaces \cup {"crashed"}

(***************************************************************************)
(* The two buffers of a track agree, byte by byte, although they have      *)
(* locks of their own: a record tells how much of which frame comes next   *)
(* in the ring.  A seek tears them apart (it flushes the ring, the demux   *)
(* thread writes, then it clears the cache) and has mended them when it    *)
(* lets the client go on.                                                  *)
(***************************************************************************)
Agreement ==
  Settled => \A t \in open : ring[t] = Described(t) \o InFlight(t)

(***************************************************************************)
(* Nothing that was read from the file before a seek moved the file        *)
(* pointer is in a buffer, or on its way to one, or handed out after it.   *)
(***************************************************************************)
NothingStale ==
  Settled =>
    /\ \A t \in open : \A b \in Range(ring[t]) \cup Range(frames[t]) \cup Range(delivered[t]) :
         b.gen = gen
    /\ dpc \in Holding => \A f \in Range(todo) : f.gen = gen

(***************************************************************************)
(* What a track hands out is whole frames of that track, in file order;    *)
(* and until the first seek no frame between two of them is missing.       *)
(***************************************************************************)
FramesOf(t) == {f \in AllFrames : f.track = t}
InOrder ==
  \A t \in opened \cap open :
    LET out == delivered[t] \o ring[t]
        ids == {b.id : b \in Range(out)}
    IN  Settled =>
          /\ \A i \in 1..(Len(out) - 1) : out[i].id <= out[i + 1].id
          /\ \A id \in ids : \E f \in FramesOf(t) :
               f.id = id /\ f.size = Cardinality({i \in 1..Len(out) : out[i].id = id})
          /\ gen = 0 => \A f \in FramesOf(t) :
               (\E a, b \in ids : a < f.id /\ f.id < b) => f.id \in ids

(***************************************************************************)
(* The flags and the time of a sample, which come from the cache, are true *)
(* of its bytes, which come from the ring: MKV_AU_START and a time with it *)
(* if its first byte is the first of a frame, that frame's time, and       *)
(* MKV_AU_END only with the frame's last byte.  Except when the first      *)
(* round found no record, and the program copied an uninitialised one.     *)
(***************************************************************************)
SampleMatches ==
  sample.kind = "found" =>
    LET out   == delivered[ctrack]
        first == out[sample.from].id
        begins == sample.from = 1 \/ out[sample.from - 1].id # first
        frame == CHOOSE f \in AllFrames : f.id = first
    IN  /\ sample.time = (IF begins THEN frame.tick * NsPerTick ELSE Taken)
        /\ sample.end => Cardinality({i \in 1..Len(out) : out[i].id = first}) = frame.size

(***************************************************************************)
(* A seek or a close gets m_lock and returns, although nothing says that   *)
(* m_lock is fair: pausing the demux thread is enough.  Except when the    *)
(* demux thread sleeps through its wakeup, the hazards clear() and the     *)
(* pre-buffering window bring, when it waits in an extractor that opening  *)
(* its track has replaced, or when memory has been misused.                *)
(***************************************************************************)
Stranded == orphan.on /\ dpc \in {"ringWait", "cacheWait"}
ResetReturns ==
  Resetting ~> (cpc \in {"idle", "closed", "crashed"} \/ lost \/ Stranded)

(***************************************************************************)
(* A sample request returns, unless the file is at its end, or the demux   *)
(* thread sleeps through its wakeup or waits for room on another track, or *)
(* in a replaced extractor.                                                *)
(***************************************************************************)
WaitsElsewhere == dpc \in {"ringWait", "cacheWait"} /\ Cur.track # ctrack
GetReturns ==
  (cpc \in GetPlaces)
    ~> (cpc \notin GetPlaces \/ eof \/ WaitsElsewhere \/ lost \/ Stranded)

-----------------------------------------------------------------------------
(* What the program's comments say and the code does not do.               *)

(***************************************************************************)
(* "Notify demux loop to break": a seek that resets the tracks so gets     *)
(* m_lock, whatever the demux thread was waiting for (Seek).               *)
(***************************************************************************)
SeekReturns == Resetting ~> ~Resetting

(***************************************************************************)
(* The same, leaving aside the wakeups that clear() and the pre-buffering  *)
(* window lose: resetting the tracks reaches the demux thread.             *)
(***************************************************************************)
ResetReachesDemuxer == Resetting ~> (~Resetting \/ lost)

(***************************************************************************)
(* "FALSE if the sample is not valid. (normally end of track)": asking for *)
(* a sample at the end of the track is answered (RMGetNextMKVSample).      *)
(***************************************************************************)
GetAnswered == (cpc \in GetPlaces) ~> (cpc \notin GetPlaces)

(***************************************************************************)
(* "We are ready to close!": when Close deletes the stream, the demux      *)
(* thread is past its last use of it (matroska_demux_c::Close).            *)
(***************************************************************************)
CloseQuiesces == released => dpc # "lock"

(***************************************************************************)
(* "return time in second we really seek": playback does not resume before *)
(* the time that the seek reported (RMSeekMKV).                            *)
(***************************************************************************)
SeekReported ==
  \A t \in opened :
    (reported # <<>> /\ delivered[t] # <<>>) =>
      \A f \in AllFrames : f.id = delivered[t][1].id => f.tick >= reported[1]
=============================================================================
