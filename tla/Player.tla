------------------------------- MODULE Player -------------------------------
(***************************************************************************)
(* play_mkv.cpp playing a file with one video and one audio track: the     *)
(* loop of main (), the functions it calls, the DMA buffers and the state  *)
(* of the disk.  The thread of the player is the program counter pc; its   *)
(* steps are cut where it waits, or where it looks at the keyboard.  The   *)
(* decoders consume data on their own.                                     *)
(*                                                                         *)
(* Abstracted: a sample is counted, not carried; how much of a buffer is   *)
(* used is a free choice between "full" and "not full" after each sample;  *)
(* check_interleave may choose any track that is not at its end; where the *)
(* tracks are in the file is left out, so that any read may find the end;  *)
(* what was sent may suffice for prebuffering at any time.  RUASendData    *)
(* takes a packet or answers RM_PENDING, which the decoder ends; only when *)
(* it is given NULL may it answer an error.                                *)
(*                                                                         *)
(* External: process_command (the keyboard and the playback state          *)
(* machine), the RUA pool and the DCC decoders, the disk callback, the     *)
(* demuxer, whose reads need not return.  "Fast" stands for the states in  *)
(* which only video is sent (NextPic, Slow, Fast), "IFrame" for those of   *)
(* the I-frame mode.                                                       *)
(***************************************************************************)
EXTENDS DmaPool

CONSTANTS LowLevel,      \* disk_ctrl_low_level
          MaxFailures    \* bound: how often waking the disk may fail

\* setup halves disk_ctrl_low_level when it is not below the number of buffers.
ASSUME PlayerAssumption ==
  /\ LowLevel \in Nat /\ LowLevel < Count
  /\ MaxFailures \in Nat

VARIABLES psm,       \* RM_PSM_GetState
          disk,      \* disk_ctrl_state
          bufs,      \* the DMA buffers
          running,   \* the decoders that consume
          sample,    \* the transfer pending: of a packet, or of NULL
          orphan,    \* the pending audio transfer lies in a buffer given back
          eos,       \* videoEOS, audioEOS
          dsi,       \* sendVideoDSI
          pc, after, \* where the player is; what follows send_videoDSI
          track,     \* trackToSend
          audioTracks, \* audio tracks of the file: 1, or more
          failures   \* how often DISK_CONTROL_ACTION_RUN failed

\* History, for the properties: a key stopped the video decoder, and the player,
\* which went on, has neither stopped it nor started again through Play since.
VARIABLE flushed

vars == <<psm, disk, bufs, running, sample, orphan, eos, dsi, pc,
          after, track, audioTracks, failures, flushed>>

States == {"Playing", "Paused", "Stopped", "Prebuffering", "Fast", "IFrame"}
Trick == {"Fast", "IFrame"}

\* Mutant: after a pause the player goes on behind the call of Play.
ResumeUnplayed == [keyPaused |-> "start", keyLoop |-> "wake", keyGet |-> "get",
                   keyPending |-> "send", keyTail |-> "eosCheck", keyLast |-> "wait",
                   wait |-> "wait"]

\* The calls of local_process_key: where the player goes on when it returns
\* no label, and whether it may release the buffers.
Resume == [keyPaused |-> "playAll", keyLoop |-> "wake", keyGet |-> "get",
           keyPending |-> "send", keyTail |-> "eosCheck", keyLast |-> "wait",
           wait |-> "wait"]
KeyPoints == DOMAIN Resume
Release == pc \in {"keyPending", "keyTail"}

\* send_videoDSI: waiting for a buffer, and sending it, for the first time or again.
Sending == {"dsiSend", "dsiRetry"}
DsiLabels == {"dsi"} \cup Sending

\* The callers of check_prebuf_state.
LateLabels == {"get", "keyGet", "send", "keyPending", "keyLast"}

Labels == KeyPoints \cup DsiLabels \cup
  {"begin", "mainloop", "noseek", "playAll", "start", "wake", "get", "send",
   "sent", "hung", "eosCheck", "ended", "cleanup", "closed"}

None == [t \in Tracks |-> "none"]
No == [t \in Tracks |-> FALSE]

TypeOK ==
  /\ psm \in States
  /\ disk \in {"DISABLE", "SLEEPING", "RUNNING"}
  /\ bufs \in Pools
  /\ running \subseteq Tracks
  /\ sample \in [Tracks -> {"none", "packet", "null"}]
  /\ orphan \in BOOLEAN
  /\ eos \in [Tracks -> BOOLEAN]
  /\ dsi \in BOOLEAN
  /\ pc \in Labels
  /\ after \in {"none", "paused", "playing", "start", "noseek", "stopped"}
              \cup LateLabels
  /\ track \in Tracks
  /\ audioTracks \in 1..2
  /\ failures \in 0..MaxFailures
  /\ flushed \in BOOLEAN

Init ==
  /\ psm = "Stopped" /\ disk \in {"DISABLE", "RUNNING"}
  /\ bufs = Full /\ running = {}
  /\ sample = None /\ orphan = FALSE
  /\ eos = No /\ dsi = FALSE
  /\ pc = "begin" /\ after = "none" /\ track = "V" /\ audioTracks \in 1..2
  /\ failures = 0 /\ flushed = FALSE

-----------------------------------------------------------------------------
(* Helpers: the disk, seeking, and the end of prebuffering.                *)

\* The disk is asked to stop spinning: the callback may refuse.
MaySleep == disk' \in (IF disk = "RUNNING" THEN {"RUNNING", "SLEEPING"} ELSE {disk})

\* Mutant: the disk is left asleep.
WakeLater == UNCHANGED <<disk, failures>>

\* The disk, if it sleeps, is asked to run.
Wake ==
  \/ /\ disk' = IF disk = "SLEEPING" THEN "RUNNING" ELSE disk
     /\ UNCHANGED failures
  \/ /\ disk = "SLEEPING" /\ failures < MaxFailures
     /\ failures' = failures + 1
     /\ UNCHANGED disk

\* mkv_seek up to send_videoDSI, from buffers b.  It clears the transfers only
\* behind send_videoDSI, which changes nothing of that.
MkvSeek(b, next) ==
  /\ bufs' = AllStopped(b)
  /\ psm' = "Playing" /\ running' = {"V"} /\ dsi' = TRUE /\ flushed' = FALSE
  /\ sample' = None /\ orphan' = FALSE /\ eos' = No
  /\ pc' = "dsi" /\ after' = next

\* The video decoder is stopped by a key after which the player goes on, with
\* buffers b and decoders r but for that.
StopsVideo(b, r) ==
  /\ bufs' = Stopped(b, "V") /\ running' = r \ {"V"}
  /\ dsi' = TRUE /\ flushed' = TRUE

MayStopVideo(b, r) ==
  \/ StopsVideo(b, r)
  \/ bufs' = b /\ running' = r /\ UNCHANGED <<dsi, flushed>>

\* Play at the end of prebuffering: the audio waits for send_videoDSI.
QuitPrebuf(next) ==
  /\ psm = "Prebuffering" /\ psm' = "Playing"
  /\ \/ dsi /\ running' = {"V"} /\ pc' = "dsi" /\ after' = next
     \/ ~dsi /\ running' = Tracks /\ pc' = next /\ UNCHANGED after

\* Mutant: only what was sent ends prebuffering.
CheckPrebufPatient(quit, next) ==
  \/ QuitPrebuf(next)
  \/ pc' = next /\ UNCHANGED <<psm, running, after>>

\* check_prebuf_state, and where its caller goes on: quit tells if buffersize is
\* zero, or a transfer is pending; what was sent may be enough at any time.
CheckPrebuf(quit, next) ==
  \/ QuitPrebuf(next)
  \/ (psm = "Prebuffering" => ~quit) /\ pc' = next /\ UNCHANGED <<psm, running, after>>

TransferPending == \E t \in Tracks : sample[t] # "none"
-----------------------------------------------------------------------------
(* main: the loops around the sending of data.                             *)

\* The top of the do-while loop, started in pause or not.  Nothing was stopped
\* before the first round, which sends no DSI here.
Begin ==
  /\ pc = "begin"
  /\ \/ /\ psm' = "Playing" /\ pc' = "mainloop"
        /\ UNCHANGED <<running, after>>
     \/ /\ dsi
        /\ psm' = "Paused" /\ running' = {"V"} /\ pc' = "dsi" /\ after' = "paused"
     \/ /\ ~dsi
        /\ psm' = "Paused" /\ running' = {} /\ pc' = "mainloop" /\ UNCHANGED after
  /\ UNCHANGED <<disk, bufs, sample, orphan, eos, dsi, track, audioTracks, failures,
                 flushed>>

\* mainloop: seek to zero.
Mainloop ==
  /\ pc = "mainloop"
  /\ pc' = "noseek"
  /\ UNCHANGED <<psm, disk, bufs, running, sample, orphan, eos, dsi, after, track,
                 audioTracks, failures, flushed>>

\* mainloop_noseek, up to its PROCESS_KEY.
Noseek ==
  /\ pc = "noseek"
  /\ dsi' = TRUE /\ flushed' = FALSE /\ eos' = No
  /\ sample' = None /\ orphan' = FALSE
  /\ bufs' = Flushed(bufs)
  /\ IF psm \in {"Paused", "Stopped"}
     THEN pc' = "keyPaused" /\ UNCHANGED psm
     ELSE pc' = "playAll" /\ psm' = "Playing"
  /\ UNCHANGED <<disk, running, after, track, audioTracks, failures>>

PlayAll ==
  /\ pc = "playAll"
  /\ running' = {"V"} /\ flushed' = FALSE
  /\ pc' = "dsi" /\ after' = "playing"
  /\ UNCHANGED <<psm, disk, bufs, sample, orphan, eos, dsi, track, audioTracks,
                 failures>>

\* send_videoDSI takes its buffer into videosample, in which a video packet may
\* be pending: what is pending then is NULL, as soon as the buffer is released.
TakeDSI ==
  /\ pc = "dsi" /\ bufs.pool > 0
  /\ bufs' = ConfigTaken(bufs)
  /\ sample' = [sample EXCEPT !["V"] = IF @ = "none" THEN "none" ELSE "null"]
  /\ pc' = "dsiSend"
  /\ UNCHANGED <<psm, disk, running, orphan, eos, dsi, after, track, audioTracks,
                 failures, flushed>>

\* No buffer is free: "retry later", without a look at the keyboard.
WaitDSI == pc = "dsi" /\ bufs.pool = 0 /\ UNCHANGED vars

\* The decoder has no room: RUASendData is called again.
RetryDSI ==
  /\ pc \in Sending /\ Busy(bufs, "V")
  /\ pc' = IF pc = "dsiSend" THEN "dsiRetry" ELSE "dsiSend"
  /\ UNCHANGED <<psm, disk, bufs, running, sample, orphan, eos, dsi, after, track,
                 audioTracks, failures, flushed>>

\* The DSI is sent and its buffer released; the function that called Play goes on.
\* A stop stops the decoders once more, and leaves the DSI to be sent again.
SendDSI ==
  /\ pc \in Sending
  /\ LET b == ConfigSent(bufs) IN
     \/ /\ after = "playing"
        /\ IF psm = "Playing"
           THEN psm' = "Prebuffering" /\ running' = {}
           ELSE running' = Tracks /\ UNCHANGED psm
        /\ pc' = "start" /\ bufs' = b /\ dsi' = FALSE
     \/ /\ after = "paused"
        /\ running' = {} /\ pc' = "mainloop" /\ bufs' = b /\ dsi' = FALSE
        /\ UNCHANGED psm
     \/ /\ after = "start"
        /\ pc' = "start" /\ bufs' = b /\ dsi' = FALSE
        /\ UNCHANGED <<psm, running>>
     \/ /\ after \in {"noseek"} \cup LateLabels
        /\ running' = Tracks /\ pc' = after /\ bufs' = b /\ dsi' = FALSE
        /\ UNCHANGED psm
     \/ /\ after = "stopped"
        /\ psm' = "Stopped" /\ running' = {} /\ pc' = "noseek"
        /\ bufs' = AllStopped(b) /\ dsi' = TRUE
  /\ after' = "none"
  /\ UNCHANGED <<disk, sample, orphan, eos, track, audioTracks, failures, flushed>>

\* start_sending_data.
Start ==
  /\ pc = "start"
  /\ Wake
  /\ pc' = "keyLoop"
  /\ UNCHANGED <<psm, bufs, running, sample, orphan, eos, dsi, after, track,
                 audioTracks, flushed>>

\* check_interleave: what it may choose.
Ready == {t \in (IF psm \in Trick THEN {"V"} ELSE Tracks) : ~eos[t]}

\* The disk is woken and check_interleave asked for a track.
Choose ==
  /\ pc = "wake"
  /\ Wake
  /\ \/ Ready = {} /\ pc' = "keyTail" /\ UNCHANGED track
     \/ \E t \in Ready :
          /\ track' = t
          /\ pc' = IF bufs.held[t] THEN "send" ELSE "get"
  /\ UNCHANGED <<psm, bufs, running, sample, orphan, eos, dsi, after, audioTracks,
                 flushed>>
-----------------------------------------------------------------------------
(* get_buffer.                                                              *)

\* While the disk runs, the buffers set aside are used first.
UseRecycled == disk = "RUNNING" /\ bufs.recycled > 0

GetRecycled ==
  /\ pc = "get" /\ UseRecycled
  /\ bufs' = Reused(bufs, track)
  /\ pc' = "send"
  /\ UNCHANGED <<psm, disk, running, sample, orphan, eos, dsi, after, track,
                 audioTracks, failures, flushed>>

GetFree ==
  /\ pc = "get" /\ ~UseRecycled /\ bufs.pool > 0 /\ disk # "SLEEPING"
  /\ bufs' = Taken(bufs, track)
  /\ CheckPrebuf(TransferPending, "send")
  /\ UNCHANGED <<disk, sample, orphan, eos, dsi, track, audioTracks, failures, flushed>>

\* Mutant: the disk is woken one buffer late.
WakeLevelLate(b) == b.recycled + LowLevel > Count

\* While the disk sleeps a buffer is set aside, and the disk woken when there are
\* enough of them.  Here and below check_prebuf_state comes before what is done to
\* the disk; a DSI it sends changes nothing of that.
WakeLevel(b) == b.recycled + LowLevel >= Count

Recycle ==
  /\ pc = "get" /\ bufs.pool > 0 /\ disk = "SLEEPING"
  /\ bufs' = SetAside(bufs)
  /\ CheckPrebuf(TransferPending, "get")
  /\ IF WakeLevel(SetAside(bufs)) THEN Wake ELSE UNCHANGED <<disk, failures>>
  /\ UNCHANGED <<sample, orphan, eos, dsi, track, audioTracks, flushed>>

\* RUAGetBuffer times out.
GetTimeout ==
  /\ pc = "get" /\ ~UseRecycled /\ bufs.pool = 0
  /\ CheckPrebuf(TRUE, "keyGet")
  /\ MaySleep
  /\ UNCHANGED <<bufs, sample, orphan, eos, dsi, track, audioTracks, failures, flushed>>
-----------------------------------------------------------------------------
(* send_MKV_video and send_MKV_audio, and what the loop does with their    *)
(* answer.                                                                 *)

\* Mutant: audio is silent in pause as well.
SilentInPause == track = "A" /\ psm \notin {"Playing", "Prebuffering"}

\* Audio is sent only while playing, prebuffering or paused.
Silent == track = "A" /\ psm \notin {"Playing", "Paused", "Prebuffering"}

\* The demuxer is asked for a sample, as no transfer is pending.
Reads == pc = "send" /\ ~Silent /\ sample[track] = "none"

SendSilent ==
  /\ pc = "send" /\ Silent
  /\ pc' = "sent"
  /\ UNCHANGED <<psm, disk, bufs, running, sample, orphan, eos, dsi, after,
                 track, audioTracks, failures, flushed>>

\* The demuxer has no more samples of the track.
SendEnd ==
  /\ Reads
  /\ eos' = [eos EXCEPT ![track] = TRUE]
  /\ pc' = "sent"
  /\ UNCHANGED <<psm, disk, bufs, running, sample, orphan, dsi, after, track,
                 audioTracks, failures, flushed>>

\* The read never returns.
SendHangs ==
  /\ Reads
  /\ pc' = "hung"
  /\ UNCHANGED <<psm, disk, bufs, running, sample, orphan, eos, dsi, after, track,
                 audioTracks, failures, flushed>>

\* A sample of size zero, or one before the first time stamp, is not sent.
SendEmpty ==
  /\ Reads
  /\ pc' = "sent"
  /\ UNCHANGED <<psm, disk, bufs, running, sample, orphan, eos, dsi, after, track,
                 audioTracks, failures, flushed>>

\* What is sent does not lie in the buffer the track holds: an audio packet whose
\* buffer was given back, or NULL.
Elsewhere == (orphan /\ track = "A") \/ sample[track] = "null"

SendAccepted ==
  /\ pc = "send" /\ ~Silent
  /\ bufs' = IF Elsewhere THEN bufs ELSE Fed(bufs, track)
  /\ sample' = [sample EXCEPT ![track] = "none"]
  /\ orphan' = (orphan /\ track # "A")
  /\ pc' = "sent"
  /\ UNCHANGED <<psm, disk, running, eos, dsi, after, track, audioTracks, failures,
                 flushed>>

\* NULL is refused with an error: it stays pending, and the loop goes on.
SendRefused ==
  /\ pc = "send" /\ sample[track] = "null"
  /\ pc' = "sent"
  /\ UNCHANGED <<psm, disk, bufs, running, sample, orphan, eos, dsi, after, track,
                 audioTracks, failures, flushed>>

\* RM_PENDING: the decoder has no room; the disk may sleep meanwhile.
SendPending ==
  /\ pc = "send" /\ ~Silent /\ Busy(bufs, track)
  /\ sample' = [sample EXCEPT ![track] = IF @ = "none" THEN "packet" ELSE @]
  /\ CheckPrebuf(TRUE, "keyPending")
  /\ MaySleep
  /\ UNCHANGED <<bufs, orphan, eos, dsi, track, audioTracks, failures, flushed>>

\* At the end of the track, or with a full buffer, the loop goes on to its end;
\* with room in the buffer it starts again.
Sent ==
  /\ pc = "sent"
  /\ track' = "V"
  /\ \/ /\ eos[track] /\ pc' = "keyTail"
        /\ UNCHANGED <<bufs, orphan>>
     \/ /\ ~eos[track] /\ pc' = "keyTail"
        /\ bufs' = Released(bufs, track)
        /\ orphan' = (orphan \/ (track = "A" /\ sample["A"] # "none"))
     \/ /\ ~eos[track] /\ pc' = "keyLoop"
        /\ UNCHANGED <<bufs, orphan>>
  /\ UNCHANGED <<psm, disk, running, sample, eos, dsi, after, audioTracks, failures,
                 flushed>>

\* Both tracks are at their end, or the video is and nothing plays.
AtEnd == eos["V"] /\ (eos["A"] \/ psm \notin {"Playing", "Prebuffering"})

EosCheck ==
  /\ pc = "eosCheck" /\ ~AtEnd
  /\ pc' = "keyLoop"
  /\ UNCHANGED <<psm, disk, bufs, running, sample, orphan, eos, dsi, after,
                 track, audioTracks, failures, flushed>>

\* The end, or the evaluation time is over.
Finish ==
  /\ pc = "eosCheck"
  /\ CheckPrebuf(TRUE, "keyLast")
  /\ MaySleep
  /\ UNCHANGED <<bufs, sample, orphan, eos, dsi, track, audioTracks, failures, flushed>>

\* WaitForEOS: the decoders that play have consumed everything.
WaitDone ==
  /\ pc = "wait"
  /\ ~Busy(bufs, "V") /\ (psm \in {"Playing", "Prebuffering"} => ~Busy(bufs, "A"))
  /\ pc' = "ended"
  /\ UNCHANGED <<psm, disk, bufs, running, sample, orphan, eos, dsi, after,
                 track, audioTracks, failures, flushed>>

\* Another loop of the file.
Again ==
  /\ pc = "ended"
  /\ bufs' = AllStopped(bufs) /\ running' = {} /\ dsi' = TRUE /\ flushed' = FALSE
  /\ pc' = "begin"
  /\ UNCHANGED <<psm, disk, sample, orphan, eos, after, track, audioTracks, failures>>

LastTime ==
  /\ pc = "ended"
  /\ pc' = "cleanup"
  /\ UNCHANGED <<psm, disk, bufs, running, sample, orphan, eos, dsi, after,
                 track, audioTracks, failures, flushed>>

\* cleanup: stops the decoders, releases what is set aside, closes the pool.
Cleanup ==
  /\ pc = "cleanup"
  /\ bufs' = Emptied(AllStopped(bufs)) /\ running' = {}
  /\ dsi' = TRUE /\ flushed' = FALSE
  /\ pc' = "closed"
  /\ UNCHANGED <<psm, disk, sample, orphan, eos, after, track, audioTracks, failures>>

\* Nothing follows: the program has ended, or waits in a read for ever.
Closed == pc \in {"closed", "hung"} /\ UNCHANGED vars
-----------------------------------------------------------------------------
(* local_process_key.                                                      *)

\* While nothing plays the disk may sleep before the keyboard is read.
Key ==
  /\ pc \in KeyPoints
  /\ IF pc # "wait" /\ psm \in {"Paused", "Stopped"} THEN MaySleep ELSE UNCHANGED disk

\* The buffers and the transfers, after a flush where one is allowed.
FlushedHere == IF Release THEN Flushed(bufs) ELSE bufs

\* Mutant: releasing a buffer leaves its transfer pending.
KeptPending == sample

Kept == [t \in Tracks |-> IF Release /\ bufs.held[t] THEN "none" ELSE sample[t]]

NoKey ==
  /\ Key /\ pc # "wait"
  /\ pc' = Resume[pc]
  /\ UNCHANGED <<psm, bufs, running, sample, orphan, eos, dsi, after, track,
                 audioTracks, failures, flushed>>

\* RM_PSM_FLUSH_VIDEO stops the video decoder, RM_PSM_VIDEO_STOPPED reports that
\* process_command did; by itself, or with what the next keys do.
VideoStoppedKey ==
  /\ Key
  /\ StopsVideo(bufs, running)
  /\ pc' = Resume[pc]
  /\ UNCHANGED <<psm, sample, orphan, eos, after, track, audioTracks, failures>>

\* Pause and play are dealt with by process_command alone.
PauseOrPlayKey ==
  /\ Key
  /\ \/ psm \in {"Playing", "Prebuffering"} /\ psm' = "Paused" /\ MayStopVideo(bufs, {})
     \/ psm \in {"Paused", "Stopped"} /\ psm' = "Playing" /\ MayStopVideo(bufs, Tracks)
  /\ pc' = Resume[pc]
  /\ UNCHANGED <<sample, orphan, eos, after, track, audioTracks, failures>>

\* Trick modes play the video only: process_command stops the audio decoder.
FastKey ==
  /\ Key /\ psm \in {"Playing", "Paused"}
  /\ psm' = "Fast"
  /\ MayStopVideo(Stopped(bufs, "A"), {"V"})
  /\ pc' = Resume[pc]
  /\ UNCHANGED <<sample, orphan, eos, after, track, audioTracks, failures>>

\* RM_PSM_DEMUX_IFRAME: mkv_IFrameTrickMode stops the video, seeks and plays it
\* again; a transfer pending stays so.  process_command stops the audio.
IFrameKey ==
  /\ Key /\ psm \in {"Playing", "Paused", "Fast", "IFrame"}
  /\ psm' = "IFrame" /\ running' = {"V"}
  /\ bufs' = AllStopped(bufs)
  /\ eos' = No /\ dsi' = TRUE /\ flushed' = FALSE
  /\ pc' = "dsi" /\ after' = "start"
  /\ UNCHANGED <<sample, orphan, track, audioTracks, failures>>

\* RM_PSM_NORMAL_PLAY: mkv_ResumeFromTrickMode moves the audio to the video's time.
ResumeFromTrickMode ==
  /\ Key /\ psm = "Fast"
  /\ psm' = "Playing" /\ MayStopVideo(bufs, Tracks)
  /\ eos' = No
  /\ pc' = "start"
  /\ UNCHANGED <<sample, orphan, after, track, audioTracks, failures>>

\* RM_PSM_DEMUX_NORMAL: mkv_ResumeFromIFrameMode.
ResumeFromIFrameMode ==
  /\ Key /\ psm = "IFrame"
  /\ MkvSeek(bufs, "noseek")
  /\ UNCHANGED <<track, audioTracks, failures>>

\* Stop: mkv_ResumeFromStop seeks to where the playing stopped, or finds no such
\* place and leaves the tracks at the last one tried.
StopKey ==
  /\ Key
  /\ \/ MkvSeek(FlushedHere, "stopped")
     \/ /\ psm' = "Stopped" /\ running' = {}
        /\ bufs' = AllStopped(FlushedHere) /\ dsi' = TRUE /\ flushed' = FALSE
        /\ sample' = Kept /\ orphan' = (orphan /\ Kept["A"] # "none")
        /\ eos' = No
        /\ pc' = "noseek"
        /\ UNCHANGED after
  /\ UNCHANGED <<track, audioTracks, failures>>

QuitKey ==
  /\ Key
  /\ bufs' = FlushedHere
  /\ sample' = Kept /\ orphan' = (orphan /\ Kept["A"] # "none")
  /\ pc' = "cleanup"
  /\ UNCHANGED <<psm, running, eos, dsi, after, track, audioTracks, failures, flushed>>

\* RM_STOP_SEEK_ZERO.
StopZeroKey ==
  /\ Key
  /\ psm' = "Stopped" /\ running' = {}
  /\ bufs' = AllStopped(FlushedHere) /\ dsi' = TRUE /\ flushed' = FALSE
  /\ sample' = Kept /\ orphan' = (orphan /\ Kept["A"] # "none")
  /\ pc' = "mainloop"
  /\ UNCHANGED <<eos, after, track, audioTracks, failures>>

SeekKey ==
  /\ Key
  /\ MkvSeek(FlushedHere, "noseek")
  /\ UNCHANGED <<track, audioTracks, failures>>

\* RM_AUDIO_STREAM_CHANGE: SwitchAudio.
SwitchAudio ==
  /\ Key /\ audioTracks > 1
  /\ MayStopVideo(Stopped(bufs, "A"),
                  IF psm = "Stopped" THEN running \ {"A"} ELSE running \cup {"A"})
  /\ eos' = [eos EXCEPT !["A"] = FALSE]
  /\ pc' = "start"
  /\ UNCHANGED <<psm, sample, orphan, after, track, audioTracks, failures>>
-----------------------------------------------------------------------------
\* A running decoder consumes what it was given.
Consume(t) ==
  /\ t \in running /\ Busy(bufs, t)
  /\ bufs' = Consumed(bufs, t)
  /\ UNCHANGED <<psm, disk, running, sample, orphan, eos, dsi, pc, after,
                 track, audioTracks, failures, flushed>>

Command ==
  \/ VideoStoppedKey \/ PauseOrPlayKey \/ FastKey \/ IFrameKey \/ ResumeFromTrickMode
  \/ ResumeFromIFrameMode \/ StopKey \/ QuitKey \/ StopZeroKey \/ SeekKey \/ SwitchAudio

Main ==
  \/ Begin \/ Mainloop \/ Noseek \/ PlayAll \/ TakeDSI \/ RetryDSI \/ SendDSI
  \/ Start \/ Choose \/ GetRecycled \/ GetFree \/ Recycle \/ GetTimeout
  \/ SendSilent \/ SendEnd \/ SendHangs \/ SendEmpty \/ SendAccepted \/ SendRefused
  \/ SendPending \/ Sent \/ EosCheck \/ Finish \/ WaitDone \/ Again \/ LastTime
  \/ Cleanup \/ NoKey

Next == Main \/ WaitDSI \/ Command \/ Closed \/ \E t \in Tracks : Consume(t)

Spec == Init /\ [][Next]_vars

\* The player's thread is scheduled, and a decoder that runs consumes its data.
\* Nothing is promised of the file: a track may have no end.
FairSpec == Spec /\ WF_vars(Main) /\ \A t \in Tracks : WF_vars(Consume(t))
-----------------------------------------------------------------------------
(* Properties.                                                             *)

\* Every DMA buffer is in exactly one place: no path, label or key loses a
\* buffer or releases one twice.
BuffersAccounted == Total(bufs) = Count

\* While the disk sleeps get_buffer sets buffers aside, but it wakes the disk in
\* time: at least disk_ctrl_low_level buffers are left for the player and the
\* decoders, one less for every refusal of the disk to wake.
RecycleLeavesRoom == bufs.recycled + LowLevel <= Count + failures

\* send_videoDSI, which waits without looking at the keyboard, finds a buffer,
\* whatever was set aside, held or queued when it was called, if the low level is
\* two more than the refusals of the disk so far, and no key stopped the decoder
\* behind the player's back.
DsiHasBuffer ==
  pc = "dsi" /\ LowLevel >= failures + 2 /\ ~flushed => bufs.pool > 0

\* The wait of send_videoDSI for a buffer ends ("retry later").
DsiGetsBuffer == (pc = "dsi" /\ ~flushed) ~> (pc # "dsi")

\* With one audio track, no frame reaches the video decoder before the DSI has,
\* since the decoder was last stopped, unless a key stopped it and the player went
\* on.  (With several, changing the track while stopped skips mainloop_noseek's
\* Play, and the frames go first.)
ConfiguredFirst ==
  audioTracks = 1 /\ pc = "send" /\ track = "V" => ~dsi \/ flushed

\* A packet still pending lies in the buffer its track holds: no release, flush or
\* label gives the buffer away under it, but for the audio packets of orphan.  And
\* NULL is sent only to a video decoder in the I-frame mode, or one that a key
\* stopped: elsewhere nothing is pending when send_videoDSI uses videosample, or
\* it is forgotten before the next send.
PendingHeld ==
  /\ \A t \in Tracks :
       sample[t] = "packet" => bufs.held[t] \/ (t = "A" /\ orphan)
  /\ pc = "send" /\ sample[track] = "null" => track = "V" /\ (psm = "IFrame" \/ flushed)

\* The buffer of a pending audio packet is given back only in a mode in which
\* send_MKV_audio sends nothing.
OrphanedInSilence == [][orphan' /\ ~orphan => psm \in Trick \cup {"Stopped"}]_vars

\* The file is read with the disk asleep only if the disk refused to wake
\* ("trying to read from a suspended drive!!").
NoReadAsleep == Reads /\ disk = "SLEEPING" => failures > 0

\* A key has stopped the video decoder and it consumes nothing; or its DSI waits for
\* a buffer, with the buffers that the audio or the refusals of the disk have left.
Starved ==
  \/ flushed /\ "V" \notin running
  \/ pc = "dsi" /\ (flushed \/ LowLevel < failures + 2)

\* However it was used before, a player left alone gets on: it comes to an end, or
\* reads the file again and again, unless it was left paused, stopped or starved, a
\* read never returns, or NULL is refused again and again.  No other wait for a
\* buffer, for the disk, for room in a decoder or for the end of prebuffering lasts
\* for ever.
LeftAlone ==
  <>[][~Command]_vars =>
     \/ <>(pc \in {"closed", "hung"})
     \/ []<>(pc = "ended" \/ Reads)
     \/ []<>(pc = "send" /\ sample["V"] = "null")
     \/ <>[](psm \in {"Paused", "Stopped"} \/ Starved)
=============================================================================
