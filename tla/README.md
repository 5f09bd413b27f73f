# A verification project for the rmmkv demuxer and its player

The code of this repository's own is a Matroska demuxer as a client library,
`src/mkvdemux/rmmkvdemux`, with a player for Sigma Designs hardware on top of it
(`src/play_mkv.cpp`), and a small exercise that imitates the Microsoft Foundation
Classes (`src/MFC.*`, `src/MY.*`). Around them lie vendored copies of FFmpeg,
libebml, libmatroska and Android's libutils, which make up nearly all of the lines.

In the library a demux thread reads the file and fills two bounded buffers per
track, and the client's thread opens tracks, takes samples, seeks and closes
through the `RM…` functions. The player is one thread that moves samples into DMA
buffers, gives these to hardware decoders that consume them in their own time,
reads the keyboard in seven places, and lets the disk sleep. This directory holds
TLA+ models of both, their TLC configurations, and proofs.

Paths below are relative to `src/mkvdemux/rmmkvdemux/` unless they start with
`src/MFC`, `src/lib` or `src/ffmpeg`. Line numbers of every definition are in
`PROJECT.json` under `map`.

## 1. The system

### Components, their state and their operations

| component | code | state | operations |
|---|---|---|---|
| frame cache | `frame_cache_c`, `src/extract/frame_cache.cpp` | array of frame records, `m_head`, `m_tail`, two waiter counters, one mutex, two conditions | `push_back`, `begin`, `end`, `pop_front`, `pop_back`, `clear`, `size` |
| ring buffer | `mm_ringbuffer_io_c`, `src/common/mm_io.cpp:1062-1375` | bytes, `m_pdata`, `m_pempty`, two waiter counters, the pre-buffering flag and target, one mutex, three conditions | `write`, `read`, `flush`, `pre_buffer` |
| extractor base | `xtr_base_c`, `src/extract/xtr_base.cpp` | a ring buffer (`out`) and a frame cache per opened track | `create_file`, `handle_frame`, `get_next_frame`, `get_next_framesize`, `reset`, `pre_buffer` |
| demuxer | `matroska_demux_c`, `src/extract/matroska_demux.cpp` | tracks, cues, file position, `m_lock`, `mb_need_to_seek`, `mb_require_to_close`, `mb_skip_to_timecode`, `m_seek_time` | `Open`, `PreparePlayback`, `OpenTrack`, `Demux`, `Seek`, `track_get_next_frame`, `track_pre_buffer`, `Close` |
| client API and demux thread | `src/rmmkv.cpp` | `running`, `state`, the thread | `RMOpenFileMKV`, `RMOpenMKVTrack`, `RMGetNextMKVSample`, `RMSeekMKV`, `RMSeekMKVmillisec`, `RMSeekMKVTrack`, `RMCloseMKVTrack`, `RMCloseMKV` |
| tracks | `matroska_demux.cpp:340-500, 919-1190`, `include/matroska_track.h` | `m_tracks`: number, type, codec, default flag, private data, extractor | `handle_tracks` with its audio and video parts, `find_track`, `GetVideoTrackID`, `GetAudioTrackID`, `GetTrackByID`, `OpenTrack`, `DumpTracks` |
| codec extractors | `src/extract/xtr_*.cpp` | codec parameters, the track's private data | `create_extractor`, `create_file`; byte rewriting on top of `handle_frame` |
| other parsing | `matroska_demux.cpp:100-340, 800-915`, `commonebml.cpp` | fills cues, time scale, head | sequential tree walk |
| player | `src/play_mkv.cpp` | `videoDMABuffer`, `audioDMABuffer`, `dmabuffer_array`, pending transfers, end-of-stream flags, `sendVideoDSI`, `disk_ctrl_state`, the playback state | `main`, `local_process_key`, `get_buffer`, `send_MKV_video`, `send_MKV_audio`, `send_videoDSI`, `check_prebuf_state`, `mkv_seek` and the changes of mode, `SwitchAudio`, `flush_and_release_buffers`, `WaitForEOS` |
| other clients | `src/test.cpp`, `src/mkvextract.cpp` | | call the API from one thread |
| helpers, libutils, libebml, libmatroska, FFmpeg, MFC demo | | | third-party, or without concurrency and state of their own |

### How they interact

`Demux` holds `m_lock` while it reads one cluster and hands every frame of an
opened track to the track's extractor. `handle_frame` first writes the bytes to
the ring, which may wait for room, and then pushes the record that describes
them to the frame cache, which may wait as well; each buffer has a lock of its
own, and `m_lock` stays held across both waits. A sample request reads the
oldest record, reads that many bytes from the ring, shrinks the record, and pops
it when it is used up, without `m_lock`. A seek sets `state`, raises a flag, and
resets every track (flush the ring, clear the cache) *without* `m_lock` so that
the demux thread comes out of its wait and gives `m_lock` up; under `m_lock` it
resets the tracks again and moves the file pointer, and only after the unlock it
arms the skipping. Close does the same, deletes everything, and joins the thread
last.

Two things are easily overlooked. Parsing a video track opens it already
(`handle_video_track`, :406-409), and `Open` puts the first cluster into that
extractor before there is a demux thread. When the client calls `RMOpenMKVTrack`,
the track gets a second extractor while the demux thread runs; the first is
neither reset nor freed. And a ring keeps one byte free, so the pre-buffering of
100 % (`RMSeekMKV`) is never reached: it ends when the writer finds no room, or
after ten seconds.

The player asks the library for one sample at a time and copies it into a DMA
buffer that its track holds. `RUASendData` makes the decoder a second owner of the
buffer, or answers `RM_PENDING` when the decoder has no room; the player then
waits, and reads a key. The buffer is released when it is full, when a track ends,
or by some of the keys. Where no buffer is free, the player may put the disk to
sleep; while it sleeps, buffers that come back are set aside, and the disk is
woken when enough have gathered. A key may end in a `goto` to one of the labels
around the sending loop, with whatever was held, pending or set aside at that
moment.

### What is hard, and what makes each component correct

- *Frame cache*: full and empty must differ through every wrap of two indices;
  pops read the waiter counter after the unlock; `clear()` zeroes counters under
  waiters; `begin()` returns an address that is used without the lock. Correct
  means: a FIFO queue of `m_size - 1` records, no stale slot, counters that are
  explained by the waiters, no wakeup lost, the address stays that of the oldest
  record.
- *Ring buffer*: chunks that wrap, free sizes computed before the lock is left in
  the pre-buffering windows and used after them, broadcasts nobody is there to
  receive. Correct means: a FIFO stream, reads deliver its front, no writer sleeps
  though its chunk fits.
- *Demuxer and client*: two buffers that must agree, flags without a lock, a seek
  that meets the demux thread at any point of a cluster, an extractor replaced
  under the demux thread, a lock nothing makes fair. Correct means: bytes and
  records agree, nothing from before a seek survives it, order is kept, calls
  return.

- *Tracks*: the children of an entry come in any order and any of them may be
  missing, the track to play is chosen and opened in the middle of its entry, and
  opened again by the client with the private data the first opening has left.
  Correct means: blocks and choices lead to the right entry, nothing is opened that
  nobody reads, the program ends or follows a missing object only where the entry of
  the very track it opens explains it.
- *Player*: a dozen keys at seven places, each with its own view of what must be
  released; waits for a buffer, for the disk, for room in a decoder, for the end of
  prebuffering, while a paused decoder consumes nothing; a configuration buffer that
  goes through the same variable as a pending video packet. Correct means: no buffer
  is lost or released twice, none is given away under a pending transfer, enough of
  them are left for the next step, the decoder is configured before the first frame,
  and a player left alone ends or goes on reading.

`PROJECT.json` lists the hazards one by one, at their lines, with the properties
aimed at each.

## 2. The modules

| module | what it is |
|---|---|
| `BoundedQueue` | abstract: a bounded queue that changes only as some caller asks |
| `FrameCache` | `frame_cache_c`; implements `BoundedQueue` with chunks of one record |
| `FrameCacheProofs` | theorems about `FrameCache` |
| `FrameCacheRefines` | the proof that `FrameCache` implements `BoundedQueue` |
| `RingBuffer`, `MCRingBuffer` | `mm_ringbuffer_io_c`; implements `BoundedQueue` with chunks of bytes |
| `RingBufferProofs` | theorems about `RingBuffer`, and that it implements `BoundedQueue` |
| `MkvDemux`, `MCMkvDemux` | demuxer, extractor base, demux thread and client together |
| `MkvDemuxProofs` | theorems about `MkvDemux` |
| `TrackTable`, `MCTrackTable` | the Tracks element, the choice of tracks, their opening |
| `TrackTableProofs` | theorems about `TrackTable` |
| `LeastElement` | least elements and induction over sets of natural numbers, for the two proofs above |
| `DmaPool` | the DMA buffers, counted by where they are: operators only |
| `Player`, `MCPlayer` | `play_mkv.cpp` from its outer loop to the cleanup |
| `DmaPoolProofs`, `PlayerProofs` | lemmas about `DmaPool`, theorems about `Player` |

**FrameCache.** `head`, `tail`, `cache`, `frameNeeded`, `spaceNeeded` are the
members of the class; `call`, `phase`, `arg` say which operation a thread is in
and where; `held` is the address `begin()` or `end()` returned last. Every
operation holds the mutex except while it waits, so one critical section is one
action (`PushWait`, `PushStore`, `FrameWait`, `Begin`, `End`, `PopFront`,
`PopBack`, `Clear`), and the test of the counter after the unlock of the pops is
`Notify`. `frameDebt` and `spaceDebt` are history: the waiters the last `clear()`
forgot. Spurious wakeups are an action. Producers and consumers are any finite
sets of threads.

**RingBuffer.** One action is one stretch of code from a lock to the next unlock
or wait. `write` leaves the lock twice in its middle to announce the end of
pre-buffering; these windows are the writer's states `announce1`, `relock1`,
`announce2`, `relock2`, and `sizes` holds the free sizes it computed before them.
A client has one of several profiles, since lost wakeups depend on whether it
pre-buffers.

**MkvDemux.** A buffer operation is one action together with its broadcast (the
two modules above justify this: they show the buffers to be queues, and the
windows of `write`, in which a broadcast is lost, are kept as
`announce…`/`relock…`). `dpc` is where the demux thread is, `cpc` where the
client is; `Holding` are the places at which the demux thread holds `m_lock`. The
client's sections under `m_lock` are single actions with the guard `LockFree`.
The flags are written one unsynchronised store per action. `opened` are the
tracks the client has opened, `open` those with an extractor, `half` the one whose
extractor is published but has no ring yet, and `orphan` says that the demux
thread is at work in an extractor that has been replaced, with what that one
holds. Bytes and records carry the number (`gen`) of seeks completed when their
cluster was read; `delivered`, `reported`, `lost` are history. `sample` is what the
first round of `track_get_next_frame` takes from the record for the caller: its time
and flags, which the record then loses. Following an
invalid pointer is the absorbing place `crashed`.

Values the code leaves uninitialised are nondeterministic: `mb_skip_to_timecode`
at the start, `m_num_indexes` when the file has no cues (`SeekLockedNoCues`,
`SeekLockedJunkCues`), and what lies behind `mp_indexes` (`JunkTimes`). A sample whose
first round found no record takes its flags and time from the stack (`Junk`).

**TrackTable.** `file` is what the Tracks element says, `tracks` is `m_tracks`,
`left` the children of the current entry that have not been handled; one action
handles one child, in any order (`TrackNumber`, `TrackType`, `CodecID`,
`FlagDefault`, `CodecPrivate`, `Audio`, `Video`). An entry may lack any child, Audio
and Video included, may have both of these, or the one its type does not call for;
a track then has no `mp_track`, or the other kind (`media`). `numTracks` counts the
children as the code does, not the tracks. `Video` is `handle_video_track` with the
choice of the track and its opening. `OpenTrack` is `OpenTrack`, `create_extractor`
and `create_file`: it may end the program (`exited`), follow a track object that is
missing or of the other kind (`crashed`), or return; `fault` is the track at which
the program ended. Private data is a kind: none, empty, too short, malformed (a NAL
unit that does not fit), full, longer than the player's buffer for it, and what the
AVC extractor has made of it. `OpenVideo` and `SelectAudio` are `initTracks` and
`mkv_select_audio_track` of the player, built with `WITH_MONO`; `mkvtV`, `mkvtA` are
its handles, `closed` the tracks it has closed. An AAC track whose DSI is missing,
empty or over 64 bytes is neither kept nor closed (`Lost`). `Found` is
`GetAudioTrackIDByIndex`, which returns any number when it finds no track.
`PrintMKV` is `RMPrintMKV`, which `test.cpp` calls. `tspec.extract_raw`, which
`open_extractor` does not initialise, is a free choice of the extractor. The branch of
`mkv_select_audio_track` that closes a track because audio is disabled
(`play_mkv.cpp:1033-1037`) is not there: once a track is being played, it is not
reached.

**Player.** `pc` is the place of the player's thread: the labels of `main`
(`mainloop`, `noseek`, `start`, `cleanup`), the waits (`dsi`, `get`, `send`,
`wait`), `hung` (a read that never returns) and the seven calls of
`local_process_key` (`key…`); `Resume` says where the
player goes on when a key has changed nothing, `Release` in which of them the
buffers are given back. `after` is what follows the function that called
`send_videoDSI`. `bufs` is a record of `DmaPool`: how many buffers are in the pool,
set aside, released but still read by a decoder, and which tracks hold one that
its decoder reads. `sample` says whether a transfer is pending, and of what: a
packet, or NULL. For `send_videoDSI` uses `videosample`, in which a video packet may be
pending: it takes its buffer into it, writes its size, and leaves NULL there
(`play_mkv.cpp:1226`, `:1232`, `:1254`). It is three steps: `TakeDSI`, which waits for a
buffer (`WaitDSI`), `RetryDSI` while the decoder has no room, and `SendDSI`, after which
the function that called it goes on (`after`). A NULL that is sent may be accepted or
refused with an error, which leaves it pending (`SendRefused`). `orphan` says that the
pending audio packet lies in a buffer that has been given back. `flushed` is history: a
key stopped the video decoder and the player went on with no label (`VideoStoppedKey`,
and `MayStopVideo` together with what another key does). `running` are the decoders that consume. One key is one
action: `process_command`, `local_process_key` and what the label does up to the
next wait. `psm` is the playback state; `Fast` stands for the states that send
video only, `IFrame` for the I-frame mode. External, and modelled by how the code
uses them: the keyboard, the pool, the decoders, the disk callback.

## 3. The runs

| run | checks | result |
|---|---|---|
| `frame_cache` | types, live slots, counters, lost wakeups, the begin pointer, refinement of `BoundedQueue`, release of producers | passes |
| `ring_buffer` | types, lost wakeups, waiter counts, refinement of `BoundedQueue`, what reads deliver, release of the writer | passes |
| `mkv_demux` | types, agreement of the buffers, nothing stale, order, flags and times of samples, resets and gets return | passes |
| `track_table` | types, numbers lead back, first claim wins, no wild access, what parsing opens, why the program ends, who reads an extractor | passes |
| `player` | types, no buffer lost, room while the disk sleeps, a buffer for the DSI, DSI first, pending transfers, reads with the disk awake, a player left alone gets on | passes |
| `ring_buffer_lost_wakeup` | with pre-buffering, a writer never sleeps though its chunk fits | violated |
| `seek_hang` | a seek returns | violated |
| `open_strands` | resetting the tracks reaches the demux thread | violated |
| `get_at_eof` | a sample request at the end of the track is answered | violated |
| `use_after_close` | Close deletes the stream when the demux thread is done with it | violated |
| `seek_reported_time` | playback resumes at the time the seek reported | violated |
| `player_dsi_wait` | the wait of `send_videoDSI` for a buffer ends | violated |

The violated ones each state what a comment or the API header says and are
explained under `findings` in `PROJECT.json`:

- *Lost wakeup in `write`.* Having announced the pre-buffer, `write` takes the
  lock again and waits without another look; room made in between was announced
  to nobody.
- *Seek hangs.* `clear()` zeroes the waiter counter and broadcasts nothing. A demux
  thread asleep in `push_back` holds `m_lock`, and the seek waits for it for ever.
- *Seek hangs after opening.* The demux thread may wait in the extractor that
  `RMOpenMKVTrack` replaced, which no reset reaches.
- *Busy loop at the end of a track* in `track_get_next_frame`.
- *Use after delete*: `Close` unlocks before it joins.
- *Wrong time*: `Seek` returns the cue after the one it goes to, and reads one past
  the end of the array at the last.

- *`send_videoDSI` waits for ever.* It waits for a free buffer in a loop that reads no
  key and takes none of those set aside. `setup` lets the low level be as small as one:
  with one of three buffers set aside and one held by each track, nobody can return one.

The passing properties of `mkv_demux` name these cases as exceptions (`lost`,
`Stranded`, `eof`, `crashed`) so that they say what holds otherwise.
`ResetReturns` also shows something that is not obvious: nothing makes `m_lock`
fair, and yet a seek gets it, since a paused demux thread stops taking it. Its
mutant (a seek that does not pause) violates it. In the same way `DsiHasBuffer` says when
`send_videoDSI` finds a buffer (the low level is two more than the refusals of the disk
so far, and no key stopped the decoder), `ConfiguredFirst` and `PendingHeld` name the keys
after which frames go before the DSI, or NULL is sent, and `LeftAlone` names the waits
that last: `Starved`, a read that hangs, a NULL that is refused again and again.

### Bounds, and why they are enough

- `frame_cache`: three slots (two usable), so that the indices wrap, the cache is
  empty, half full and full; two producers and one consumer; two records. The
  program has one producer; two make the broadcasts matter. The proofs remove
  these bounds.
- `ring_buffer`: four bytes (three usable), two byte values, chunks of one to three:
  a chunk may fill the ring, may not fit, and wraps at every place. Three client
  profiles: without pre-buffering, the program's (flush and pre-buffer 100 %), and
  pre-buffering a part, without flush.
- `mkv_demux`: a file of two clusters, a video and an audio track, frames of one or
  two bytes, key and other frames; rings of three bytes and caches of two records,
  less than a cluster needs, so that the demux thread waits in either buffer and
  for either track. `MaxSeeks = 2`: a second seek meets what the first one left.
  Rooms 1 and 4 give partial and whole reads, targets 0 and 3 the first and the
  last cue. Profiles: a viewer whose track the parsing has opened; a player of both
  tracks; an audio client without an index who never reads the video. `NsPerTick`
  is 10 in place of 10^6: only the mismatch of units matters.

- `track_table`: every Tracks element of one or two entries out of six ordinary codings
  (AVC, MPEG-4, MPEG-2, AAC, AC-3, MP3), numbered 1 or 2, default or not, so that
  numbers are shared and defaults compete; every odd entry (a child missing or too
  many, private data missing, empty, too short, malformed or too long, a type and a codec
  that contradict each other), numbered 0 to 2, alone and before or behind an ordinary one;
  and five files of three entries, where a choice has a wrong neighbour on either side.
  Two entries suffice for a choice and a lookup that go apart; a third gives a last
  track that is neither.
- `player`: three buffers, a low level of two, one refusal. One buffer may be set aside
  before the disk is woken and a second after a refusal, and the pool runs dry with
  buffers held, queued and set aside at once. The low level is the least with which
  `send_videoDSI` is sure of a buffer while the disk obeys; after the refusal it is not,
  and `DsiHasBuffer` and `LeftAlone` except that. The proofs remove these bounds from the
  safety properties. That any read may find the end of the track, and any sample may fill
  the buffer, replaces the lengths of the file and of the samples.
- `player_dsi_wait`: three buffers and the low level that `setup` makes of it, one.

The violation runs use one smaller profile each, so that the shortest
counterexample is the one described.

`CHECK_DEADLOCK FALSE` is set for `mkv_demux` and its violation runs, since the
system may stop: after a close, a crash, or one of the hangs above. It is set
for `track_table`, which ends when no more track can be opened. The buffer runs and
the player's check deadlock (a closed player stutters explicitly).

### Fairness

Weak fairness of each thread's own steps: the scheduler runs a thread that can go
on. The ten-second timer of `pre_buffer` is among the client's steps. Nothing is
assumed of the order in which `m_lock` is granted, no client has to start a call,
and no wakeup has to be spurious. With one action for a broadcast and what it
wakes, no strong fairness is needed there.

The player's `FairSpec` assumes weak fairness of its thread (`Main`, which holds no
command: nobody has to press a key) and weak fairness of each decoder's `Consume`,
enabled only while the decoder runs and has data. Nothing is promised of the file: a
track may have no end, and a read may hang, as `get_at_eof` shows it can. `LeftAlone` then
speaks of behaviours in which no command comes any more from some point on.

## 4. The proofs

`FrameCacheProofs` holds for every number of producers and consumers, every
capacity of at least two slots and every set of records, from the assumptions
`ThreadAssumption` and `DataAssumption` of `FrameCache` only.

- `TypeCorrect`: `Spec => []TypeOK`. `TypeOK` is not inductive: a push must store a
  record and not `NoFrame`, and a thread that clears has not been waiting. The
  inductive invariant is `TypeOK /\ CallsFit`. `SizesAddUp` and `IndicesStay` are
  the arithmetic facts about sizes and wraps that everything else cites.
- `SlotsLive`: a slot holds a record exactly when it lies between `tail` and `head`.
  Inductive with the types; the work is in the wraps of both indices.
- `CountersCorrect`: the counters equal the number of blocked threads less those
  `clear()` forgot. `BlockedCount` and `BlockedMove` say how a cardinality changes
  when one thread moves, and that a broadcast does not change it.
- `NobodyOversleeps`: no thread sleeps on a condition that holds, unless a pop is on
  its way to its broadcast or `clear()` has forgotten somebody. The pop reads the
  counter after the unlock; `ZeroMeansNobody`, from `CountersCorrect`, shows that a
  zero it reads really means that nobody waits.
- `BeginSafe`: with one consumer, the address `begin()` returned stays that of the
  oldest record until that consumer pops or clears.

`FrameCacheRefines` proves `CacheIsQueue`: `Spec => ImplementsQueue`, under the same
assumptions. `Contents`, the records from `tail` to `head`, is a sequence whose k-th
record is that of its slot (`ContentsFit`, from the types). Only four steps change
the ring: `PushStore` is the abstract `Put`, `PopFront` its `TakeFront`, `PopBack` its
`TakeBack` and `Clear` its `Clear` (`PushAppends`, `PopFrontTakes`, `PopBackDrops`,
`ClearEmpties`, through every wrap of either index); the others stutter.

`RingBufferProofs` holds for every size of the ring, every longest chunk and every set of
profiles that `SizeAssumption` and `ProfileAssumption` allow. The second says that a
client that flushes pre-buffers the whole ring only, as the two functions that seek do.
It is needed: with a smaller target, `write` may compute its sizes, leave the lock
with room, find the ring flushed, and store at its new start by the old sizes. The
inductive invariant `Inv` is a conjunction:

- `CallsFit` (what a call was given, and what only some profiles do) and
  `WaiterCounted`, for the types of the counters and for every broadcast: who tests a
  counter for zero learns whether the other side waits. With them `NobodyOversleeps`
  is `NoLostWakeup`, and `CountersRight` is `WaiterCounted`.
- `SizesFit`: the sizes from before a pre-buffering window are still good after it
  (`Fits`: they promise no more than the room there is, and the second part is used
  only where the first ends with the ring), since reads only make room; with a client
  that may flush they are zero. `RingTypeCorrect` needs it: the types of the pointers
  rest on it.
- `PayloadOnly`: there is no byte of `memset` and no terminating zero between the pointers.
  `StoreAppends` is the lemma behind it, on both copies of `write` and every wrap.

`ReadsDeliverFront` is `DeliversFront`. `RingIsQueue` is `ImplementsQueue`: `StoreIsPut`
and `ReadIsTake` say that a store appends the whole chunk to `Contents` and that a read
removes what it delivers; `Flush` empties it, and the others stutter.

`PlayerProofs` holds for every number of buffers, every low level and every bound of
refusals that `CountAssumption` and `PlayerAssumption` allow. The second says what `setup`
ensures: `LowLevel < Count`.

`DmaPoolProofs` shows of every operator of `DmaPool` that it keeps `Sound`: the
counters are natural numbers and add up to `Count`; that they stay below `Count`
follows (`SoundInPools`). The lemmas `NoseekBuffers` … `ConsumeBuffers` carry this
to the actions, with what each leaves held, set aside and queued. The inductive
invariant `Inv` is a conjunction, each part kept given those before it:

- `TypedButBufs`, `Sound`, `Placed` (`get_buffer` is called for a track without a buffer,
  so that none is overwritten) give `TypeCorrect` and `NoBufferLost`.
- `RoomLeft`, for `RoomIsLeft`: `RecycleLeavesRoom` is not inductive, since the
  buffer that wakes the disk reaches its bound. It reaches it only there, with the
  disk running and `get_buffer` about to take one back.
- `PendingKept`, for the first part of `PendingIsHeld` and for `OrphansInSilence`: a track
  is sent from the buffer it holds, and when the loop releases a full buffer, the transfer
  is over or is that of the audio in a silent mode.
- `PrebufKept` and `NullKept`, for the second part of `PendingIsHeld`: a pending video packet
  becomes NULL in the I-frame mode, where a key stopped the decoder, or on the way to a
  place that forgets it. `check_prebuf_state` sends a DSI only behind such a key.
- `AwakeKept`, for `ReadsAwake`: what follows `RM_PENDING` reads nothing, every other
  way to a read has just found the disk awake or been refused.
- `ConfiguredKept`, for `DSIFirst`: with one audio track only `mainloop_noseek` and keys that
  stop the decoder lead to the sending without the DSI, and from the key of the former the
  way goes through Play. `Place` is where the player will go on behind `send_videoDSI`.
- `QuietKept`, with `RoomLeft`, for `DSIFindsBuffer`: between a stop of the decoders and
  the DSI nothing is queued but one earlier DSI, so that two buffers held and this one
  leave one free if the low level allows for the refusals. Below it, `player_dsi_wait`
  shows the wait.

`LeastElement` proves `LeastOf` (a set of numbers that is not empty has a least element;
it takes the interval up to a member, which is finite) and `Induction`, stated over a set
of numbers and not over an operator, so that the provers can instantiate it.

`TrackTableProofs` holds for every Tracks element (`FilesAssumption`: a file is any
sequence of entries), of any length, with any numbers, with any children missing, and
with those of each entry in any order. `Inv` is inductive and a conjunction:

- `TypeOK`, for `TypeCorrect`: no lookup leaves the table (`ByIDFinds`, `IDOfType`), what
  `OpenTrack` changes is one entry.
- `Told`: a track says what its entry in the file says, except what is still to come.
- `Claimed`: an entry whose number has been read has it and is the first to have it, or has
  none since an earlier one claims it. This is stronger than `FirstClaimWins`, and from it
  follows, with `Distinct`, that no two tracks share a number (`NumbersDistinct`).
- `CountedUp`: the counters are the numbers of Audio and Video children handled.
- `Parsed`: when the parsing is over, nothing is left; until then, nothing is played.

From `Inv` alone follow `FirstClaimHolds` and `SelectionCorrect`; the latter also says that
every index below the count reaches an audio track if Audio children are in audio
entries only, by induction over the entries (`IndexReached`). The others are kept by every
step given `Inv`: `NoWildAccessHolds` and `ExitHolds` (an opening fails only in the one track
it opens, `fault`, for what the entry of that track lacks or has wrong), `UnreadHolds`.
`ParsingOpensVideo` needs the state in which it is first used (`OpensVideo`: also after the
parsing), since the player opens tracks in that state.

`MkvDemuxProofs` holds for every file, any number of tracks, any capacities, targets, cues
and profiles that `FileAssumption` allows. Each of its invariants is inductive with those
before it that it names:

- `Typed`, for `TypeCorrect`: `TypeOK` is not inductive. `Control` says what the places of
  the two threads imply (inside a frame there is one; the client at `pop` has a record; a
  seek under way has not used up the bound). `Spaces` ties `m_space_needed` to the place of
  the demux thread, without which a woken `push_back` could leave its type.
- `Fresh`, for `NothingStaleHolds`: every byte and record and everything handed out carries
  the current `gen`, also while a seek is under way, and between two clusters the demux
  thread holds no frames: `m_lock` is free only then.
- `Joint`, for `AgreementHolds`: `Agreement`; no track is open and half open; a half-open
  track is empty, and a demux thread at work on it is so in the extractor it had before
  (`Halfway`); the record that is popped is used up (`Used`). A read takes the same bytes
  from the ring and from the front of what the records describe. For this `Described`, a
  fold over the records, is taken apart at either end: `FlattenAppend` and
  `FlattenHeadTail` are proved of `FlattenSeq` by induction, from which `DescribedAppend`
  (a push) and `DescribedHead` (a read) follow.
- `Ordered`, for `InOrderHolds`, on top of the three. Its parts are `Opening` (a track that
  is not yet opened has handed out nothing; a crash stops both threads), `Reading` (the
  frames in hand rise, lie below the clusters not yet read, and nothing between is missing),
  `Orphaned` (while the demux thread is at work in a replaced extractor, the new one gets
  nothing), `Beginning` (before the first seek nothing is skipped once a frame was taken,
  and no cluster is given up) and `Sequenced`: what a track has been given is whole frames,
  all below what is still to come (`Coming`). The steps that matter are those that use up a
  part of `Coming`: a frame that is dropped or written is the least of it (`NextGone`,
  `NextAdded`), so that the next comes after it, and before the first seek no frame of a
  track that has been given one is dropped.
- `Tally` and `Sampled`, for `SampleMatchesHolds`, on top of the three and of `Opening` and
  `Reading`. The sample is put together in several steps, and the demux thread may push a
  record between any two of them. `Tally` relates the records of a track to what it has
  handed out: every record stands for a frame of which nothing was read, except the oldest,
  which may be begun; that one has lost its time, and its `left` and the bytes handed out
  make up the frame (`Accounted`). A record with nothing left is just being popped
  (`UsedUp`). `Sampled` is `SampleMatches` itself, with the places in which a sample is
  found. In `ReadTakes`, `Agreement` gives that the bytes read are those of the oldest record;
  `RightStarts` is the first round of a sample, `RightStays` and `EndIsEnd` the others.

So every safety invariant of the passing runs is a theorem. TLC only: all liveness
(`PushReleased`, `WriteReleased`, `ResetReturns`, `GetReturns`, `LeftAlone`), which is out
of the prover's reach.

## 5. What is not modelled

Nearly all of the tree's lines are vendored (FFmpeg alone has 6565 of its 7314
files) and are no part of this program's logic; FFmpeg and libutils are not even
called by it. The share of the tree that is mapped is small for this reason.

In the library:

- The parsing of head, info, seek head, cues and attachments: cues and time scale
  are constants of `MkvDemux`. `TrackTable` leaves out sizes, rates and names, a child
  that occurs twice in its entry, memory or a dump file that cannot be had, and a PCM
  entry of bit depth 2^32 - 1, which `xtr_wav.cpp:54` takes for one that has none.
- `Seek` moves the file to the cue's position plus 36, and `SeekLocked` takes this for the
  cluster itself; an element at the place of a cluster that is none
  (`matroska_demux.cpp:1284-1285`) does nothing in that pass and is left out.
- One block has one frame (no lacing); the cluster's frames are read whole, as
  `read_master` does.
- The rewriting of frames by codec extractors: `xtr_avc.cpp` writes several pieces
  per frame before it pushes the record, and pushes and takes back a record of
  parameter sets when it opens. The extractor of MPEG-1 and MPEG-2 pushes no
  records at all, so its ring fills for good (listed as a hazard).
- A frame that is larger than the ring (`write` waits for ever): `FileAssumption`
  excludes it.
- Return values and durations of samples, and the contents of frames.
- In `MkvDemux`, `RMCloseMKVTrack` (it frees a handle and changes nothing that model
  has; `TrackTable` has it) and opening a track twice by the client.
- `frame_cache_c::size()` reads two indices without the lock; the model reads them
  at once. Memory-order effects of the unsynchronised flags are not modelled.
- The conversions of seconds and milliseconds to ticks in `RMSeekMKV…`.
- `mb_demuxing` and the wait on it: the flag is only raised while `m_lock` is held,
  so whoever holds `m_lock` finds it lowered.

In the player:

- Everything before the outer loop (options, opening of the hardware), files with
  video or audio only, and the H.264 start-code path, which is disabled by an
  `if (0)`.
- Commands that only change a speed, a display or a mode of the decoder; the
  timers, resynchronisation, the first time stamp and dual mode.
- Errors of `RUASendData` other than `RM_PENDING`, except for NULL: the code leaves the
  transfer pending and goes on. What follows a NULL that is accepted, which the code for
  MPEG-4 then dereferences (`play_mkv.cpp:1862-1866`), is not modelled.
- `samplerate` in `mkv_select_audio_track`, used uninitialised because the call that
  set it is commented out.
- At the end of `main`, that a buffer a track still holds is not released before
  the pool is closed: the model keeps it as held.

And the rest: `mkvextract.cpp`'s direct use of the demuxer, destructors, the MFC
exercise (static constructors build a list that one loop prints; it has one thread
and no state that changes later), and all third-party code.

### Seen while reading, without a run

- The comment before `GetVideoTrackID` (`matroska_demux.cpp:919-921`) gives the order
  default, enabled, first; the enabled flag is never looked at.
- `GetAudioTrackIDByIndex` has no return at its end when no track matches.
- `RMGetMKVVideoTrackIDByIndex` calls `GetAudioTrackID`.
- `GetTrackByID` returns the last track for a number nobody has, where the header
  documents NULL; `SelectionLeadsBack` and `FirstClaimWins` show that the choices the
  program makes itself never depend on it.
- `RMGetNextMKVSample` returns FALSE as soon as the file is at its end, also with a
  valid sample; `rmmkvapi.h:295` says that FALSE means that the sample is not valid.
- The flags of a sample are those of its first record only. The end of one frame with a
  whole next frame behind it has no MKV_AU_START and no time, although
  `rmmkvapi.h:288-290` has flags for "the beginning of an AU"; and when the size of the
  next record is read as 0 and the record comes then, part of it follows a frame whose
  end is flagged. `SampleMatches` speaks of the first frame for this reason.
- `RMOpenMKVTrack` returns a handle also when the track got no extractor.
- `RMPrintMKV` is documented to print debug output (`rmmkvapi.h:184`). `dump_track` ends with a
  call of a method of `mp_track` (`matroska_track.h:159`), which is NULL for every subtitle
  track. `PrintMKV` has it, and `NoWildAccess` names its cause (an entry without Audio or
  Video child).
- An AAC track whose DSI is missing, empty or longer than 64 bytes stays open with no
  handle to it (`play_mkv.cpp:1116-1119`); `UnreadIsClosed` excepts it as `Lost`.
- An AVC track opened a second time parses the start codes it made itself as private
  data: the program usually ends with "nal too big". `TrackTable` has this as
  `MayExit`, and `ExitExplained` names it as a reason.

## 6. Plan

Done, with proofs: `BoundedQueue`, `FrameCache`, `RingBuffer`, `MkvDemux`, `TrackTable`,
`DmaPool` and `Player`.

1. `CueIndex` of `MkvDemux` and `handle_cues` (which stores an entry for every
   child, also those that are no cue points) against a reference definition.
2. `MkvDemux`: the return value of `RMGetNextMKVSample` at the end of the file,
   `RMCloseMKVTrack` and reopening, frames larger than the ring.
3. The extractors' several-piece `handle_frame`, as a variant of the write step.
