----------------------------- MODULE RingBuffer -----------------------------
(***************************************************************************)
(* mm_ringbuffer_io_c: the ring of payload bytes of one track.  The demux  *)
(* thread (the writer) calls write; the client thread calls read, flush    *)
(* and pre_buffer.                                                         *)
(*                                                                         *)
(* One action is one stretch of code between a lock and the next unlock or *)
(* wait.  write leaves the lock in its middle, twice, to announce that     *)
(* pre-buffering is over, and goes on with the sizes it computed before:   *)
(* these windows are the writer's states announce1, relock1, announce2     *)
(* and relock2.                                                            *)
(***************************************************************************)
EXTENDS Integers, Sequences

CONSTANTS Bytes,     \* the values of a payload byte
          Zero,      \* what memset and the terminating store leave in a byte
          BufSize,   \* m_size: bytes in the ring, one of which stays free
          MaxChunk,  \* the longest write and read that are tried
          Profiles   \* how clients use the ring: the operations of ops, with the
                     \* values m_size * percent of targets for pre_buffer

ASSUME SizeAssumption ==
  /\ BufSize \in Nat /\ BufSize >= 2
  /\ MaxChunk \in Nat /\ MaxChunk >= 1
  /\ Zero \notin Bytes
  /\ Profiles \subseteq [ops : SUBSET {"read", "flush", "pre_buffer"},
                         targets : SUBSET (0..BufSize)]

(* Who flushes pre-buffers the whole ring: the two functions that seek     *)
(* ask for 100 percent, and only a seek flushes.                           *)
ASSUME ProfileAssumption ==
  \A p \in Profiles : "flush" \in p.ops => p.targets \subseteq {BufSize}

VARIABLES pdata,         \* m_pdata - m_pbuf: where the oldest byte is
          pempty,        \* m_pempty - m_pbuf: where the next byte goes
          buf,           \* the bytes at m_pbuf
          dataNeeded,    \* m_data_needed
          freeNeeded,    \* m_free_needed
          preBuffering,  \* mb_pre_buffering
          preSize,       \* m_pre_buffer_size
          wpc,           \* where the writer is
          chunk,         \* what it writes
          sizes,         \* its empty_size1 and empty_size2, with empty_size their sum
          cpc,           \* where the client is
          want,          \* the bytes it reads, or pre_buffer's target
          got,           \* what its last read delivered
          client         \* its profile (chosen once)

ring       == <<pdata, pempty, buf>>
counters   == <<dataNeeded, freeNeeded>>
prebuf     == <<preBuffering, preSize>>
writerVars == <<wpc, chunk, sizes>>
clientVars == <<cpc, want, got, client>>
vars == <<ring, counters, prebuf, writerVars, clientVars>>

Cells  == 0..(BufSize - 1)
Chunks == UNION {[1..n -> Bytes] : n \in 1..MaxChunk}

Wrap(i) == IF i >= BufSize THEN i - BufSize ELSE i
DataSize == IF pdata <= pempty THEN pempty - pdata ELSE pempty + BufSize - pdata

NoSizes == [first |-> 0, second |-> 0]
(* mutant: the free space is computed without the byte that must stay free *)
EmptySizesGreedy ==
  IF pdata <= pempty
  THEN [first |-> BufSize - pempty, second |-> pdata]
  ELSE [first |-> pdata - pempty, second |-> 0]
(* Free bytes from m_pempty up to the end, and from the start of the ring. *)
EmptySizes ==
  IF pdata <= pempty
  THEN LET total  == BufSize - (pempty - pdata) - 1
           second == IF pdata = 0 THEN 0 ELSE pdata - 1
       IN  [first |-> total - second, second |-> second]
  ELSE [first |-> pdata - pempty - 1, second |-> 0]
Total(e) == e.first + e.second
-----------------------------------------------------------------------------
Init ==
  /\ pdata = 0 /\ pempty = 0 /\ buf = [i \in Cells |-> Zero]
  /\ dataNeeded = 0 /\ freeNeeded = 0
  /\ preBuffering = FALSE /\ preSize = -1
  /\ wpc = "idle" /\ chunk = <<>> /\ sizes = NoSizes
  /\ cpc = "idle" /\ want = 0 /\ got = <<>>
  /\ client \in Profiles

-----------------------------------------------------------------------------
(* The writer.                                                             *)

CallWrite(c) ==
  /\ wpc = "idle"
  /\ wpc' = "top" /\ chunk' = c
  /\ UNCHANGED <<ring, counters, prebuf, sizes, clientVars>>

(***************************************************************************)
(* Both memcpy's and the pointer updates.  The second copy goes to the     *)
(* start of the ring wherever the first one ended.                         *)
(***************************************************************************)
Store(e) ==
  LET n1 == IF Len(chunk) > e.first THEN e.first ELSE Len(chunk)
      n2 == Len(chunk) - n1
      end == Wrap(pempty + n1) + n2
  IN  /\ pempty' = end
      /\ buf' = [i \in Cells |->
                   IF i = end THEN Zero
                   ELSE IF i < n2 THEN chunk[n1 + i + 1]
                   ELSE IF pempty <= i /\ i < pempty + n1 THEN chunk[i - pempty + 1]
                   ELSE buf[i]]

(***************************************************************************)
(* The rest of one pass through write's loop, for the sizes e: store the   *)
(* chunk, or wait for room.  A writer about to wait while the client is    *)
(* pre-buffering leaves the lock first, to let that client go.             *)
(***************************************************************************)
Settle(e, needed) ==
  \/ /\ Total(e) >= Len(chunk)
     /\ Store(e)
     /\ wpc' = "notify" /\ freeNeeded' = needed
     /\ sizes' = NoSizes
     /\ UNCHANGED pdata
  \/ /\ Total(e) < Len(chunk)
     /\ wpc' = IF preBuffering THEN "announce2" ELSE "waiting"
     /\ freeNeeded' = needed + 1
     /\ sizes' = NoSizes
     /\ UNCHANGED ring

AtTop  == wpc \in {"top", "woken"}
(* mutant: a woken writer leaves itself on the counter                     *)
NeededKept == freeNeeded
(* The counter once a woken writer has undone its own increment.           *)
Needed == IF wpc = "woken" THEN freeNeeded - 1 ELSE freeNeeded
PreBufferDone == preBuffering /\ BufSize - Total(EmptySizes) >= preSize

WriteTop ==
  /\ AtTop /\ ~PreBufferDone
  /\ Settle(EmptySizes, Needed)
  /\ UNCHANGED <<dataNeeded, prebuf, chunk, clientVars>>

(* The target is reached: remember the sizes and leave the lock.           *)
WriteAnnounce ==
  /\ AtTop /\ PreBufferDone
  /\ wpc' = "announce1"
  /\ sizes' = EmptySizes
  /\ freeNeeded' = Needed
  /\ UNCHANGED <<ring, dataNeeded, prebuf, chunk, clientVars>>

(* pthread_cond_broadcast (&m_pre_buffer_cond), with no lock held.         *)
Broadcast ==
  /\ wpc \in {"announce1", "announce2"}
  /\ wpc' = IF wpc = "announce1" THEN "relock1" ELSE "relock2"
  /\ cpc' = IF cpc = "preWait" THEN "preWoken" ELSE cpc
  /\ UNCHANGED <<ring, counters, prebuf, chunk, sizes, want, got, client>>

(* Locked again: go on with the sizes from before the unlock.              *)
WriteResume ==
  /\ wpc = "relock1"
  /\ Settle(sizes, freeNeeded)
  /\ UNCHANGED <<dataNeeded, prebuf, chunk, clientVars>>

(* Locked again: wait, whatever was freed in the meantime.                 *)
WriteWait ==
  /\ wpc = "relock2"
  /\ wpc' = "waiting"
  /\ UNCHANGED <<ring, counters, prebuf, chunk, sizes, clientVars>>

(* After the unlock, with no lock held.                                    *)
WriteNotify ==
  /\ wpc = "notify"
  /\ wpc' = "idle" /\ chunk' = <<>>
  /\ cpc' = IF dataNeeded # 0 /\ cpc = "readWait" THEN "readWoken" ELSE cpc
  /\ UNCHANGED <<ring, counters, prebuf, sizes, want, got, client>>

-----------------------------------------------------------------------------
(* The client.                                                             *)

CallRead(n) ==
  /\ cpc = "idle" /\ "read" \in client.ops
  /\ cpc' = "read" /\ want' = n
  /\ UNCHANGED <<ring, counters, prebuf, writerVars, got, client>>

Reading == cpc \in {"read", "readWoken"}
ReaderUndone == IF cpc = "readWoken" THEN dataNeeded - 1 ELSE dataNeeded

ReadWait ==
  /\ Reading /\ want > DataSize
  /\ dataNeeded' = ReaderUndone + 1
  /\ cpc' = "readWait"
  /\ UNCHANGED <<ring, freeNeeded, prebuf, writerVars, want, got, client>>

(* mutant: the pointer stops on the end of the ring instead of wrapping    *)
ReadTakeNoWrap ==
  /\ Reading /\ want <= DataSize
  /\ got' = [k \in 1..want |-> buf[Wrap(pdata + k - 1)]]
  /\ pdata' = IF pdata + want > BufSize THEN pdata + want - BufSize ELSE pdata + want
  /\ dataNeeded' = ReaderUndone
  /\ cpc' = "readNotify"
  /\ UNCHANGED <<pempty, buf, freeNeeded, prebuf, writerVars, want, client>>
(* mutant: the part behind the wrap is copied from where the first ended   *)
ReadTakeFlat ==
  /\ Reading /\ want <= DataSize
  /\ got' = [k \in 1..want |-> IF pdata + k - 1 < BufSize THEN buf[pdata + k - 1] ELSE Zero]
  /\ pdata' = Wrap(pdata + want)
  /\ dataNeeded' = ReaderUndone
  /\ cpc' = "readNotify"
  /\ UNCHANGED <<pempty, buf, freeNeeded, prebuf, writerVars, want, client>>
(* The one or two memcpy's: everything asked for, around the end if need be. *)
ReadTake ==
  /\ Reading /\ want <= DataSize
  /\ got' = [k \in 1..want |-> buf[Wrap(pdata + k - 1)]]
  /\ pdata' = Wrap(pdata + want)
  /\ dataNeeded' = ReaderUndone
  /\ cpc' = "readNotify"
  /\ UNCHANGED <<pempty, buf, freeNeeded, prebuf, writerVars, want, client>>

(* mutant: the reader sends its broadcast only once the ring is empty      *)
ReadNotifyWhenEmpty ==
  /\ cpc = "readNotify"
  /\ cpc' = "idle" /\ got' = <<>> /\ want' = 0
  /\ wpc' = IF freeNeeded # 0 /\ DataSize = 0 /\ wpc = "waiting" THEN "woken" ELSE wpc
  /\ UNCHANGED <<ring, counters, prebuf, chunk, sizes, client>>
ReadNotify ==
  /\ cpc = "readNotify"
  /\ cpc' = "idle" /\ got' = <<>> /\ want' = 0
  /\ wpc' = IF freeNeeded # 0 /\ wpc = "waiting" THEN "woken" ELSE wpc
  /\ UNCHANGED <<ring, counters, prebuf, chunk, sizes, client>>

CallFlush ==
  /\ cpc = "idle" /\ "flush" \in client.ops
  /\ cpc' = "flush"
  /\ UNCHANGED <<ring, counters, prebuf, writerVars, want, got, client>>

(* mutant: flush resets the pointers and tells nobody                      *)
FlushSilently ==
  /\ cpc = "flush"
  /\ pdata' = 0 /\ pempty' = 0 /\ buf' = [i \in Cells |-> Zero]
  /\ cpc' = "idle"
  /\ UNCHANGED <<counters, prebuf, writerVars, want, got, client>>
(* Readers are woken too, but the only reader is the thread that flushes.  *)
Flush ==
  /\ cpc = "flush"
  /\ pdata' = 0 /\ pempty' = 0 /\ buf' = [i \in Cells |-> Zero]
  /\ cpc' = "idle"
  /\ wpc' = IF freeNeeded # 0 /\ wpc = "waiting" THEN "woken" ELSE wpc
  /\ UNCHANGED <<counters, prebuf, chunk, sizes, want, got, client>>

CallPreBuffer(size) ==
  /\ cpc = "idle" /\ "pre_buffer" \in client.ops
  /\ cpc' = "pre" /\ want' = size
  /\ UNCHANGED <<ring, counters, prebuf, writerVars, got, client>>

PreBuffer ==
  /\ cpc = "pre"
  /\ preSize' = want
  /\ IF DataSize < want
     THEN preBuffering' = TRUE /\ cpc' = "preWait" /\ want' = want
     ELSE preBuffering' = preBuffering /\ cpc' = "idle" /\ want' = 0
  /\ UNCHANGED <<ring, counters, writerVars, got, client>>

(* pthread_cond_timedwait gives up after ten seconds (or spuriously).      *)
PreTimeout ==
  /\ cpc = "preWait"
  /\ cpc' = "preWoken"
  /\ UNCHANGED <<ring, counters, prebuf, writerVars, want, got, client>>

PreReturn ==
  /\ cpc = "preWoken"
  /\ preBuffering' = FALSE /\ preSize' = -1
  /\ cpc' = "idle" /\ want' = 0
  /\ UNCHANGED <<ring, counters, writerVars, got, client>>

(* POSIX lets pthread_cond_wait return without a broadcast.                *)
SpuriousWakeup ==
  /\ \/ wpc = "waiting" /\ wpc' = "woken" /\ cpc' = cpc
     \/ cpc = "readWait" /\ cpc' = "readWoken" /\ wpc' = wpc
  /\ UNCHANGED <<ring, counters, prebuf, chunk, sizes, want, got, client>>

-----------------------------------------------------------------------------
WriterStep ==
  WriteTop \/ WriteAnnounce \/ Broadcast \/ WriteResume \/ WriteWait \/ WriteNotify
ClientStep ==
  \/ ReadWait \/ ReadTake \/ ReadNotify \/ Flush
  \/ PreBuffer \/ PreTimeout \/ PreReturn

Next ==
  \/ WriterStep \/ (\E c \in Chunks : CallWrite(c))
  \/ ClientStep \/ (\E n \in 1..MaxChunk : CallRead(n))
  \/ CallFlush \/ (\E s \in client.targets : CallPreBuffer(s))
  \/ SpuriousWakeup

(***************************************************************************)
(* A thread inside an operation is scheduled until it waits or returns,    *)
(* and the timer of the timed wait runs out.                               *)
(***************************************************************************)
Fairness == WF_vars(WriterStep) /\ WF_vars(ClientStep)

Spec == Init /\ [][Next]_vars /\ Fairness
-----------------------------------------------------------------------------
(* The stream of bytes that the ring stands for.                           *)
Contents == [k \in 1..DataSize |-> buf[Wrap(pdata + k - 1)]]

Queue == INSTANCE BoundedQueue WITH
           Capacity <- BufSize - 1,
           q        <- Contents,
           offers   <- IF AtTop \/ wpc = "relock1" THEN {chunk} ELSE {},
           takes    <- IF Reading THEN {want} ELSE {},
           drops    <- {},
           clearing <- (cpc = "flush")

(***************************************************************************)
(* Type correctness of the ring, of both threads' positions and of the     *)
(* waiter counters, each of which counts at most the one thread it serves. *)
(***************************************************************************)
TypeOK ==
  /\ pdata \in Cells /\ pempty \in Cells
  /\ buf \in [Cells -> Bytes \cup {Zero}]
  /\ dataNeeded \in 0..1 /\ freeNeeded \in 0..1
  /\ preBuffering \in BOOLEAN /\ preSize \in -1..BufSize
  /\ wpc \in {"idle", "top", "announce1", "relock1", "announce2", "relock2",
              "waiting", "woken", "notify"}
  /\ chunk \in Chunks \cup {<<>>}
  /\ sizes \in [first : 0..BufSize, second : 0..BufSize]
  /\ cpc \in {"idle", "read", "readWait", "readWoken", "readNotify", "flush",
              "pre", "preWait", "preWoken"}
  /\ want \in Nat
  /\ got \in Chunks \cup {<<>>}
  /\ client \in Profiles

(***************************************************************************)
(* The ring is a FIFO stream of at most BufSize - 1 bytes: each write      *)
(* enters whole, at the end, around the wrap of the pointers, and nothing  *)
(* else but a read or a flush changes it.  This includes the writes that   *)
(* go on with sizes computed before a pre-buffering window.                *)
(***************************************************************************)
ImplementsQueue == Queue!Spec

(***************************************************************************)
(* A read delivers, whole and in order, the oldest bytes of the stream.    *)
(***************************************************************************)
DeliversFront ==
  [][(Reading /\ cpc' = "readNotify") => got' = SubSeq(Contents, 1, want)]_vars

(***************************************************************************)
(* Each side sleeps only while what it waits for is missing, or while the  *)
(* other side is on its way to the broadcast that follows its unlock.      *)
(***************************************************************************)
ReaderSleepsForData ==
  cpc = "readWait" => (want > DataSize \/ wpc = "notify")
WriterSleepsForSpace ==
  wpc = "waiting" => (Len(chunk) > Total(EmptySizes) \/ cpc = "readNotify")

(***************************************************************************)
(* That holds of a client that never pre-buffers; of one that does, only   *)
(* the reader's half.                                                      *)
(***************************************************************************)
NoLostWakeup ==
  /\ ReaderSleepsForData
  /\ "pre_buffer" \notin client.ops => WriterSleepsForSpace

(***************************************************************************)
(* The writer is counted as waiting from the moment it decides to wait,    *)
(* through the window in which it is not yet on the condition, until it    *)
(* has the lock again; flush does not disturb the count.                   *)
(***************************************************************************)
WaiterCounted ==
  /\ freeNeeded = 1 <=> wpc \in {"announce2", "relock2", "waiting", "woken"}
  /\ dataNeeded = 1 <=> cpc \in {"readWait", "readWoken"}

(***************************************************************************)
(* A writer whose chunk has come to fit is woken in the end, by a          *)
(* broadcast and not by luck, if the client never pre-buffers.             *)
(***************************************************************************)
WriteReleased ==
  (wpc = "waiting" /\ Len(chunk) <= Total(EmptySizes) /\ "pre_buffer" \notin client.ops)
    ~> wpc # "waiting"
=============================================================================
