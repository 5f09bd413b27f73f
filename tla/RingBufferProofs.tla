-------------------------- MODULE RingBufferProofs --------------------------
(***************************************************************************)
(* Proofs about RingBuffer for every ring, every length of writes and      *)
(* reads and every set of profiles.                                        *)
(***************************************************************************)
EXTENDS RingBuffer, SequenceTheorems, TLAPS

Waiting == {"announce2", "relock2", "waiting", "woken"}
InPre   == {"pre", "preWait", "preWoken"}

(***************************************************************************)
(* What a thread inside a call has been given, and what the client does    *)
(* only with a profile that says so.                                       *)
(***************************************************************************)
CallsFit ==
  /\ wpc # "idle" => chunk \in Chunks
  /\ cpc \in {"read", "readWait", "readWoken"} => want \in 1..MaxChunk
  /\ cpc = "flush" => "flush" \in client.ops
  /\ cpc \in InPre => "pre_buffer" \in client.ops /\ want \in client.targets
  /\ preBuffering => cpc \in {"preWait", "preWoken"} /\ preSize = want
  /\ wpc \in {"announce1", "relock1", "announce2", "relock2"} => "pre_buffer" \in client.ops

(***************************************************************************)
(* Sizes e are good for a store: they promise no more than the room there  *)
(* is, and what goes to the start of the ring goes there because the end   *)
(* is reached.                                                             *)
(***************************************************************************)
Fits(e) ==
  /\ Total(e) <= BufSize - 1 - DataSize
  /\ pempty + e.first <= BufSize
  /\ e.second = 0 \/ pempty + e.first = BufSize

(***************************************************************************)
(* The sizes from before the unlock are still good; nothing is stored by   *)
(* them if the client may have flushed since.                              *)
(***************************************************************************)
SizesFit ==
  wpc \in {"announce1", "relock1"} =>
    /\ Fits(sizes)
    /\ "flush" \in client.ops => Total(sizes) = 0

\* Between the two pointers there is payload, and no byte of memset's.
PayloadOnly == \A k \in 0..(DataSize - 1) : buf[Wrap(pdata + k)] \in Bytes

Inv == TypeOK /\ CallsFit /\ WaiterCounted /\ SizesFit /\ PayloadOnly

-----------------------------------------------------------------------------
\* The sizes write computes leave one byte free, and are good when computed.
LEMMA SizesGood ==
  ASSUME TypeOK
  PROVE  /\ DataSize \in 0..(BufSize - 1)
         /\ EmptySizes \in [first : 0..BufSize, second : 0..BufSize]
         /\ Total(EmptySizes) = BufSize - 1 - DataSize
         /\ Fits(EmptySizes)
<1> USE SizeAssumption
<1>1. pdata \in 0..(BufSize - 1) /\ pempty \in 0..(BufSize - 1)
  BY DEF TypeOK, Cells
<1>2. CASE pdata <= pempty /\ pdata = 0
  BY <1>1, <1>2 DEF DataSize, EmptySizes, Total, Fits
<1>3. CASE pdata <= pempty /\ pdata # 0
  BY <1>1, <1>3 DEF DataSize, EmptySizes, Total, Fits
<1>4. CASE ~(pdata <= pempty)
  BY <1>1, <1>4 DEF DataSize, EmptySizes, Total, Fits
<1> QED BY <1>2, <1>3, <1>4

\* Where the bytes of the stream are.
LEMMA WrapIn ==
  ASSUME NEW i \in 0..(2 * BufSize - 1)
  PROVE  Wrap(i) \in Cells
BY SizeAssumption DEF Wrap, Cells

\* A chunk is a sequence of payload bytes.
LEMMA ChunksAreSeqs ==
  ASSUME NEW c \in Chunks
  PROVE  /\ c \in Seq(Bytes) /\ Len(c) \in 1..MaxChunk
         /\ \A k \in 1..Len(c) : c[k] \in Bytes
<1> USE SizeAssumption
<1>1. PICK n \in 1..MaxChunk : c \in [1..n -> Bytes]
  BY DEF Chunks
<1>2. c \in Seq(Bytes) /\ Len(c) = n
  BY <1>1, SeqDef, LenProperties
<1> QED BY <1>1, <1>2

(***************************************************************************)
(* A store by good sizes: the data grow by the chunk, which follows what   *)
(* was there; the terminating Zero lands in the byte that stays free.      *)
(***************************************************************************)
LEMMA StoreAppends ==
  ASSUME TypeOK, chunk \in Chunks, UNCHANGED pdata,
         NEW e \in [first : 0..BufSize, second : 0..BufSize],
         Fits(e), Total(e) >= Len(chunk), Store(e)
  PROVE  /\ pempty' \in Cells
         /\ buf' \in [Cells -> Bytes \cup {Zero}]
         /\ DataSize' = DataSize + Len(chunk)
         /\ \A k \in 0..(DataSize - 1) : buf'[Wrap(pdata + k)] = buf[Wrap(pdata + k)]
         /\ \A k \in 1..Len(chunk) : buf'[Wrap(pdata + DataSize + k - 1)] = chunk[k]
<1> USE SizeAssumption
<1> DEFINE n  == Len(chunk)
           n1 == IF n > e.first THEN e.first ELSE n
           n2 == n - n1
           end == Wrap(pempty + n1) + n2
<1>1. n \in 1..MaxChunk /\ \A k \in 1..n : chunk[k] \in Bytes
  BY ChunksAreSeqs
<1>2. /\ e.first \in 0..BufSize /\ e.second \in 0..BufSize
      /\ n <= e.first + e.second
      /\ e.first + e.second <= BufSize - 1 - DataSize
      /\ pempty + e.first <= BufSize
      /\ e.second = 0 \/ pempty + e.first = BufSize
  BY DEF Fits, Total
<1>3. pdata \in 0..(BufSize - 1) /\ pempty \in 0..(BufSize - 1)
  BY DEF TypeOK, Cells
<1>4. DataSize \in 0..(BufSize - 1)
  BY SizesGood
<1>5. /\ pempty' = end
      /\ buf' = [i \in Cells |->
                   IF i = end THEN Zero
                   ELSE IF i < n2 THEN chunk[n1 + i + 1]
                   ELSE IF pempty <= i /\ i < pempty + n1 THEN chunk[i - pempty + 1]
                   ELSE buf[i]]
  BY DEF Store
<1>6. /\ n1 \in 0..n /\ n2 \in 0..n /\ n1 + n2 = n
      /\ pempty + n1 <= BufSize
      /\ n2 = 0 \/ pempty + n1 = BufSize
      /\ n <= BufSize - 1 - DataSize
  BY <1>1, <1>2, <1>3, <1>4
<1> HIDE DEF n, n1, n2
<1>7. end \in Cells /\ end = Wrap(pempty + n)
  BY <1>1, <1>3, <1>4, <1>6 DEF Wrap, Cells
<1>8. pempty = Wrap(pdata + DataSize)
  BY <1>3 DEF DataSize, Wrap
<1>9. end = Wrap(pdata + DataSize + n)
  BY <1>1, <1>3, <1>4, <1>6, <1>7, <1>8 DEF Wrap
<1>10. DataSize' = DataSize + n
  BY <1>1, <1>3, <1>4, <1>5, <1>6, <1>7, <1>9 DEF DataSize, Wrap, Cells
<1>11. buf' \in [Cells -> Bytes \cup {Zero}]
  <2>1. \A i \in Cells : i < n2 => n1 + i + 1 \in 1..n
    BY <1>1, <1>6 DEF Cells
  <2>2. \A i \in Cells : pempty <= i /\ i < pempty + n1 => i - pempty + 1 \in 1..n
    BY <1>1, <1>3, <1>6 DEF Cells
  <2>3. \A i \in Cells : buf[i] \in Bytes \cup {Zero}
    BY DEF TypeOK
  <2> HIDE DEF end
  <2> QED BY <1>1, <1>5, <2>1, <2>2, <2>3 DEF n
<1>12. ASSUME NEW k \in 0..(DataSize - 1)
       PROVE  buf'[Wrap(pdata + k)] = buf[Wrap(pdata + k)]
  <2> DEFINE i == Wrap(pdata + k)
  <2>1. /\ i \in Cells /\ i # end /\ ~(i < n2)
        /\ ~(pempty <= i /\ i < pempty + n1)
    BY <1>1, <1>3, <1>4, <1>6, <1>8, <1>9 DEF Wrap, Cells
  <2> HIDE DEF i, end
  <2>2. buf'[i] = buf[i]
    BY <1>5, <2>1
  <2> QED BY <2>2 DEF i
<1>13. ASSUME NEW k \in 1..n
       PROVE  buf'[Wrap(pdata + DataSize + k - 1)] = chunk[k]
  <2> DEFINE i == Wrap(pdata + DataSize + k - 1)
  <2>1. CASE k <= n1
    <3>1. i = pempty + k - 1
      BY <1>1, <1>3, <1>4, <1>6, <1>8, <2>1 DEF Wrap
    <3>2. /\ i \in Cells /\ i # end /\ ~(i < n2)
          /\ pempty <= i /\ i < pempty + n1 /\ i - pempty + 1 = k
      BY <1>1, <1>3, <1>4, <1>6, <1>7, <2>1, <3>1 DEF Wrap, Cells
    <3> HIDE DEF i, end
    <3>3. buf'[i] = chunk[k]
      BY <1>5, <3>2
    <3> QED BY <3>3 DEF i
  <2>2. CASE k > n1
    <3>1. i = k - n1 - 1
      BY <1>1, <1>3, <1>4, <1>6, <1>8, <2>2 DEF Wrap
    <3>2. i \in Cells /\ i # end /\ i < n2 /\ n1 + i + 1 = k
      BY <1>1, <1>3, <1>4, <1>6, <1>7, <2>2, <3>1 DEF Wrap, Cells
    <3> HIDE DEF i, end
    <3>3. buf'[i] = chunk[k]
      BY <1>5, <3>2
    <3> QED BY <3>3 DEF i
  <2> QED BY <1>1, <1>6, <2>1, <2>2
<1> QED BY <1>5, <1>7, <1>10, <1>11, <1>12, <1>13 DEF n

-----------------------------------------------------------------------------
LEMMA InitInv == Init => Inv
<1> SUFFICES ASSUME Init PROVE Inv
  OBVIOUS
<1> USE SizeAssumption
<1>1. TypeOK
  <2>1. pdata \in Cells /\ pempty \in Cells
    BY DEF Init, Cells
  <2>2. buf \in [Cells -> Bytes \cup {Zero}]
    BY DEF Init
  <2>3. sizes \in [first : 0..BufSize, second : 0..BufSize]
    BY DEF Init, NoSizes
  <2>4. preBuffering \in BOOLEAN
    BY Zenon DEF Init
  <2>5. preSize \in -1..BufSize
    BY DEF Init
  <2> QED BY <2>1, <2>2, <2>3, <2>4, <2>5 DEF Init, TypeOK
<1>2. DataSize = 0
  BY DEF Init, DataSize
<1>3. CallsFit /\ WaiterCounted /\ SizesFit
  BY DEF Init, CallsFit, InPre, WaiterCounted, SizesFit
<1>4. PayloadOnly
  BY <1>2 DEF PayloadOnly
<1> QED BY <1>1, <1>3, <1>4 DEF Inv

\* The control state of both threads, and the counters.
LEMMA ControlKept ==
  ASSUME Inv, [Next]_vars
  PROVE  CallsFit' /\ WaiterCounted'
<1> USE SizeAssumption, ProfileAssumption DEF Inv
<1>1. CASE WriteTop
  BY <1>1
     DEF WriteTop, AtTop, Needed, Settle, CallsFit, WaiterCounted, InPre, TypeOK,
         prebuf, clientVars
<1>2. CASE WriteAnnounce
  BY <1>2
     DEF WriteAnnounce, AtTop, Needed, PreBufferDone, CallsFit, WaiterCounted, InPre,
         prebuf, clientVars
<1>3. CASE Broadcast
  BY <1>3 DEF Broadcast, CallsFit, WaiterCounted, InPre, counters, prebuf
<1>4. CASE WriteResume
  BY <1>4 DEF WriteResume, Settle, CallsFit, WaiterCounted, TypeOK, prebuf, clientVars
<1>5. CASE WriteWait
  BY <1>5 DEF WriteWait, CallsFit, WaiterCounted, counters, prebuf, clientVars
<1>6. CASE WriteNotify
  BY <1>6 DEF WriteNotify, CallsFit, WaiterCounted, InPre, counters, prebuf
<1>7. CASE ReadWait
  BY <1>7
     DEF ReadWait, Reading, ReaderUndone, CallsFit, WaiterCounted, InPre, TypeOK,
         prebuf, writerVars
<1>8. CASE ReadTake
  BY <1>8
     DEF ReadTake, Reading, ReaderUndone, CallsFit, WaiterCounted, InPre, prebuf,
         writerVars
<1>9. CASE ReadNotify
  BY <1>9 DEF ReadNotify, CallsFit, WaiterCounted, InPre, counters, prebuf
<1>10. CASE Flush
  BY <1>10 DEF Flush, CallsFit, WaiterCounted, InPre, counters, prebuf
<1>11. CASE PreBuffer
  BY <1>11 DEF PreBuffer, CallsFit, WaiterCounted, InPre, counters, writerVars
<1>12. CASE PreTimeout
  BY <1>12 DEF PreTimeout, CallsFit, WaiterCounted, InPre, counters, prebuf, writerVars
<1>13. CASE PreReturn
  BY <1>13 DEF PreReturn, CallsFit, WaiterCounted, InPre, counters, writerVars
<1>14. CASE CallFlush
  BY <1>14 DEF CallFlush, CallsFit, WaiterCounted, InPre, counters, prebuf, writerVars
<1>15. CASE SpuriousWakeup
  BY <1>15 DEF SpuriousWakeup, CallsFit, WaiterCounted, InPre, counters, prebuf
<1>16. ASSUME NEW c \in Chunks, CallWrite(c) PROVE CallsFit' /\ WaiterCounted'
  BY <1>16 DEF CallWrite, CallsFit, WaiterCounted, counters, prebuf, clientVars
<1>17. ASSUME NEW n \in 1..MaxChunk, CallRead(n) PROVE CallsFit' /\ WaiterCounted'
  BY <1>17 DEF CallRead, CallsFit, WaiterCounted, InPre, counters, prebuf, writerVars
<1>18. ASSUME NEW s \in client.targets, CallPreBuffer(s) PROVE CallsFit' /\ WaiterCounted'
  BY <1>18 DEF CallPreBuffer, CallsFit, WaiterCounted, counters, prebuf, writerVars
<1>19. CASE UNCHANGED vars
  BY <1>19 DEF CallsFit, WaiterCounted, counters, prebuf, writerVars, clientVars, vars
<1> QED
  BY <1>1, <1>2, <1>3, <1>4, <1>5, <1>6, <1>7, <1>8, <1>9, <1>10, <1>11, <1>12, <1>13,
     <1>14, <1>15, <1>16, <1>17, <1>18, <1>19
     DEF Next, WriterStep, ClientStep

-----------------------------------------------------------------------------
(***************************************************************************)
(* The settling half of a pass: by good sizes it stores the whole chunk,   *)
(* or it leaves the ring alone.                                            *)
(***************************************************************************)
LEMMA SettleKeeps ==
  ASSUME Inv, chunk \in Chunks, NEW needed,
         NEW e \in [first : 0..BufSize, second : 0..BufSize], Fits(e),
         Settle(e, needed)
  PROVE  /\ pdata' \in Cells /\ pempty' \in Cells
         /\ buf' \in [Cells -> Bytes \cup {Zero}]
         /\ sizes' = NoSizes
         /\ PayloadOnly'
<1> USE SizeAssumption DEF Inv
<1>1. CASE Total(e) < Len(chunk)
  <2>1. UNCHANGED ring /\ sizes' = NoSizes
    BY <1>1, ChunksAreSeqs DEF Settle, Total
  <2> QED
    BY <2>1 DEF ring, TypeOK, PayloadOnly, DataSize
<1>2. CASE Total(e) >= Len(chunk)
  <2>1. Store(e) /\ UNCHANGED pdata /\ sizes' = NoSizes
    BY <1>2, ChunksAreSeqs DEF Settle, Total
  <2>2. /\ pempty' \in Cells /\ buf' \in [Cells -> Bytes \cup {Zero}]
        /\ DataSize' = DataSize + Len(chunk)
        /\ \A k \in 0..(DataSize - 1) : buf'[Wrap(pdata + k)] = buf[Wrap(pdata + k)]
        /\ \A k \in 1..Len(chunk) : buf'[Wrap(pdata + DataSize + k - 1)] = chunk[k]
    BY <1>2, <2>1, StoreAppends
  <2>3. /\ DataSize \in Nat /\ Len(chunk) \in Nat
        /\ \A k \in 1..Len(chunk) : chunk[k] \in Bytes
    BY SizesGood, ChunksAreSeqs
  <2>4. ASSUME NEW k \in 0..(DataSize' - 1)
        PROVE  buf'[Wrap(pdata + k)] \in Bytes
    <3>1. CASE k <= DataSize - 1
      BY <2>2, <2>3, <3>1 DEF PayloadOnly
    <3>2. CASE k > DataSize - 1
      <4>1. k - DataSize + 1 \in 1..Len(chunk)
        BY <2>2, <2>3, <3>2
      <4>2. pdata + DataSize + (k - DataSize + 1) - 1 = pdata + k
        BY <2>3 DEF TypeOK, Cells
      <4> QED BY <2>2, <2>3, <4>1, <4>2
    <3> QED BY <2>3, <3>1, <3>2
  <2> QED BY <2>1, <2>2, <2>4 DEF PayloadOnly, TypeOK, Wrap
<1> QED
  BY <1>1, <1>2, ChunksAreSeqs DEF Total

\* What a read takes leaves the rest of the data where it was.
LEMMA TakeLeaves ==
  ASSUME Inv, ReadTake
  PROVE  /\ pdata' \in Cells /\ DataSize' = DataSize - want
         /\ \A k \in 0..(DataSize' - 1) : Wrap(pdata' + k) = Wrap(pdata + want + k)
         /\ got' \in Chunks
         /\ PayloadOnly'
<1> USE SizeAssumption DEF Inv
<1>1. want \in 1..MaxChunk /\ want <= DataSize /\ pdata' = Wrap(pdata + want)
      /\ UNCHANGED <<pempty, buf>>
  BY DEF ReadTake, Reading, CallsFit
<1>2. /\ pdata \in 0..(BufSize - 1) /\ pempty \in 0..(BufSize - 1)
      /\ DataSize \in 0..(BufSize - 1)
  BY SizesGood DEF TypeOK, Cells
<1>3. pdata' \in Cells /\ DataSize' = DataSize - want
  BY <1>1, <1>2 DEF DataSize, Wrap, Cells
<1>4. ASSUME NEW k \in 0..(DataSize' - 1)
      PROVE  Wrap(pdata' + k) = Wrap(pdata + want + k)
  BY <1>1, <1>2, <1>3 DEF Wrap
<1>5. got' \in [1..want -> Bytes]
  <2>1. \A k \in 1..want : k - 1 \in 0..(DataSize - 1) /\ pdata + k - 1 = pdata + (k - 1)
    BY <1>1, <1>2
  <2>2. \A k \in 1..want : buf[Wrap(pdata + k - 1)] \in Bytes
    BY <2>1 DEF PayloadOnly
  <2> QED BY <2>2 DEF ReadTake
<1>6. PayloadOnly'
  <2>1. \A k \in 0..(DataSize' - 1) :
          want + k \in 0..(DataSize - 1) /\ pdata + want + k = pdata + (want + k)
    BY <1>1, <1>2, <1>3
  <2>2. \A k \in 0..(DataSize' - 1) : buf[Wrap(pdata + want + k)] \in Bytes
    BY <2>1 DEF PayloadOnly
  <2>3. \A k \in 0..(DataSize' - 1) : buf'[Wrap(pdata' + k)] \in Bytes
    BY <1>1, <1>4, <2>2
  <2> QED BY <2>3 DEF PayloadOnly, Wrap
<1> QED BY <1>1, <1>3, <1>4, <1>5, <1>6 DEF Chunks

-----------------------------------------------------------------------------
\* Each counter counts one thread.
LEMMA CountersTyped ==
  ASSUME Inv, [Next]_vars
  PROVE  dataNeeded' \in 0..1 /\ freeNeeded' \in 0..1
BY DEF Inv, TypeOK, WaiterCounted, Next, WriterStep, ClientStep, Settle, AtTop, Needed,
       PreBufferDone, Reading, ReaderUndone, vars, counters, WriteTop, WriteAnnounce,
       Broadcast, WriteResume, WriteWait, WriteNotify, ReadWait, ReadTake, ReadNotify,
       Flush, PreBuffer, PreTimeout, PreReturn, CallFlush, SpuriousWakeup, CallWrite,
       CallRead, CallPreBuffer

\* The types, the remembered sizes and the payload.
LEMMA RingKept ==
  ASSUME Inv, [Next]_vars
  PROVE  TypeOK' /\ SizesFit' /\ PayloadOnly'
<1> USE SizeAssumption DEF Inv
<1>1. CASE WriteTop
  <2>1. /\ chunk \in Chunks /\ Fits(EmptySizes)
        /\ EmptySizes \in [first : 0..BufSize, second : 0..BufSize]
    BY <1>1, SizesGood DEF WriteTop, AtTop, CallsFit
  <2>2. /\ pdata' \in Cells /\ pempty' \in Cells
        /\ buf' \in [Cells -> Bytes \cup {Zero}]
        /\ sizes' = NoSizes /\ PayloadOnly'
    BY <1>1, <2>1, SettleKeeps DEF WriteTop
  <2>3. wpc' \in {"announce2", "waiting", "notify"}
    BY <1>1 DEF WriteTop, Settle
  <2>4. NoSizes \in [first : 0..BufSize, second : 0..BufSize]
    BY DEF NoSizes
  <2>5. TypeOK'
    BY <1>1, <2>2, <2>3, <2>4, CountersTyped DEF WriteTop, TypeOK, prebuf, clientVars
  <2>6. SizesFit'
    BY <2>3 DEF SizesFit
  <2> QED BY <2>2, <2>5, <2>6
<1>2. CASE WriteResume
  <2>1. /\ chunk \in Chunks /\ Fits(sizes)
        /\ sizes \in [first : 0..BufSize, second : 0..BufSize]
    BY <1>2 DEF WriteResume, CallsFit, SizesFit, TypeOK
  <2>2. /\ pdata' \in Cells /\ pempty' \in Cells
        /\ buf' \in [Cells -> Bytes \cup {Zero}]
        /\ sizes' = NoSizes /\ PayloadOnly'
    BY <1>2, <2>1, SettleKeeps DEF WriteResume
  <2>3. wpc' \in {"announce2", "waiting", "notify"}
    BY <1>2 DEF WriteResume, Settle
  <2>4. NoSizes \in [first : 0..BufSize, second : 0..BufSize]
    BY DEF NoSizes
  <2>5. TypeOK'
    BY <1>2, <2>2, <2>3, <2>4, CountersTyped DEF WriteResume, TypeOK, prebuf, clientVars
  <2>6. SizesFit'
    BY <2>3 DEF SizesFit
  <2> QED BY <2>2, <2>5, <2>6
<1>3. CASE WriteAnnounce
  <2>1. /\ Fits(EmptySizes) /\ EmptySizes \in [first : 0..BufSize, second : 0..BufSize]
        /\ Total(EmptySizes) = BufSize - 1 - DataSize /\ DataSize \in 0..(BufSize - 1)
    BY SizesGood
  <2>2. UNCHANGED ring /\ sizes' = EmptySizes /\ UNCHANGED <<prebuf, chunk, clientVars>>
    BY <1>3 DEF WriteAnnounce
  <2>3. Fits(EmptySizes)' <=> Fits(EmptySizes)
    BY <2>2 DEF Fits, EmptySizes, DataSize, ring
  <2>4. "flush" \in client.ops => Total(EmptySizes) = 0
    <3>1. preBuffering /\ BufSize - Total(EmptySizes) >= preSize
      BY <1>3 DEF WriteAnnounce, PreBufferDone
    <3>2. preSize \in client.targets
      BY <3>1 DEF CallsFit, InPre
    <3>3. "flush" \in client.ops => preSize = BufSize
      BY <3>2, ProfileAssumption DEF TypeOK
    <3> QED BY <2>1, <3>1, <3>3
  <2>5. SizesFit'
    BY <2>1, <2>2, <2>4 DEF SizesFit, Fits, DataSize, ring, clientVars
  <2>6. TypeOK'
    BY <1>3, <2>1, <2>2, CountersTyped
       DEF WriteAnnounce, TypeOK, ring, prebuf, clientVars
  <2> QED BY <2>2, <2>5, <2>6 DEF PayloadOnly, ring, DataSize, Wrap
<1>4. CASE ReadTake
  <2>1. /\ pdata' \in Cells /\ DataSize' = DataSize - want
        /\ got' \in Chunks /\ PayloadOnly'
    BY <1>4, TakeLeaves
  <2>2. want \in Nat /\ DataSize \in Nat
    BY SizesGood DEF TypeOK
  <2>3. SizesFit'
    <3>1. UNCHANGED <<pempty, sizes, wpc, client>>
      BY <1>4 DEF ReadTake, writerVars
    <3> QED BY <2>1, <2>2, <3>1 DEF SizesFit, Fits, Total, TypeOK
  <2>4. TypeOK'
    BY <1>4, <2>1, CountersTyped DEF ReadTake, TypeOK, prebuf, writerVars
  <2> QED BY <2>1, <2>3, <2>4
<1>5. CASE Flush
  <2>1. DataSize' = 0 /\ "flush" \in client.ops /\ UNCHANGED <<client, sizes>>
    BY <1>5 DEF Flush, DataSize, CallsFit
  <2>2. wpc' \in {"announce1", "relock1"} => wpc' = wpc
    BY <1>5 DEF Flush
  <2>3. SizesFit'
    BY <1>5, <2>1, <2>2 DEF Flush, SizesFit, Fits, Total, TypeOK
  <2>4. TypeOK'
    BY <1>5 DEF TypeOK, Cells, counters, prebuf
  <2> QED BY <2>1, <2>3, <2>4 DEF PayloadOnly
<1>6. CASE Broadcast
  BY <1>6, CountersTyped
     DEF Broadcast, TypeOK, SizesFit, PayloadOnly, Fits, DataSize, ring, prebuf
<1>7. CASE WriteWait
  BY <1>7, CountersTyped
     DEF WriteWait, TypeOK, SizesFit, PayloadOnly, DataSize, ring, prebuf, clientVars
<1>8. CASE WriteNotify
  BY <1>8, CountersTyped
     DEF WriteNotify, TypeOK, SizesFit, PayloadOnly, DataSize, ring, prebuf
<1>9. CASE ReadWait
  BY <1>9, CountersTyped
     DEF ReadWait, TypeOK, SizesFit, PayloadOnly, Fits, DataSize, ring, prebuf,
         writerVars
<1>10. CASE ReadNotify
  BY <1>10, CountersTyped
     DEF ReadNotify, TypeOK, SizesFit, PayloadOnly, Fits, DataSize, ring, prebuf
<1>11. CASE PreBuffer
  <2>1. want \in 0..BufSize
    BY <1>11, SizeAssumption DEF PreBuffer, CallsFit, InPre, TypeOK
  <2>2. preBuffering' \in BOOLEAN
    BY <1>11, Zenon DEF PreBuffer, TypeOK
  <2>3. preSize' \in -1..BufSize /\ want' \in Nat
    BY <1>11, <2>1 DEF PreBuffer
  <2> QED
    BY <1>11, <2>2, <2>3, CountersTyped
       DEF PreBuffer, TypeOK, SizesFit, PayloadOnly, Fits, DataSize, ring, writerVars
<1>12. CASE PreTimeout
  BY <1>12, CountersTyped
     DEF PreTimeout, TypeOK, SizesFit, PayloadOnly, Fits, DataSize, ring, prebuf,
         writerVars
<1>13. CASE PreReturn
  <2>1. preBuffering' \in BOOLEAN
    BY <1>13, Zenon DEF PreReturn
  <2>2. preSize' \in -1..BufSize
    BY <1>13 DEF PreReturn
  <2> QED
    BY <1>13, <2>1, <2>2, CountersTyped
       DEF PreReturn, TypeOK, SizesFit, PayloadOnly, Fits, DataSize, ring, writerVars
<1>14. CASE CallFlush
  BY <1>14, CountersTyped
     DEF CallFlush, TypeOK, SizesFit, PayloadOnly, Fits, DataSize, ring, prebuf,
         writerVars
<1>15. CASE SpuriousWakeup
  BY <1>15, CountersTyped
     DEF SpuriousWakeup, TypeOK, SizesFit, PayloadOnly, Fits, DataSize, ring, prebuf
<1>16. ASSUME NEW c \in Chunks, CallWrite(c) PROVE TypeOK' /\ SizesFit' /\ PayloadOnly'
  BY <1>16
     DEF CallWrite, TypeOK, SizesFit, PayloadOnly, DataSize, ring, counters, prebuf,
         clientVars
<1>17. ASSUME NEW n \in 1..MaxChunk, CallRead(n) PROVE TypeOK' /\ SizesFit' /\ PayloadOnly'
  BY <1>17
     DEF CallRead, TypeOK, SizesFit, PayloadOnly, Fits, DataSize, ring, counters,
         prebuf, writerVars
<1>18. ASSUME NEW s \in client.targets, CallPreBuffer(s)
       PROVE  TypeOK' /\ SizesFit' /\ PayloadOnly'
  BY <1>18
     DEF CallPreBuffer, TypeOK, SizesFit, PayloadOnly, Fits, DataSize, ring, counters,
         prebuf, writerVars
<1>19. CASE UNCHANGED vars
  BY <1>19
     DEF TypeOK, SizesFit, PayloadOnly, Fits, DataSize, ring, counters, prebuf,
         writerVars, clientVars, vars
<1> QED
  BY <1>1, <1>2, <1>3, <1>4, <1>5, <1>6, <1>7, <1>8, <1>9, <1>10, <1>11, <1>12, <1>13,
     <1>14, <1>15, <1>16, <1>17, <1>18, <1>19
     DEF Next, WriterStep, ClientStep

-----------------------------------------------------------------------------
LEMMA Invariance == Spec => []Inv
<1>1. Inv /\ [Next]_vars => Inv'
  <2> SUFFICES ASSUME Inv, [Next]_vars PROVE Inv'
    OBVIOUS
  <2> QED BY ControlKept, RingKept DEF Inv
<1> QED
  BY InitInv, <1>1, PTL DEF Spec

(***************************************************************************)
(* The ring, the counters and both threads' positions keep their types,    *)
(* also through the windows in which write has left the lock: the sizes it *)
(* goes on with cannot put a pointer outside the ring.                     *)
(***************************************************************************)
THEOREM RingTypeCorrect == Spec => []TypeOK
<1>1. Inv => TypeOK
  BY DEF Inv
<1> QED BY <1>1, Invariance, PTL

(***************************************************************************)
(* m_free_needed and m_data_needed are 1 exactly while the writer, or the  *)
(* reader, has counted itself as waiting.                                  *)
(***************************************************************************)
THEOREM CountersRight == Spec => []WaiterCounted
<1>1. Inv => WaiterCounted
  BY DEF Inv
<1> QED BY <1>1, Invariance, PTL

-----------------------------------------------------------------------------
\* Without pre-buffering, write never leaves the lock but to wait or to return.
LEMMA WakeupsKept ==
  ASSUME Inv, NoLostWakeup, [Next]_vars
  PROVE  NoLostWakeup'
<1> USE SizeAssumption DEF Inv
<1>0. DataSize \in 0..(BufSize - 1) /\ Total(EmptySizes) = BufSize - 1 - DataSize
  BY SizesGood
<1>1. CASE WriteTop
  BY <1>1
     DEF WriteTop, AtTop, Settle, NoLostWakeup, ReaderSleepsForData,
         WriterSleepsForSpace, DataSize, EmptySizes, ring, clientVars
<1>2. CASE WriteAnnounce
  BY <1>2
     DEF WriteAnnounce, PreBufferDone, NoLostWakeup, ReaderSleepsForData,
         WriterSleepsForSpace, CallsFit, clientVars
<1>3. CASE Broadcast
  BY <1>3
     DEF Broadcast, NoLostWakeup, ReaderSleepsForData, WriterSleepsForSpace, DataSize,
         ring
<1>4. CASE WriteResume
  BY <1>4
     DEF WriteResume, Settle, NoLostWakeup, ReaderSleepsForData, CallsFit, DataSize,
         ring, clientVars
<1>5. CASE WriteWait
  BY <1>5
     DEF WriteWait, NoLostWakeup, ReaderSleepsForData, CallsFit, DataSize, ring,
         clientVars
<1>6. CASE WriteNotify
  BY <1>6
     DEF WriteNotify, NoLostWakeup, ReaderSleepsForData, WriterSleepsForSpace,
         WaiterCounted
<1>7. CASE ReadWait
  BY <1>7
     DEF ReadWait, Reading, NoLostWakeup, ReaderSleepsForData, WriterSleepsForSpace,
         DataSize, EmptySizes, ring, writerVars
<1>8. CASE ReadTake
  BY <1>8 DEF ReadTake, NoLostWakeup, ReaderSleepsForData, WriterSleepsForSpace
<1>9. CASE ReadNotify
  BY <1>9
     DEF ReadNotify, NoLostWakeup, ReaderSleepsForData, WriterSleepsForSpace,
         WaiterCounted
<1>10. CASE Flush
  BY <1>10
     DEF Flush, NoLostWakeup, ReaderSleepsForData, WriterSleepsForSpace, WaiterCounted
<1>11. CASE PreBuffer
  BY <1>11 DEF PreBuffer, NoLostWakeup, ReaderSleepsForData, CallsFit, InPre
<1>12. CASE PreTimeout
  BY <1>12 DEF PreTimeout, NoLostWakeup, ReaderSleepsForData, CallsFit, InPre
<1>13. CASE PreReturn
  BY <1>13 DEF PreReturn, NoLostWakeup, ReaderSleepsForData, CallsFit, InPre
<1>14. CASE CallFlush
  BY <1>14
     DEF CallFlush, NoLostWakeup, ReaderSleepsForData, WriterSleepsForSpace, EmptySizes,
         ring, writerVars
<1>15. CASE SpuriousWakeup
  BY <1>15
     DEF SpuriousWakeup, NoLostWakeup, ReaderSleepsForData, WriterSleepsForSpace,
         DataSize, EmptySizes, ring
<1>16. ASSUME NEW c \in Chunks, CallWrite(c) PROVE NoLostWakeup'
  BY <1>16
     DEF CallWrite, NoLostWakeup, ReaderSleepsForData, WriterSleepsForSpace, DataSize,
         ring, clientVars
<1>17. ASSUME NEW n \in 1..MaxChunk, CallRead(n) PROVE NoLostWakeup'
  BY <1>17
     DEF CallRead, NoLostWakeup, ReaderSleepsForData, WriterSleepsForSpace, EmptySizes,
         ring, writerVars
<1>18. ASSUME NEW s \in client.targets, CallPreBuffer(s) PROVE NoLostWakeup'
  BY <1>18 DEF CallPreBuffer, NoLostWakeup, ReaderSleepsForData
<1>19. CASE UNCHANGED vars
  BY <1>19
     DEF NoLostWakeup, ReaderSleepsForData, WriterSleepsForSpace, DataSize, EmptySizes,
         ring, writerVars, clientVars, vars
<1> QED
  BY <1>1, <1>2, <1>3, <1>4, <1>5, <1>6, <1>7, <1>8, <1>9, <1>10, <1>11, <1>12, <1>13,
     <1>14, <1>15, <1>16, <1>17, <1>18, <1>19
     DEF Next, WriterStep, ClientStep

(***************************************************************************)
(* No broadcast is lost between the two sides: the reader never sleeps     *)
(* with its bytes in the ring, and the writer never with room for its      *)
(* chunk unless the client pre-buffers, except while the other side is     *)
(* between its unlock and its broadcast.                                   *)
(***************************************************************************)
THEOREM NobodyOversleeps == Spec => []NoLostWakeup
<1>1. Init => NoLostWakeup
  BY DEF Init, NoLostWakeup, ReaderSleepsForData, WriterSleepsForSpace
<1>2. Inv /\ NoLostWakeup /\ [Next]_vars => NoLostWakeup'
  BY WakeupsKept
<1> QED
  BY <1>1, <1>2, Invariance, PTL DEF Spec

-----------------------------------------------------------------------------
\* The stream is a sequence of payload bytes, as long as the data.
StreamFits ==
  /\ Contents \in Seq(Bytes) /\ Len(Contents) = DataSize
  /\ \A k \in 1..DataSize : Contents[k] = buf[Wrap(pdata + k - 1)]

LEMMA StreamTyped == Inv => StreamFits
<1> SUFFICES ASSUME Inv PROVE StreamFits
  OBVIOUS
<1> USE SizeAssumption DEF Inv
<1>1. DataSize \in Nat
  BY SizesGood
<1>2. \A k \in 1..DataSize :
        k - 1 \in 0..(DataSize - 1) /\ pdata + k - 1 = pdata + (k - 1)
  BY <1>1
<1>3. \A k \in 1..DataSize : buf[Wrap(pdata + k - 1)] \in Bytes
  BY <1>2 DEF PayloadOnly
<1>4. Contents \in [1..DataSize -> Bytes]
  BY <1>3 DEF Contents
<1>5. Contents \in Seq(Bytes)
  BY <1>1, <1>4, SeqDef
<1> QED BY <1>1, <1>4, <1>5, LenProperties DEF Contents, StreamFits

\* Only ReadTake brings the client to its notification.
LEMMA OnlyTakeDelivers ==
  ASSUME Inv, [Next]_vars, Reading, cpc' = "readNotify"
  PROVE  ReadTake
BY 
   DEF Reading, vars, clientVars, Next, WriterStep, ClientStep, WriteTop, WriteAnnounce,
       Broadcast, WriteResume, WriteWait, WriteNotify, ReadWait, ReadNotify, Flush,
       PreBuffer, PreTimeout, PreReturn, CallFlush, SpuriousWakeup, CallWrite, CallRead,
       CallPreBuffer

(***************************************************************************)
(* Every read delivers the oldest bytes of the stream, whole and in order, *)
(* whether or not they lie around the end of the ring.                     *)
(***************************************************************************)
THEOREM ReadsDeliverFront == Spec => DeliversFront
<1>1. ASSUME Inv, [Next]_vars, Reading, cpc' = "readNotify"
      PROVE  got' = SubSeq(Contents, 1, want)
  <2>1. ReadTake
    BY <1>1, OnlyTakeDelivers
  <2>2. want \in 1..DataSize /\ DataSize \in Nat
    BY <1>1, <2>1, SizesGood DEF Inv, CallsFit, Reading, ReadTake
  <2>3. got' = [k \in 1..want |-> buf[Wrap(pdata + k - 1)]]
    BY <2>1 DEF ReadTake
  <2>4. /\ SubSeq(Contents, 1, want) \in Seq(Bytes)
        /\ Len(SubSeq(Contents, 1, want)) = want
        /\ \A k \in 1..want : SubSeq(Contents, 1, want)[k] = Contents[k]
    <3>1. \A i \in 1..want : Contents[i] \in Bytes
      BY <1>1, <2>2, StreamTyped, ElementOfSeq DEF StreamFits
    <3>2. /\ SubSeq(Contents, 1, want) \in Seq(Bytes)
          /\ Len(SubSeq(Contents, 1, want)) = IF 1 <= want THEN want - 1 + 1 ELSE 0
          /\ \A k \in 1..(want - 1 + 1) : SubSeq(Contents, 1, want)[k] = Contents[1 + k - 1]
      BY <2>2, <3>1, SubSeqProperties
    <3> QED BY <2>2, <3>2
  <2>5. SubSeq(Contents, 1, want) = [k \in 1..want |-> SubSeq(Contents, 1, want)[k]]
    BY <2>2, <2>4, LenProperties
  <2>6. \A k \in 1..want : SubSeq(Contents, 1, want)[k] = buf[Wrap(pdata + k - 1)]
    BY <1>1, <2>2, <2>4, StreamTyped DEF StreamFits
  <2> HIDE DEF Contents
  <2> QED BY <2>3, <2>5, <2>6
<1>2. Inv /\ [Next]_vars
        => [(Reading /\ cpc' = "readNotify") => got' = SubSeq(Contents, 1, want)]_vars
  BY <1>1
<1> QED
  BY <1>2, Invariance, PTL DEF Spec, DeliversFront

-----------------------------------------------------------------------------
\* A store appends the chunk to the stream.
LEMMA StoreIsPut ==
  ASSUME Inv, StreamFits', chunk \in Chunks, UNCHANGED pdata,
         NEW e \in [first : 0..BufSize, second : 0..BufSize],
         Fits(e), Total(e) >= Len(chunk), Store(e)
  PROVE  Contents' = Contents \o chunk /\ Len(Contents) + Len(chunk) <= BufSize - 1
<1> USE SizeAssumption
<1> DEFINE s == Contents
           c == chunk
           u == Contents'
<1>1. /\ DataSize \in 0..(BufSize - 1)
      /\ Len(c) \in Nat /\ c \in Seq(Bytes)
  BY SizesGood, ChunksAreSeqs DEF Inv
<1>2. /\ s \in Seq(Bytes) /\ Len(s) = DataSize
      /\ \A k \in 1..DataSize : s[k] = buf[Wrap(pdata + k - 1)]
  BY StreamTyped DEF StreamFits
<1>3. /\ DataSize' = DataSize + Len(c)
      /\ \A k \in 0..(DataSize - 1) : buf'[Wrap(pdata + k)] = buf[Wrap(pdata + k)]
      /\ \A k \in 1..Len(c) : buf'[Wrap(pdata + DataSize + k - 1)] = c[k]
  BY StoreAppends DEF Inv
<1>4. /\ u \in Seq(Bytes) /\ Len(u) = DataSize + Len(c)
      /\ \A k \in 1..(DataSize + Len(c)) : u[k] = buf'[Wrap(pdata + k - 1)]
  <2>1. /\ u \in Seq(Bytes) /\ Len(u) = DataSize'
        /\ \A k \in 1..DataSize' : u[k] = buf'[Wrap(pdata' + k - 1)]
    BY DEF StreamFits
  <2> QED BY <1>3, <2>1
<1> DEFINE w == s \o c
<1> HIDE DEF s, c, u
<1>5. /\ w \in Seq(Bytes) /\ Len(w) = DataSize + Len(c)
      /\ \A k \in 1..(DataSize + Len(c)) :
           w[k] = IF k <= DataSize THEN s[k] ELSE c[k - DataSize]
  BY <1>1, <1>2, ConcatProperties
<1> HIDE DEF w
<1>6. ASSUME NEW k \in 1..(DataSize + Len(c)) PROVE u[k] = w[k]
  <2>1. pdata \in Nat
    BY DEF Inv, TypeOK, Cells
  <2>2. CASE k <= DataSize
    <3>1. k - 1 \in 0..(DataSize - 1) /\ pdata + k - 1 = pdata + (k - 1)
      BY <1>1, <2>1, <2>2
    <3>2. buf'[Wrap(pdata + k - 1)] = buf[Wrap(pdata + k - 1)]
      BY <1>3, <3>1
    <3>3. u[k] = buf'[Wrap(pdata + k - 1)]
      BY <1>4
    <3>4. s[k] = buf[Wrap(pdata + k - 1)]
      BY <1>1, <1>2, <2>2
    <3>5. w[k] = s[k]
      BY <1>1, <1>5, <2>2
    <3> QED BY <3>2, <3>3, <3>4, <3>5
  <2>3. CASE k > DataSize
    <3>1. /\ k - DataSize \in 1..Len(c)
          /\ pdata + k - 1 = pdata + DataSize + (k - DataSize) - 1
      BY <1>1, <2>1, <2>3
    <3>2. buf'[Wrap(pdata + k - 1)] = c[k - DataSize]
      BY <1>3, <3>1
    <3>3. u[k] = buf'[Wrap(pdata + k - 1)]
      BY <1>4
    <3>4. w[k] = c[k - DataSize]
      BY <1>1, <1>5, <2>3
    <3> QED BY <3>2, <3>3, <3>4
  <2> QED BY <1>1, <2>2, <2>3
<1>7. u = w
  BY <1>1, <1>4, <1>5, <1>6, SeqEqual
<1>8. Len(c) <= BufSize - 1 - DataSize
  BY <1>1 DEF Fits, Total, c
<1> QED BY <1>1, <1>2, <1>7, <1>8 DEF s, c, u, w

\* A read removes the oldest bytes of the stream.
LEMMA ReadIsTake ==
  ASSUME Inv, StreamFits', ReadTake
  PROVE  want <= Len(Contents) /\ Contents' = SubSeq(Contents, want + 1, Len(Contents))
<1> USE SizeAssumption
<1> DEFINE s == Contents
           t == SubSeq(s, want + 1, DataSize)
           u == Contents'
<1>1. /\ want \in 1..MaxChunk /\ want <= DataSize /\ DataSize \in 0..(BufSize - 1)
      /\ pdata \in Nat /\ UNCHANGED buf
  BY SizesGood DEF Inv, CallsFit, Reading, ReadTake, TypeOK, Cells
<1>2. /\ s \in Seq(Bytes) /\ Len(s) = DataSize
      /\ \A k \in 1..DataSize : s[k] = buf[Wrap(pdata + k - 1)]
  BY StreamTyped DEF StreamFits
<1>3. /\ DataSize' = DataSize - want
      /\ \A k \in 0..(DataSize' - 1) : Wrap(pdata' + k) = Wrap(pdata + want + k)
      /\ pdata' \in Nat
  BY TakeLeaves DEF Cells
<1>4. /\ u \in Seq(Bytes) /\ Len(u) = DataSize - want
      /\ \A k \in 1..(DataSize - want) : u[k] = buf[Wrap(pdata' + k - 1)]
  <2>1. /\ u \in Seq(Bytes) /\ Len(u) = DataSize'
        /\ \A k \in 1..DataSize' : u[k] = buf'[Wrap(pdata' + k - 1)]
    BY DEF StreamFits
  <2> QED BY <1>1, <1>3, <2>1
<1>5. /\ t \in Seq(Bytes) /\ Len(t) = DataSize - want
      /\ \A k \in 1..(DataSize - want) : t[k] = s[want + k]
  <2>1. \A i \in (want + 1)..DataSize : s[i] \in Bytes
    BY <1>1, <1>2, ElementOfSeq
  <2>2. /\ t \in Seq(Bytes)
        /\ Len(t) = IF want + 1 <= DataSize THEN DataSize - (want + 1) + 1 ELSE 0
        /\ \A k \in 1..(DataSize - (want + 1) + 1) : t[k] = s[want + 1 + k - 1]
    BY <1>1, <2>1, SubSeqProperties
  <2> QED BY <1>1, <2>2
<1> HIDE DEF s, t, u
<1>6. ASSUME NEW k \in 1..(DataSize - want) PROVE u[k] = t[k]
  <2>1. k - 1 \in 0..(DataSize' - 1) /\ pdata' + k - 1 = pdata' + (k - 1)
    BY <1>1, <1>3
  <2>2. Wrap(pdata' + k - 1) = Wrap(pdata + want + (k - 1))
    BY <1>3, <2>1
  <2>3. want + k \in 1..DataSize /\ pdata + want + (k - 1) = pdata + (want + k) - 1
    BY <1>1
  <2> QED BY <1>2, <1>4, <1>5, <2>2, <2>3
<1>7. u = t
  BY <1>1, <1>4, <1>5, <1>6, SeqEqual
<1> QED BY <1>1, <1>2, <1>7 DEF s, t, u

\* Every step is one of the abstract queue's, or leaves it alone.
LEMMA StepRefines ==
  ASSUME Inv, StreamFits', [Next]_vars
  PROVE  [Queue!Next]_Contents
<1> USE SizeAssumption
<1>1. ASSUME UNCHANGED ring PROVE UNCHANGED Contents
  BY <1>1 DEF ring, Contents, DataSize
<1>2. ASSUME chunk \in Chunks, AtTop \/ wpc = "relock1",
             NEW e \in [first : 0..BufSize, second : 0..BufSize], Fits(e),
             NEW needed, Settle(e, needed)
      PROVE  [Queue!Next]_Contents
  <2>1. CASE UNCHANGED ring
    BY <1>1, <2>1
  <2>2. CASE Total(e) >= Len(chunk) /\ Store(e) /\ UNCHANGED pdata
    <3>1. Contents' = Contents \o chunk /\ Len(Contents) + Len(chunk) <= BufSize - 1
      BY <1>2, <2>2, StoreIsPut
    <3> QED BY <1>2, <3>1 DEF Queue!Next, Queue!Put
  <2> QED BY <1>2, <2>1, <2>2 DEF Settle
<1>3. CASE WriteTop
  BY <1>2, <1>3, SizesGood DEF WriteTop, AtTop, Inv, CallsFit
<1>4. CASE WriteResume
  BY <1>2, <1>4 DEF WriteResume, Inv, CallsFit, SizesFit, TypeOK
<1>5. CASE ReadTake
  <2>1. Queue!TakeFront
    BY <1>5, ReadIsTake DEF Queue!TakeFront, ReadTake
  <2> QED BY <2>1 DEF Queue!Next
<1>6. CASE Flush
  <2>1. DataSize' = 0
    BY <1>6 DEF Flush, DataSize
  <2>2. Contents' \in Seq(Bytes) /\ Len(Contents') = DataSize'
    BY DEF StreamFits
  <2>3. Contents' = <<>>
    BY <2>1, <2>2, EmptySeq
  <2>4. cpc = "flush"
    BY <1>6 DEF Flush
  <2> QED BY <2>3, <2>4 DEF Queue!Next, Queue!Clear
<1>7. CASE UNCHANGED ring
  BY <1>1, <1>7
<1>8. WriteTop \/ WriteResume \/ ReadTake \/ Flush \/ UNCHANGED ring
  BY 
     DEF vars, Next, WriterStep, ClientStep, WriteAnnounce, Broadcast, WriteWait,
         WriteNotify, ReadWait, ReadNotify, PreBuffer, PreTimeout, PreReturn, CallFlush,
         SpuriousWakeup, CallWrite, CallRead, CallPreBuffer
<1> QED BY <1>3, <1>4, <1>5, <1>6, <1>7, <1>8

(***************************************************************************)
(* The ring is a first-in first-out stream of at most BufSize - 1 bytes,   *)
(* for every size: writes enter whole at its end, reads leave at its       *)
(* front, and nothing but a flush discards, whatever the client did while  *)
(* write was out of the lock.                                              *)
(***************************************************************************)
THEOREM RingIsQueue == Spec => ImplementsQueue
<1>1. Init => Queue!Init
  <2> SUFFICES ASSUME Init PROVE Contents = <<>>
    BY DEF Queue!Init
  <2>1. DataSize = 0 /\ Inv
    BY InitInv DEF Init, DataSize
  <2>2. Contents \in Seq(Bytes) /\ Len(Contents) = 0
    BY <2>1, StreamTyped DEF StreamFits
  <2> QED BY <2>2, EmptySeq
<1>2. Inv /\ StreamFits' /\ [Next]_vars => [Queue!Next]_Contents
  BY StepRefines
<1> QED
  BY <1>1, <1>2, StreamTyped, Invariance, PTL DEF Spec, ImplementsQueue, Queue!Spec
=============================================================================
