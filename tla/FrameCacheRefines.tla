-------------------------- MODULE FrameCacheRefines --------------------------
(***************************************************************************)
(* The proof that frame_cache_c implements BoundedQueue, for every number  *)
(* of threads and slots: the initial states map to an empty queue, and     *)
(* every step of a thread to an operation some caller asks for, or to a    *)
(* stuttering step.                                                        *)
(***************************************************************************)
EXTENDS FrameCacheProofs, SequenceTheorems

\* What a slot may hold.
Records == Frames \cup {NoFrame}

\* The records in the ring are a sequence, and each is that of its slot.
ContentsFit ==
  /\ Contents \in Seq(Records)
  /\ Len(Contents) = NumFrame
  /\ \A k \in 1..NumFrame : Contents[k] = cache[SlotOf(k - 1)]

LEMMA TypedContents == TypeOK => ContentsFit
<1> SUFFICES ASSUME TypeOK PROVE ContentsFit
  OBVIOUS
<1>1. NumFrame \in Nat
  BY SizesAddUp
<1>2. \A k \in 1..NumFrame : SlotOf(k - 1) \in Slots
  BY SizesAddUp, DataAssumption DEF TypeOK, SlotOf, Slots
<1>3. Contents \in [1..NumFrame -> Records]
  BY <1>2 DEF Contents, TypeOK, Records
<1>4. Contents \in Seq(Records)
  BY <1>1, <1>3, SeqDef
<1>5. Len(Contents) = NumFrame
  BY <1>1, <1>3, <1>4, LenProperties
<1> QED BY <1>4, <1>5 DEF Contents, ContentsFit

\* push_back appends the record of its caller.
LEMMA PushAppends ==
  ASSUME TypeOK, ContentsFit, ContentsFit', NEW p \in Producers, PushStore(p)
  PROVE  Contents' = Contents \o <<arg[p]>>
<1> USE DataAssumption
<1> DEFINE s == Contents
           t == <<arg[p]>>
           u == Contents'
<1>1. t \in Seq(Records) /\ Len(t) = 1 /\ t[1] = arg[p]
  BY DEF TypeOK, Records
<1>2. NumFrame \in Nat /\ NumFrame' = NumFrame + 1 /\ NumFrame < Size - 1
  BY SizesAddUp DEF PushStore, TypeOK, Slots, NumFrame, NumSpace, Succ
<1>3. \A k \in 1..NumFrame : SlotOf(k - 1)' = SlotOf(k - 1) /\ SlotOf(k - 1) # head
  BY <1>2 DEF PushStore, TypeOK, Slots, NumFrame, SlotOf
<1>4. \A n \in Nat : n = NumFrame => SlotOf(n)' = head
  BY DEF PushStore, TypeOK, Slots, NumFrame, NumSpace, SlotOf, Succ
<1>5. /\ s \in Seq(Records) /\ Len(s) = NumFrame
      /\ u \in Seq(Records) /\ Len(u) = NumFrame + 1
  BY <1>2 DEF ContentsFit
<1>6. /\ s \o t \in Seq(Records) /\ Len(s \o t) = NumFrame + 1
      /\ \A k \in 1..(NumFrame + 1) : (s \o t)[k] = IF k <= NumFrame THEN s[k] ELSE arg[p]
  BY <1>1, <1>2, <1>5, ConcatProperties
<1>7. cache' = [cache EXCEPT ![head] = arg[p]] /\ cache \in [Slots -> Records] /\ head \in Slots
  BY DEF PushStore, TypeOK, Records
<1>8. ASSUME NEW k \in 1..(NumFrame + 1) PROVE u[k] = (s \o t)[k]
  <2>1. u[k] = cache'[SlotOf(k - 1)']
    BY <1>2 DEF ContentsFit
  <2>2. CASE k <= NumFrame
    <3>1. SlotOf(k - 1)' = SlotOf(k - 1) /\ SlotOf(k - 1) # head /\ SlotOf(k - 1) \in Slots
      BY <1>2, <1>3, <2>2 DEF SlotOf, TypeOK, Slots
    <3>2. s[k] = cache[SlotOf(k - 1)]
      BY <1>2, <2>2 DEF ContentsFit
    <3> QED BY <1>6, <1>7, <2>1, <2>2, <3>1, <3>2
  <2>3. CASE ~(k <= NumFrame)
    <3>1. k = NumFrame + 1 /\ k - 1 = NumFrame
      BY <1>2, <2>3
    <3>2. SlotOf(k - 1)' = head
      BY <1>2, <1>4, <3>1
    <3>3. u[k] = cache'[head]
      BY <2>1, <3>2
    <3> QED BY <1>6, <1>7, <2>3, <3>3
  <2> QED BY <2>2, <2>3
<1> HIDE DEF s, t, u
<1>9. u = s \o t
  BY <1>2, <1>5, <1>6, <1>8, SeqEqual
<1> QED BY <1>9 DEF s, t, u

\* pop_front removes the oldest record.
LEMMA PopFrontTakes ==
  ASSUME TypeOK, ContentsFit, ContentsFit', NEW c \in Consumers, PopFront(c)
  PROVE  Len(Contents) >= 1 /\ Contents' = SubSeq(Contents, 2, Len(Contents))
<1> USE DataAssumption
<1> DEFINE s == Contents
           t == SubSeq(s, 2, NumFrame)
           u == Contents'
<1>1. NumFrame \in Nat /\ NumFrame >= 1 /\ NumFrame <= Size - 1 /\ NumFrame' = NumFrame - 1
  BY SizesAddUp DEF PopFront, TypeOK, Slots, NumFrame, Succ
<1>2. \A k \in 1..(NumFrame - 1) :
        SlotOf(k - 1)' = SlotOf(k) /\ SlotOf(k) # tail /\ SlotOf(k) \in Slots
  BY <1>1 DEF PopFront, TypeOK, Slots, NumFrame, SlotOf, Succ
<1>3. s \in Seq(Records) /\ Len(s) = NumFrame /\ u \in Seq(Records) /\ Len(u) = NumFrame - 1
  BY <1>1 DEF ContentsFit
<1>4. /\ t \in Seq(Records) /\ Len(t) = NumFrame - 1
      /\ \A k \in 1..(NumFrame - 1) : t[k] = s[k + 1]
  <2>1. \A i \in 2..NumFrame : s[i] \in Records
    BY <1>1, <1>3, ElementOfSeq
  <2>2. /\ t \in Seq(Records) /\ Len(t) = IF 2 <= NumFrame THEN NumFrame - 2 + 1 ELSE 0
        /\ \A k \in 1..(NumFrame - 2 + 1) : t[k] = s[2 + k - 1]
    BY <1>1, <2>1, SubSeqProperties
  <2> QED BY <1>1, <2>2
<1>5. cache' = [cache EXCEPT ![tail] = NoFrame] /\ cache \in [Slots -> Records]
  BY DEF PopFront, TypeOK, Records
<1>6. ASSUME NEW k \in 1..(NumFrame - 1) PROVE u[k] = t[k]
  <2>1. u[k] = cache'[SlotOf(k - 1)']
    BY <1>1 DEF ContentsFit
  <2>2. s[k + 1] = cache[SlotOf(k)]
    BY <1>1 DEF ContentsFit
  <2> QED BY <1>2, <1>4, <1>5, <2>1, <2>2
<1> HIDE DEF s, t, u
<1>7. u = t
  BY <1>1, <1>3, <1>4, <1>6, SeqEqual
<1> QED BY <1>1, <1>3, <1>7 DEF s, t, u

\* pop_back removes the newest record.
LEMMA PopBackDrops ==
  ASSUME TypeOK, ContentsFit, ContentsFit', NEW c \in Consumers, PopBack(c)
  PROVE  Len(Contents) >= 1 /\ Contents' = SubSeq(Contents, 1, Len(Contents) - 1)
<1> USE DataAssumption
<1> DEFINE s == Contents
           t == SubSeq(s, 1, NumFrame - 1)
           u == Contents'
<1>1. NumFrame \in Nat /\ NumFrame >= 1 /\ NumFrame <= Size - 1 /\ NumFrame' = NumFrame - 1
  BY SizesAddUp DEF PopBack, TypeOK, Slots, NumFrame, Pred
<1>2. \A k \in 1..(NumFrame - 1) :
        /\ SlotOf(k - 1)' = SlotOf(k - 1) /\ SlotOf(k - 1) # Pred(head)
        /\ SlotOf(k - 1) \in Slots
  BY <1>1 DEF PopBack, TypeOK, Slots, NumFrame, SlotOf, Pred
<1>3. s \in Seq(Records) /\ Len(s) = NumFrame /\ u \in Seq(Records) /\ Len(u) = NumFrame - 1
  BY <1>1 DEF ContentsFit
<1>4. /\ t \in Seq(Records) /\ Len(t) = NumFrame - 1
      /\ \A k \in 1..(NumFrame - 1) : t[k] = s[k]
  <2>1. \A i \in 1..(NumFrame - 1) : s[i] \in Records
    BY <1>1, <1>3, ElementOfSeq
  <2>2. /\ t \in Seq(Records)
        /\ Len(t) = IF 1 <= NumFrame - 1 THEN NumFrame - 1 - 1 + 1 ELSE 0
        /\ \A k \in 1..(NumFrame - 1 - 1 + 1) : t[k] = s[1 + k - 1]
    BY <1>1, <2>1, SubSeqProperties
  <2> QED BY <1>1, <2>2
<1>5. cache' = [cache EXCEPT ![Pred(head)] = NoFrame] /\ cache \in [Slots -> Records]
  BY DEF PopBack, TypeOK, Records
<1>6. ASSUME NEW k \in 1..(NumFrame - 1) PROVE u[k] = t[k]
  <2>1. u[k] = cache'[SlotOf(k - 1)']
    BY <1>1 DEF ContentsFit
  <2>2. s[k] = cache[SlotOf(k - 1)]
    BY <1>1 DEF ContentsFit
  <2> QED BY <1>2, <1>4, <1>5, <2>1, <2>2
<1> HIDE DEF s, t, u
<1>7. u = t
  BY <1>1, <1>3, <1>4, <1>6, SeqEqual
<1> QED BY <1>1, <1>3, <1>7 DEF s, t, u

\* clear() leaves nothing.
LEMMA ClearEmpties ==
  ASSUME ContentsFit', NEW c \in Consumers, Clear(c)
  PROVE  Contents' = <<>>
<1>1. NumFrame' = 0
  BY DEF Clear, NumFrame
<1>2. Contents' \in Seq(Records) /\ Len(Contents') = 0
  BY <1>1 DEF ContentsFit
<1> QED BY <1>2, EmptySeq

\* Every step is one of the abstract queue's, or leaves it alone.
LEMMA StepRefines ==
  ASSUME TypeOK, CallsFit, ContentsFit, ContentsFit', [Next]_vars
  PROVE  [Queue!Next]_Contents
<1> USE DataAssumption
<1>1. CASE UNCHANGED ring
  BY <1>1 DEF ring, Contents, NumFrame, SlotOf
<1>2. ASSUME NEW p \in Producers, PushStore(p) PROVE Queue!Put
  <2>1. p \in Requesting("push_back")
    BY <1>2 DEF PushStore, InPush, Requesting, Threads
  <2>2. Contents' = Contents \o <<arg[p]>>
    BY <1>2, PushAppends
  <2>3. Len(Contents) + Len(<<arg[p]>>) <= Size - 1
    <3>1. Len(<<arg[p]>>) = 1 OBVIOUS
    <3>2. NumFrame < Size - 1 /\ NumFrame \in Nat
      BY <1>2, SizesAddUp DEF PushStore
    <3> QED BY <3>1, <3>2 DEF ContentsFit
  <2> QED BY <2>1, <2>2, <2>3 DEF Queue!Put
<1>3. ASSUME NEW c \in Consumers, PopFront(c) PROVE Queue!TakeFront
  <2>1. c \in Requesting("pop_front")
    BY <1>3 DEF PopFront, InFrameOp, Requesting, Threads
  <2>2. Len(Contents) >= 1 /\ Contents' = SubSeq(Contents, 2, Len(Contents))
    BY <1>3, PopFrontTakes
  <2> QED BY <2>1, <2>2 DEF Queue!TakeFront
<1>4. ASSUME NEW c \in Consumers, PopBack(c) PROVE Queue!TakeBack
  <2>1. c \in Requesting("pop_back")
    BY <1>4 DEF PopBack, InFrameOp, Requesting, Threads
  <2>2. Len(Contents) >= 1 /\ Contents' = SubSeq(Contents, 1, Len(Contents) - 1)
    BY <1>4, PopBackDrops
  <2> QED BY <2>1, <2>2 DEF Queue!TakeBack
<1>5. ASSUME NEW c \in Consumers, Clear(c) PROVE Queue!Clear
  <2>1. c \in Requesting("clear")
    BY <1>5 DEF Clear, CallsFit, Requesting, Threads
  <2>2. Contents' = <<>>
    BY <1>5, ClearEmpties
  <2> QED BY <2>1, <2>2 DEF Queue!Clear
<1> QED
  BY <1>1, <1>2, <1>3, <1>4, <1>5, RingSteps DEF Queue!Next

\* An empty ring is the empty queue.
LEMMA InitRefines == Init /\ ContentsFit => Queue!Init
<1> SUFFICES ASSUME Init, ContentsFit PROVE Contents = <<>>
  BY DEF Queue!Init
<1>1. NumFrame = 0
  BY DEF Init, NumFrame
<1> QED BY <1>1, EmptySeq DEF ContentsFit

\* The frame cache is a FIFO queue of Size - 1 records that changes only as a caller
\* asks, for every capacity and any number of threads, through every wrap.
THEOREM CacheIsQueue == Spec => ImplementsQueue
<1>1. Spec => [](TypeOK /\ CallsFit)
  BY InitTyped, StepTyped, PTL DEF Spec
<1>2. TypeOK /\ CallsFit /\ ContentsFit /\ ContentsFit' /\ [Next]_vars => [Queue!Next]_Contents
  BY StepRefines
<1> QED
  BY <1>1, <1>2, TypedContents, InitRefines, PTL DEF Spec, ImplementsQueue, Queue!Spec
=============================================================================
