-------------------------- MODULE FrameCacheProofs --------------------------
(***************************************************************************)
(* Proofs about FrameCache for every number of producers, consumers and    *)
(* slots: what the run of FrameCache.cfg shows for two producers, one      *)
(* consumer and three slots.                                               *)
(***************************************************************************)
EXTENDS FrameCache, FiniteSetTheorems, TLAPS

(***************************************************************************)
(* What the invariants rest on: producers only push, and push frames; a    *)
(* thread that clears has not been waiting.                                *)
(***************************************************************************)
CallsFit ==
  /\ \A p \in Producers : call[p] = "push_back" => arg[p] \in Frames
  /\ \A t \in Threads : call[t] = "clear" => phase[t] = "enter"

-----------------------------------------------------------------------------
(***************************************************************************)
(* Between them, the two sizes that the waiting loops of frame_cache.cpp   *)
(* compute leave exactly one slot unused, for all positions of the indices.*)
(***************************************************************************)
LEMMA SizesAddUp ==
  ASSUME TypeOK
  PROVE  /\ NumFrame \in 0..(Size - 1)
         /\ NumSpace = (Size - 1) - NumFrame
BY DataAssumption DEF TypeOK, Slots, NumFrame, NumSpace

(***************************************************************************)
(* The indices stay in the ring when they move on or back.                 *)
(***************************************************************************)
LEMMA IndicesStay ==
  ASSUME NEW i \in Slots
  PROVE  Succ(i) \in Slots /\ Pred(i) \in Slots /\ i - 1 \in -1..(Size - 1)
BY DataAssumption DEF Slots, Succ, Pred

(***************************************************************************)
(* Blocked sets are finite.                                                *)
(***************************************************************************)
LEMMA BlockedFinite ==
  /\ IsFiniteSet(Blocked(Producers)) /\ Cardinality(Blocked(Producers)) \in Nat
  /\ IsFiniteSet(Blocked(Consumers)) /\ Cardinality(Blocked(Consumers)) \in Nat
<1>1. /\ Blocked(Producers) \in SUBSET Producers
      /\ Blocked(Consumers) \in SUBSET Consumers
  BY DEF Blocked
<1>2. IsFiniteSet(Blocked(Producers)) /\ IsFiniteSet(Blocked(Consumers))
  BY <1>1, ThreadAssumption, FS_Subset
<1> QED
  BY <1>2, FS_CardinalityType

-----------------------------------------------------------------------------
LEMMA InitTyped == Init => TypeOK /\ CallsFit
BY DataAssumption DEF Init, TypeOK, CallsFit, Slots, Threads, Phases, FrameOps

(***************************************************************************)
(* No step of any thread leaves the types.                                 *)
(***************************************************************************)
LEMMA StepTyped == TypeOK /\ CallsFit /\ [Next]_vars => TypeOK' /\ CallsFit'
<1> SUFFICES ASSUME TypeOK, CallsFit, [Next]_vars
             PROVE  TypeOK' /\ CallsFit'
  OBVIOUS
<1> USE DataAssumption
<1>0. Producers \subseteq Threads /\ Consumers \subseteq Threads /\ Producers \cap Consumers = {}
  BY ThreadAssumption DEF Threads
<1>1. ASSUME NEW p \in Producers, NEW f \in Frames, CallPush(p, f)
      PROVE  TypeOK' /\ CallsFit'
  BY <1>0, <1>1 DEF CallPush, TypeOK, CallsFit, ring, Phases
<1>2. ASSUME NEW c \in Consumers, NEW o \in FrameOps \cup {"clear"}, CallOp(c, o)
      PROVE  TypeOK' /\ CallsFit'
  BY <1>0, <1>2 DEF CallOp, TypeOK, CallsFit, ring, Phases, FrameOps
<1>3. ASSUME NEW p \in Producers, PushWait(p)
      PROVE  TypeOK' /\ CallsFit'
  BY <1>0, <1>3 DEF PushWait, InPush, Undone, TypeOK, CallsFit, ring, Phases
<1>4. ASSUME NEW p \in Producers, PushStore(p)
      PROVE  TypeOK' /\ CallsFit'
  <2>1. Succ(head) \in Slots /\ arg[p] \in Frames \cup {NoFrame}
    BY IndicesStay DEF TypeOK
  <2>2. phase' \in [Threads -> Phases]
    BY <1>0, <1>4 DEF PushStore, Moved, TypeOK, Phases
  <2>3. \A t \in Threads : phase[t] = "enter" /\ t # p => phase'[t] = "enter"
    BY <1>0, <1>4 DEF PushStore, Moved, TypeOK
  <2> QED
    BY <1>0, <1>4, <2>1, <2>2, <2>3 DEF PushStore, InPush, Undone, TypeOK, CallsFit
<1>5. ASSUME NEW c \in Consumers, FrameWait(c)
      PROVE  TypeOK' /\ CallsFit'
  BY <1>0, <1>5 DEF FrameWait, InFrameOp, Undone, TypeOK, CallsFit, ring, Phases, FrameOps
<1>6. ASSUME NEW c \in Consumers, Begin(c) \/ End(c)
      PROVE  TypeOK' /\ CallsFit'
  <2>1. \E o \in {"begin", "end"}, i \in -1..(Size - 1) : ReturnSlot(c, o, i)
    BY <1>6, IndicesStay DEF Begin, End, TypeOK, Slots
  <2> QED
    BY <1>0, <2>1 DEF ReturnSlot, InFrameOp, Undone, TypeOK, CallsFit, ring, Phases, FrameOps
<1>7. ASSUME NEW c \in Consumers, PopFront(c)
      PROVE  TypeOK' /\ CallsFit'
  <2>1. Succ(tail) \in Slots
    BY IndicesStay DEF TypeOK
  <2> QED
    BY <1>0, <1>7, <2>1 DEF PopFront, InFrameOp, Undone, TypeOK, CallsFit, Phases, FrameOps
<1>8. ASSUME NEW c \in Consumers, PopBack(c)
      PROVE  TypeOK' /\ CallsFit'
  <2>1. Pred(head) \in Slots
    BY IndicesStay DEF TypeOK
  <2> QED
    BY <1>0, <1>8, <2>1 DEF PopBack, InFrameOp, Undone, TypeOK, CallsFit, Phases, FrameOps
<1>9. ASSUME NEW c \in Consumers, Notify(c)
      PROVE  TypeOK' /\ CallsFit'
  <2>1. phase' \in [Threads -> Phases]
    BY <1>0, <1>9 DEF Notify, Moved, TypeOK, Phases
  <2>2. \A t \in Threads : phase[t] = "enter" /\ t # c => phase'[t] = "enter"
    BY <1>0, <1>9 DEF Notify, Moved, TypeOK
  <2> QED
    BY <1>0, <1>9, <2>1, <2>2 DEF Notify, TypeOK, CallsFit, ring
<1>10. ASSUME NEW c \in Consumers, Clear(c)
       PROVE  TypeOK' /\ CallsFit'
  BY <1>0, <1>10, BlockedFinite DEF Clear, TypeOK, CallsFit, Slots, Phases
<1>11. ASSUME NEW t \in Threads, SpuriousWakeup(t)
       PROVE  TypeOK' /\ CallsFit'
  BY <1>0, <1>11 DEF SpuriousWakeup, TypeOK, CallsFit, ring, Phases
<1>12. CASE UNCHANGED vars
  BY <1>12 DEF vars, ring, TypeOK, CallsFit
<1> QED
  BY <1>1, <1>2, <1>3, <1>4, <1>5, <1>6, <1>7, <1>8, <1>9, <1>10, <1>11, <1>12
     DEF Next, ProducerStep, ConsumerStep

(***************************************************************************)
(* The ring's indices, counters, calls and records keep their types,       *)
(* whatever threads call push_back, the pops, begin, end and clear.        *)
(***************************************************************************)
THEOREM TypeCorrect == Spec => []TypeOK
<1>1. Spec => [](TypeOK /\ CallsFit)
  BY InitTyped, StepTyped, PTL DEF Spec
<1> QED
  BY <1>1, PTL

-----------------------------------------------------------------------------
(***************************************************************************)
(* A step either leaves the ring alone, or is a push, a pop or a clear().  *)
(***************************************************************************)
LEMMA RingSteps ==
  ASSUME [Next]_vars
  PROVE  \/ UNCHANGED ring
         \/ \E p \in Producers : PushStore(p)
         \/ \E c \in Consumers : PopFront(c) \/ PopBack(c) \/ Clear(c)
BY DEF Next, ProducerStep, ConsumerStep, CallPush, CallOp, PushWait, FrameWait,
       Begin, End, ReturnSlot, Notify, SpuriousWakeup, vars, ring

LEMMA StepLive ==
  TypeOK /\ CallsFit /\ LiveSlotsOnly /\ [Next]_vars => LiveSlotsOnly'
<1> SUFFICES ASSUME TypeOK, CallsFit, LiveSlotsOnly, [Next]_vars,
                    NEW i \in Slots
             PROVE  (cache[i] # NoFrame <=> InRing(i))'
  BY DEF LiveSlotsOnly
<1> USE DataAssumption
<1>0. cache[i] # NoFrame <=> InRing(i)
  BY DEF LiveSlotsOnly
<1>1. CASE UNCHANGED ring
  BY <1>0, <1>1 DEF ring, InRing
<1>2. ASSUME NEW p \in Producers, PushStore(p)
      PROVE  (cache[i] # NoFrame <=> InRing(i))'
  <2>1. arg[p] # NoFrame
    BY <1>2 DEF PushStore, InPush, CallsFit
  <2>2. cache'[i] = IF i = head THEN arg[p] ELSE cache[i]
    BY <1>2 DEF PushStore, TypeOK
  <2>3. InRing(i)' <=> i = head \/ InRing(i)
    BY <1>2 DEF PushStore, NumSpace, Succ, InRing, TypeOK, Slots
  <2> QED
    BY <1>0, <2>1, <2>2, <2>3
<1>3. ASSUME NEW c \in Consumers, PopFront(c)
      PROVE  (cache[i] # NoFrame <=> InRing(i))'
  <2>1. cache'[i] = IF i = tail THEN NoFrame ELSE cache[i]
    BY <1>3 DEF PopFront, TypeOK
  <2>2. InRing(i)' <=> i # tail /\ InRing(i)
    BY <1>3 DEF PopFront, NumFrame, Succ, InRing, TypeOK, Slots
  <2> QED
    BY <1>0, <2>1, <2>2
<1>4. ASSUME NEW c \in Consumers, PopBack(c)
      PROVE  (cache[i] # NoFrame <=> InRing(i))'
  <2>1. cache'[i] = IF i = Pred(head) THEN NoFrame ELSE cache[i]
    BY <1>4 DEF PopBack, TypeOK
  <2>2. InRing(i)' <=> i # Pred(head) /\ InRing(i)
    BY <1>4 DEF PopBack, NumFrame, Pred, InRing, TypeOK, Slots
  <2> QED
    BY <1>0, <2>1, <2>2
<1>5. ASSUME NEW c \in Consumers, Clear(c)
      PROVE  (cache[i] # NoFrame <=> InRing(i))'
  BY <1>5 DEF Clear, InRing, Slots
<1> QED
  BY <1>1, <1>2, <1>3, <1>4, <1>5, RingSteps

(***************************************************************************)
(* For a ring of any size: a slot holds a frame exactly when it lies       *)
(* between m_tail and m_head, so no reader meets an erased or a stale      *)
(* record, and no push overwrites a live one.                              *)
(***************************************************************************)
THEOREM SlotsLive == Spec => []LiveSlotsOnly
<1>1. Init => LiveSlotsOnly
  BY DataAssumption DEF Init, LiveSlotsOnly, InRing, Slots
<1>2. Spec => [](TypeOK /\ CallsFit)
  BY InitTyped, StepTyped, PTL DEF Spec
<1> QED
  BY <1>1, <1>2, StepLive, PTL DEF Spec

-----------------------------------------------------------------------------
(***************************************************************************)
(* How many threads are blocked when one of them starts or stops waiting,  *)
(* for producers and for consumers.                                        *)
(***************************************************************************)
LEMMA BlockedCount ==
  ASSUME NEW S, IsFiniteSet(S), NEW t
  PROVE  /\ Cardinality(S) \in Nat
         /\ t \notin S => Cardinality(S \cup {t}) = Cardinality(S) + 1
         /\ t \in S => Cardinality(S \ {t}) = Cardinality(S) - 1
         /\ t \notin S => Cardinality(S \ {t}) = Cardinality(S)
         /\ t \in S => Cardinality(S \cup {t}) = Cardinality(S)
BY FS_AddElement, FS_RemoveElement, FS_CardinalityType

(***************************************************************************)
(* When only thread t starts or stops waiting, it alone joins or leaves    *)
(* the blocked threads; a woken thread stays blocked until it has the lock.*)
(***************************************************************************)
LEMMA BlockedMove ==
  ASSUME NEW T \in {Producers, Consumers}, NEW t,
         \A u \in T : u # t => (phase'[u] \in {"waiting", "woken"}
                                  <=> phase[u] \in {"waiting", "woken"})
  PROVE  /\ t \in T /\ phase'[t] \in {"waiting", "woken"} => Blocked(T)' = Blocked(T) \cup {t}
         /\ t \notin T \/ phase'[t] \notin {"waiting", "woken"} => Blocked(T)' = Blocked(T) \ {t}
BY DEF Blocked

LEMMA StepCounts ==
  TypeOK /\ CallsFit /\ CountersAccount /\ [Next]_vars => CountersAccount'
<1> SUFFICES ASSUME TypeOK, CallsFit, CountersAccount, [Next]_vars
             PROVE  CountersAccount'
  OBVIOUS
<1> DEFINE P == Blocked(Producers)
           C == Blocked(Consumers)
<1>0. /\ Producers \subseteq Threads /\ Consumers \subseteq Threads
      /\ Producers \cap Consumers = {}
  BY ThreadAssumption DEF Threads
<1>1. /\ frameNeeded = Cardinality(C) - frameDebt
      /\ spaceNeeded = Cardinality(P) - spaceDebt
      /\ frameDebt \in Nat /\ spaceDebt \in Nat
  BY DEF CountersAccount, TypeOK
<1>2. \A t : (t \notin P => P \ {t} = P) /\ (t \notin C => C \ {t} = C)
  OBVIOUS
<1>3. Cardinality(P) \in Nat /\ Cardinality(C) \in Nat
  BY BlockedFinite
<1>4. ASSUME NEW p \in Producers, PushWait(p)
      PROVE  CountersAccount'
  <2>1. P' = P \cup {p} /\ C' = C \ {p}
    BY <1>0, <1>4, BlockedMove DEF PushWait, TypeOK
  <2>2. p \notin C /\ (p \in P <=> phase[p] = "woken")
    BY <1>0, <1>4 DEF PushWait, InPush, Blocked
  <2>3. Cardinality(P') = Cardinality(P) + (IF phase[p] = "woken" THEN 0 ELSE 1)
    <3>1. /\ p \notin P => Cardinality(P \cup {p}) = Cardinality(P) + 1
          /\ p \in P => Cardinality(P \cup {p}) = Cardinality(P)
      BY BlockedFinite, BlockedCount
    <3>2. Cardinality(P') = Cardinality(P \cup {p})
      BY <2>1
    <3> HIDE DEF P
    <3> QED
      BY <1>3, <2>2, <3>1, <3>2
  <2>4. spaceNeeded' = Cardinality(P') - spaceDebt
    <3>1. spaceNeeded' = spaceNeeded + (IF phase[p] = "woken" THEN 0 ELSE 1)
      BY <1>4 DEF PushWait, Undone, TypeOK
    <3> HIDE DEF P
    <3> QED
      BY <1>1, <1>3, <2>3, <3>1
  <2> QED
    BY <1>1, <1>2, <1>4, <2>1, <2>2, <2>4 DEF PushWait, CountersAccount
<1>5. ASSUME NEW p \in Producers, PushStore(p)
      PROVE  CountersAccount'
  <2>1. P' = P \ {p} /\ C' = C \ {p}
    BY <1>0, <1>5, BlockedMove DEF PushStore, Moved, TypeOK
  <2>2. p \notin C /\ (p \in P <=> phase[p] = "woken")
    BY <1>0, <1>5 DEF PushStore, InPush, Blocked
  <2>3. Cardinality(P') = Cardinality(P) - (IF phase[p] = "woken" THEN 1 ELSE 0)
    <3>1. /\ p \notin P => Cardinality(P \ {p}) = Cardinality(P)
          /\ p \in P => Cardinality(P \ {p}) = Cardinality(P) - 1
      BY BlockedFinite, BlockedCount
    <3>2. Cardinality(P') = Cardinality(P \ {p})
      BY <2>1
    <3> HIDE DEF P
    <3> QED
      BY <1>3, <2>2, <3>1, <3>2
  <2>4. spaceNeeded' = Cardinality(P') - spaceDebt
    <3>1. spaceNeeded' = spaceNeeded - (IF phase[p] = "woken" THEN 1 ELSE 0)
      BY <1>5 DEF PushStore, Undone, TypeOK
    <3> HIDE DEF P
    <3> QED
      BY <1>1, <1>3, <2>3, <3>1
  <2> QED
    BY <1>1, <1>2, <1>5, <2>1, <2>2, <2>4 DEF PushStore, CountersAccount
<1>6. ASSUME NEW c \in Consumers, FrameWait(c)
      PROVE  CountersAccount'
  <2>1. C' = C \cup {c} /\ P' = P \ {c}
    BY <1>0, <1>6, BlockedMove DEF FrameWait, TypeOK
  <2>2. c \notin P /\ (c \in C <=> phase[c] = "woken")
    BY <1>0, <1>6 DEF FrameWait, InFrameOp, Blocked
  <2>3. Cardinality(C') = Cardinality(C) + (IF phase[c] = "woken" THEN 0 ELSE 1)
    <3>1. /\ c \notin C => Cardinality(C \cup {c}) = Cardinality(C) + 1
          /\ c \in C => Cardinality(C \cup {c}) = Cardinality(C)
      BY BlockedFinite, BlockedCount
    <3>2. Cardinality(C') = Cardinality(C \cup {c})
      BY <2>1
    <3> HIDE DEF C
    <3> QED
      BY <1>3, <2>2, <3>1, <3>2
  <2>4. frameNeeded' = Cardinality(C') - frameDebt
    <3>1. frameNeeded' = frameNeeded + (IF phase[c] = "woken" THEN 0 ELSE 1)
      BY <1>6 DEF FrameWait, Undone, TypeOK
    <3> HIDE DEF C
    <3> QED
      BY <1>1, <1>3, <2>3, <3>1
  <2> QED
    BY <1>1, <1>2, <1>6, <2>1, <2>2, <2>4 DEF FrameWait, CountersAccount
<1>7. ASSUME NEW c \in Consumers, NEW p \in {"idle", "notify"},
             phase' = [phase EXCEPT ![c] = p], phase[c] \in {"enter", "woken"},
             frameNeeded' = Undone(frameNeeded, c),
             UNCHANGED <<spaceNeeded, frameDebt, spaceDebt>>
      PROVE  CountersAccount'
  <2>1. C' = C \ {c} /\ P' = P \ {c}
    BY <1>0, <1>7, BlockedMove DEF TypeOK
  <2>2. c \notin P /\ (c \in C <=> phase[c] = "woken")
    BY <1>0, <1>7 DEF Blocked
  <2>3. Cardinality(C') = Cardinality(C) - (IF phase[c] = "woken" THEN 1 ELSE 0)
    <3>1. /\ c \notin C => Cardinality(C \ {c}) = Cardinality(C)
          /\ c \in C => Cardinality(C \ {c}) = Cardinality(C) - 1
      BY BlockedFinite, BlockedCount
    <3>2. Cardinality(C') = Cardinality(C \ {c})
      BY <2>1
    <3> HIDE DEF C
    <3> QED
      BY <1>3, <2>2, <3>1, <3>2
  <2>4. frameNeeded' = Cardinality(C') - frameDebt
    <3>1. frameNeeded' = frameNeeded - (IF phase[c] = "woken" THEN 1 ELSE 0)
      BY <1>7 DEF Undone, TypeOK
    <3> HIDE DEF C
    <3> QED
      BY <1>1, <1>3, <2>3, <3>1
  <2> QED
    BY <1>1, <1>2, <1>7, <2>1, <2>2, <2>4 DEF CountersAccount
<1>8. ASSUME NEW c \in Consumers, Begin(c) \/ End(c) \/ PopFront(c) \/ PopBack(c)
      PROVE  CountersAccount'
  BY <1>7, <1>8 DEF Begin, End, ReturnSlot, PopFront, PopBack, InFrameOp
<1>9. ASSUME NEW c \in Consumers, Clear(c)
      PROVE  CountersAccount'
  <2>1. phase[c] = "enter"
    BY <1>0, <1>9 DEF Clear, CallsFit
  <2>2. C' = C \ {c} /\ P' = P \ {c} /\ c \notin C /\ c \notin P
    BY <1>0, <1>9, <2>1, BlockedMove DEF Clear, TypeOK, Blocked
  <2>3. C' = C /\ P' = P
    BY <2>2
  <2> QED
    BY <1>3, <1>9, <2>3 DEF Clear, CountersAccount
<1>10. ASSUME C' = C, P' = P, UNCHANGED <<frameNeeded, spaceNeeded, frameDebt, spaceDebt>>
       PROVE  CountersAccount'
  BY <1>1, <1>10 DEF CountersAccount
<1>11. ASSUME NEW p \in Producers, NEW f \in Frames, CallPush(p, f)
       PROVE  CountersAccount'
  BY <1>0, <1>10, <1>11 DEF CallPush, Blocked, TypeOK
<1>12. ASSUME NEW c \in Consumers, NEW o \in FrameOps \cup {"clear"}, CallOp(c, o)
       PROVE  CountersAccount'
  BY <1>0, <1>10, <1>12 DEF CallOp, Blocked, TypeOK
<1>13. ASSUME NEW c \in Consumers, Notify(c)
       PROVE  CountersAccount'
  BY <1>0, <1>10, <1>13 DEF Notify, Moved, Blocked, TypeOK
<1>14. ASSUME NEW t \in Threads, SpuriousWakeup(t)
       PROVE  CountersAccount'
  BY <1>0, <1>10, <1>14 DEF SpuriousWakeup, Blocked, TypeOK
<1>15. CASE UNCHANGED vars
  BY <1>10, <1>15 DEF vars, Blocked
<1> QED
  BY <1>4, <1>5, <1>6, <1>8, <1>9, <1>11, <1>12, <1>13, <1>14, <1>15
     DEF Next, ProducerStep, ConsumerStep

(***************************************************************************)
(* For any number of threads: m_space_needed and m_frame_needed count the  *)
(* threads that wait or have yet to get the lock back, short of those that *)
(* the last clear() forgot.                                                *)
(***************************************************************************)
THEOREM CountersCorrect == Spec => []CountersAccount
<1>1. Init => CountersAccount
  <2> SUFFICES ASSUME Init PROVE CountersAccount
    OBVIOUS
  <2>1. Blocked(Producers) = {} /\ Blocked(Consumers) = {}
    BY DEF Init, Blocked, Threads
  <2> QED
    BY <2>1, FS_EmptySet DEF Init, CountersAccount
<1>2. Spec => [](TypeOK /\ CallsFit)
  BY InitTyped, StepTyped, PTL DEF Spec
<1> QED
  BY <1>1, <1>2, StepCounts, PTL DEF Spec

-----------------------------------------------------------------------------
(***************************************************************************)
(* When clear() has forgotten nobody, a counter at zero means that nobody  *)
(* waits: the test that pop_front makes after its unlock misses no one.    *)
(***************************************************************************)
LEMMA ZeroMeansNobody ==
  ASSUME TypeOK, CountersAccount
  PROVE  /\ spaceDebt = 0 /\ spaceNeeded = 0 => ~Asleep(Producers)
         /\ frameDebt = 0 /\ frameNeeded = 0 => ~Asleep(Consumers)
         /\ Cardinality(Blocked(Producers)) = 0 => ~Asleep(Producers)
         /\ Cardinality(Blocked(Consumers)) = 0 => ~Asleep(Consumers)
<1>1. /\ Cardinality(Blocked(Producers)) = 0 => Blocked(Producers) = {}
      /\ Cardinality(Blocked(Consumers)) = 0 => Blocked(Consumers) = {}
  BY BlockedFinite, FS_EmptySet
<1>2. /\ Blocked(Producers) = {} => ~Asleep(Producers)
      /\ Blocked(Consumers) = {} => ~Asleep(Consumers)
  BY DEF Blocked, Asleep
<1>3. /\ spaceDebt = 0 /\ spaceNeeded = 0 => Cardinality(Blocked(Producers)) = 0
      /\ frameDebt = 0 /\ frameNeeded = 0 => Cardinality(Blocked(Consumers)) = 0
  BY BlockedFinite DEF CountersAccount
<1> QED
  BY <1>1, <1>2, <1>3

LEMMA StepWakes ==
  TypeOK /\ TypeOK' /\ CallsFit /\ CountersAccount /\ NoLostWakeup /\ [Next]_vars
    => NoLostWakeup'
<1> SUFFICES ASSUME TypeOK, TypeOK', CallsFit, CountersAccount, NoLostWakeup, [Next]_vars
             PROVE  NoLostWakeup'
  OBVIOUS
<1> DEFINE Popping == \E c \in Consumers : phase[c] = "notify"
<1>0. /\ Producers \subseteq Threads /\ Consumers \subseteq Threads
      /\ Producers \cap Consumers = {}
  BY ThreadAssumption DEF Threads
<1>1. /\ spaceDebt = 0 /\ Asleep(Producers) => NumSpace = 0 \/ Popping
      /\ frameDebt = 0 /\ Asleep(Consumers) => NumFrame = 0
  BY DEF NoLostWakeup, NoLostSpaceWakeup, NoLostFrameWakeup
(* Steps that leave the ring alone and put nobody to sleep.                *)
<1>2. ASSUME UNCHANGED <<head, tail, frameDebt, spaceDebt>>,
             Asleep(Producers)' => Asleep(Producers),
             Asleep(Consumers)' => Asleep(Consumers),
             Popping => Popping'
      PROVE  NoLostWakeup'
  BY <1>1, <1>2 DEF NoLostWakeup, NoLostSpaceWakeup, NoLostFrameWakeup, NumSpace, NumFrame
<1>3. ASSUME NEW p \in Producers, NEW f \in Frames, CallPush(p, f)
      PROVE  NoLostWakeup'
  BY <1>0, <1>2, <1>3 DEF CallPush, ring, Asleep, TypeOK
<1>4. ASSUME NEW c \in Consumers, NEW o \in FrameOps \cup {"clear"}, CallOp(c, o)
      PROVE  NoLostWakeup'
  BY <1>0, <1>2, <1>4 DEF CallOp, ring, Asleep, TypeOK
<1>5. ASSUME NEW p \in Producers, PushWait(p)
      PROVE  NoLostWakeup'
  <2>1. NumSpace = 0 /\ UNCHANGED <<NumSpace, NumFrame, frameDebt>>
    <3>1. NumSpace = 0
      BY <1>5, SizesAddUp, DataAssumption DEF PushWait
    <3>2. UNCHANGED <<NumSpace, NumFrame, frameDebt>>
      BY <1>5 DEF PushWait, ring, NumSpace, NumFrame
    <3> QED
      BY <3>1, <3>2
  <2>2. Asleep(Consumers)' => Asleep(Consumers)
    BY <1>0, <1>5 DEF PushWait, Asleep, TypeOK
  <2> QED
    BY <1>1, <2>1, <2>2 DEF NoLostWakeup, NoLostSpaceWakeup, NoLostFrameWakeup
<1>6. ASSUME NEW p \in Producers, PushStore(p)
      PROVE  NoLostWakeup'
  <2>1. Asleep(Producers)' => Asleep(Producers)
    BY <1>0, <1>6 DEF PushStore, Moved, Asleep, TypeOK
  <2>2. Popping => Popping'
    BY <1>0, <1>6 DEF PushStore, Moved, TypeOK
  <2>3. NumSpace > 0
    BY <1>6 DEF PushStore
  <2>4. frameNeeded # 0 => ~Asleep(Consumers)'
    BY <1>0, <1>6 DEF PushStore, Moved, Asleep, TypeOK
  <2>5. ~Asleep(Consumers) => ~Asleep(Consumers)'
    BY <1>0, <1>6 DEF PushStore, Moved, Asleep, TypeOK
  <2>6. frameDebt' = frameDebt /\ spaceDebt' = spaceDebt
    BY <1>6 DEF PushStore
  <2>7. frameDebt = 0 => ~Asleep(Consumers)'
    BY <2>4, <2>5, ZeroMeansNobody
  <2> QED
    BY <1>1, <2>1, <2>2, <2>3, <2>6, <2>7, SizesAddUp
       DEF NoLostWakeup, NoLostSpaceWakeup, NoLostFrameWakeup
<1>7. ASSUME NEW c \in Consumers, FrameWait(c)
      PROVE  NoLostWakeup'
  <2>1. NumFrame = 0 /\ UNCHANGED <<NumSpace, NumFrame, spaceDebt>>
    <3>1. NumFrame = 0
      BY <1>7, SizesAddUp DEF FrameWait
    <3>2. UNCHANGED <<NumSpace, NumFrame, spaceDebt>>
      BY <1>7 DEF FrameWait, ring, NumSpace, NumFrame
    <3> QED
      BY <3>1, <3>2
  <2>2. Asleep(Producers)' => Asleep(Producers)
    BY <1>0, <1>7 DEF FrameWait, Asleep, TypeOK
  <2>3. Popping => Popping'
    BY <1>0, <1>7 DEF FrameWait, InFrameOp, TypeOK
  <2> QED
    BY <1>1, <2>1, <2>2, <2>3 DEF NoLostWakeup, NoLostSpaceWakeup, NoLostFrameWakeup
<1>8. ASSUME NEW c \in Consumers, Begin(c) \/ End(c)
      PROVE  NoLostWakeup'
  BY <1>0, <1>2, <1>8 DEF Begin, End, ReturnSlot, InFrameOp, ring, Asleep, TypeOK
<1>9. ASSUME NEW c \in Consumers, PopFront(c) \/ PopBack(c)
      PROVE  NoLostWakeup'
  <2>1. phase' = [phase EXCEPT ![c] = "notify"] /\ NumFrame > 0 /\ frameDebt' = frameDebt
    BY <1>9 DEF PopFront, PopBack
  <2>2. Popping'
    BY <1>0, <2>1 DEF TypeOK
  <2>3. Asleep(Consumers)' => Asleep(Consumers)
    BY <1>0, <2>1 DEF Asleep, TypeOK
  <2>4. ~(frameDebt' = 0 /\ Asleep(Consumers)')
    BY <1>1, <2>1, <2>3, SizesAddUp
  <2> QED
    BY <2>2, <2>4 DEF NoLostWakeup, NoLostSpaceWakeup, NoLostFrameWakeup
<1>10. ASSUME NEW c \in Consumers, Notify(c)
       PROVE  NoLostWakeup'
  <2>1. spaceNeeded # 0 => ~Asleep(Producers)'
    BY <1>0, <1>10 DEF Notify, Moved, Asleep, TypeOK
  <2>2. ~Asleep(Producers) => ~Asleep(Producers)'
    BY <1>0, <1>10 DEF Notify, Moved, Asleep, TypeOK
  <2>3. spaceDebt = 0 => ~Asleep(Producers)'
    BY <2>1, <2>2, ZeroMeansNobody
  <2>4. Asleep(Consumers)' => Asleep(Consumers)
    BY <1>0, <1>10 DEF Notify, Moved, Asleep, TypeOK
  <2>5. UNCHANGED <<NumFrame, frameDebt, spaceDebt>>
    BY <1>10 DEF Notify, ring, NumFrame
  <2> QED
    BY <1>1, <2>3, <2>4, <2>5 DEF NoLostWakeup, NoLostSpaceWakeup, NoLostFrameWakeup
<1>11. ASSUME NEW c \in Consumers, Clear(c)
       PROVE  NoLostWakeup'
  <2>1. /\ Asleep(Producers)' => Asleep(Producers)
        /\ Asleep(Consumers)' => Asleep(Consumers)
    BY <1>0, <1>11 DEF Clear, Asleep, TypeOK
  <2>2. /\ spaceDebt' = 0 => ~Asleep(Producers)
        /\ frameDebt' = 0 => ~Asleep(Consumers)
    BY <1>11, ZeroMeansNobody DEF Clear
  <2> QED
    BY <2>1, <2>2 DEF NoLostWakeup, NoLostSpaceWakeup, NoLostFrameWakeup
<1>12. ASSUME NEW t \in Threads, SpuriousWakeup(t)
       PROVE  NoLostWakeup'
  BY <1>0, <1>2, <1>12 DEF SpuriousWakeup, ring, Asleep, TypeOK
<1>13. CASE UNCHANGED vars
  BY <1>2, <1>13 DEF vars, ring, Asleep
<1> QED
  BY <1>3, <1>4, <1>5, <1>6, <1>7, <1>8, <1>9, <1>10, <1>11, <1>12, <1>13
     DEF Next, ProducerStep, ConsumerStep

(***************************************************************************)
(* For any number of threads and slots: as long as clear() has forgotten   *)
(* nobody, nobody sleeps through what it waits for, although pop_front and *)
(* pop_back test the waiter counter after they have let the lock go.       *)
(***************************************************************************)
THEOREM NobodyOversleeps == Spec => []NoLostWakeup
<1>1. Init => NoLostWakeup
  BY ThreadAssumption
     DEF Init, NoLostWakeup, NoLostSpaceWakeup, NoLostFrameWakeup, Asleep, Threads
<1>2. Spec => [](TypeOK /\ CallsFit)
  BY InitTyped, StepTyped, PTL DEF Spec
<1>3. Spec => []CountersAccount
  BY CountersCorrect
<1> QED
  BY <1>1, <1>2, <1>3, StepWakes, PTL DEF Spec

-----------------------------------------------------------------------------
LEMMA StepHeld ==
  TypeOK /\ CallsFit /\ BeginPointerStable /\ [Next]_vars => BeginPointerStable'
<1> SUFFICES ASSUME TypeOK, CallsFit, BeginPointerStable, [Next]_vars,
                    NEW c \in Consumers, NEW i \in -1..(Size - 1),
                    Consumers = {c}, held'[c] = <<"begin", i>>
             PROVE  i = tail' /\ NumFrame' > 0
  BY DEF BeginPointerStable
<1> USE DataAssumption
<1>1. held[c] = <<"begin", i>> => i = tail /\ NumFrame > 0
  BY DEF BeginPointerStable
<1>2. NoSlot # <<"begin", i>>
  OBVIOUS
<1>3. ASSUME NEW p \in Producers, PushStore(p)
      PROVE  i = tail' /\ NumFrame' > 0
  <2>1. i = tail /\ NumFrame > 0 /\ NumSpace > 0 /\ tail' = tail /\ head' = Succ(head)
    BY <1>1, <1>3 DEF PushStore
  <2> QED
    BY <2>1 DEF NumFrame, NumSpace, Succ, TypeOK, Slots
<1>4. ASSUME NEW d \in Consumers, PopFront(d) \/ PopBack(d) \/ Clear(d)
      PROVE  FALSE
  <2>1. d = c
    BY <1>4
  <2>2. held'[c] = NoSlot
    BY <1>4, <2>1 DEF PopFront, PopBack, Clear, TypeOK
  <2> QED
    BY <1>2, <2>2
<1>5. ASSUME NEW d \in Consumers, Begin(d)
      PROVE  i = tail' /\ NumFrame' > 0
  <2>1. d = c /\ held'[c] = <<"begin", tail>> /\ NumFrame > 0 /\ UNCHANGED ring
    BY <1>5 DEF Begin, ReturnSlot, TypeOK
  <2>2. i = tail
    BY <2>1
  <2> QED
    BY <2>1, <2>2 DEF ring, NumFrame
<1>6. ASSUME NEW d \in Consumers, End(d)
      PROVE  FALSE
  <2>1. d = c /\ held'[c] = <<"end", head - 1>>
    BY <1>6 DEF End, ReturnSlot, TypeOK
  <2> QED
    BY <2>1
<1>7. ASSUME UNCHANGED <<ring, held>>
      PROVE  i = tail' /\ NumFrame' > 0
  BY <1>1, <1>7 DEF ring, NumFrame
<1>8. \/ UNCHANGED <<ring, held>>
      \/ \E p \in Producers : PushStore(p)
      \/ \E d \in Consumers : PopFront(d) \/ PopBack(d) \/ Clear(d) \/ Begin(d) \/ End(d)
  BY DEF Next, ProducerStep, ConsumerStep, CallPush, CallOp, PushWait, FrameWait,
         Notify, SpuriousWakeup, vars, ring
<1> QED
  BY <1>3, <1>4, <1>5, <1>6, <1>7, <1>8

(***************************************************************************)
(* For a ring of any size and any number of pushing threads, with one      *)
(* client thread: what begin() returned stays the oldest frame until that  *)
(* thread pops or clears, so it may be used without the lock.              *)
(***************************************************************************)
THEOREM BeginSafe == Spec => []BeginPointerStable
<1>1. Init => BeginPointerStable
  BY DataAssumption DEF Init, BeginPointerStable
<1>2. Spec => [](TypeOK /\ CallsFit)
  BY InitTyped, StepTyped, PTL DEF Spec
<1> QED
  BY <1>1, <1>2, StepHeld, PTL DEF Spec
=============================================================================
