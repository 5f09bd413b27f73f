----------------------------- MODULE FrameCache -----------------------------
(***************************************************************************)
(* frame_cache_c: the ring of frame records between the demux thread,      *)
(* which calls push_back, and the client thread, which calls the rest.     *)
(*                                                                         *)
(* Every operation holds m_lock except while it waits on a condition, so   *)
(* one action is one critical section, and the lock itself needs no        *)
(* variable.  The single test that runs outside the lock, the one that     *)
(* follows the unlock of pop_front and pop_back, is an action of its own   *)
(* (Notify).                                                               *)
(***************************************************************************)
EXTENDS Integers, FiniteSets, Sequences

CONSTANTS Producers,  \* threads that call push_back
          Consumers,  \* threads that call begin, end, pop_front, pop_back, clear
          Frames,     \* the frame records that may be pushed
          NoFrame,    \* a slot that memset has cleared
          NoSlot,     \* no pointer has been returned
          Size        \* m_size: slots in the ring, one of which stays free

ASSUME ThreadAssumption ==
  /\ IsFiniteSet(Producers) /\ IsFiniteSet(Consumers)
  /\ Producers \cap Consumers = {}

ASSUME DataAssumption ==
  /\ Size \in Nat /\ Size >= 2
  /\ NoFrame \notin Frames
  /\ NoSlot \notin {"begin", "end"} \X (-1..(Size - 1))

VARIABLES head,         \* m_head: the slot the next push fills
          tail,         \* m_tail: the slot of the oldest frame
          cache,        \* m_cache
          frameNeeded,  \* m_frame_needed
          spaceNeeded,  \* m_space_needed
          call,         \* the operation each thread is in
          phase,        \* where in that operation it is
          arg,          \* the frame each producer is pushing
          held,         \* the call, begin or end, and slot of the address returned last
          frameDebt,    \* frame waiters that the last clear() forgot (history)
          spaceDebt     \* space waiters that the last clear() forgot (history)

ring == <<head, tail, cache>>
vars == <<head, tail, cache, frameNeeded, spaceNeeded, call, phase, arg, held,
          frameDebt, spaceDebt>>

Threads  == Producers \cup Consumers
Slots    == 0..(Size - 1)
FrameOps == {"begin", "end", "pop_front", "pop_back"}  \* these wait for a frame
Phases   == {"idle", "enter", "waiting", "woken", "notify"}

(***************************************************************************)
(* Threads between the ++ and the -- of a waiter counter: blocked in       *)
(* pthread_cond_wait, or woken but not yet holding the lock again.         *)
(***************************************************************************)
Blocked(T) == {t \in T : phase[t] \in {"waiting", "woken"}}

(* mutant: the index runs on to the array's end before it wraps            *)
SuccLate(i) == IF i >= Size THEN 0 ELSE i + 1
Succ(i) == IF i + 1 >= Size THEN 0 ELSE i + 1
Pred(i) == IF i - 1 < 0 THEN Size - 1 ELSE i - 1

NumFrame == IF head >= tail THEN head - tail ELSE head + Size - tail
(* mutant: the last slot is given away too, so that full looks like empty  *)
NumSpaceGreedy == IF head >= tail THEN Size - (head - tail) ELSE tail - head
NumSpace == IF head >= tail THEN (Size - 1) - (head - tail) ELSE tail - head - 1

(***************************************************************************)
(* The phases after thread t has moved to p, and, when `wake' holds, after *)
(* pthread_cond_broadcast has woken the threads of T that wait.            *)
(***************************************************************************)
Moved(t, p, wake, T) ==
  [u \in Threads |-> IF u = t THEN p
                     ELSE IF wake /\ u \in T /\ phase[u] = "waiting" THEN "woken"
                     ELSE phase[u]]

(* mutant: a woken thread leaves itself on the counter                     *)
UndoneNever(counter, t) == counter
(* The counter a thread finds once it has undone its own increment.        *)
Undone(counter, t) == IF phase[t] = "woken" THEN counter - 1 ELSE counter

-----------------------------------------------------------------------------
Init ==
  /\ head = 0 /\ tail = 0
  /\ cache = [i \in Slots |-> NoFrame]
  /\ frameNeeded = 0 /\ spaceNeeded = 0
  /\ call  = [t \in Threads |-> "none"]
  /\ phase = [t \in Threads |-> "idle"]
  /\ arg   = [p \in Producers |-> NoFrame]
  /\ held  = [c \in Consumers |-> NoSlot]
  /\ frameDebt = 0 /\ spaceDebt = 0

CallPush(p, f) ==
  /\ phase[p] = "idle"
  /\ call'  = [call EXCEPT ![p] = "push_back"]
  /\ phase' = [phase EXCEPT ![p] = "enter"]
  /\ arg'   = [arg EXCEPT ![p] = f]
  /\ UNCHANGED <<ring, frameNeeded, spaceNeeded, held, frameDebt, spaceDebt>>

CallOp(c, op) ==
  /\ phase[c] = "idle"
  /\ call'  = [call EXCEPT ![c] = op]
  /\ phase' = [phase EXCEPT ![c] = "enter"]
  /\ UNCHANGED <<ring, frameNeeded, spaceNeeded, arg, held, frameDebt, spaceDebt>>

InPush(p)      == call[p] = "push_back" /\ phase[p] \in {"enter", "woken"}
InFrameOp(c, op) == call[c] = op /\ phase[c] \in {"enter", "woken"}

(* push_back finds the ring full: count itself as a waiter and wait.       *)
PushWait(p) ==
  /\ InPush(p)
  /\ NumSpace <= 0
  /\ spaceNeeded' = Undone(spaceNeeded, p) + 1
  /\ phase' = [phase EXCEPT ![p] = "waiting"]
  /\ UNCHANGED <<ring, frameNeeded, call, arg, held, frameDebt, spaceDebt>>

(* push_back stores the frame and, still under the lock, wakes readers.    *)
PushStore(p) ==
  /\ InPush(p)
  /\ NumSpace > 0
  /\ cache' = [cache EXCEPT ![head] = arg[p]]
  /\ head' = Succ(head)
  /\ spaceNeeded' = Undone(spaceNeeded, p)
  /\ phase' = Moved(p, "idle", frameNeeded # 0, Consumers)
  /\ call' = [call EXCEPT ![p] = "none"]
  /\ arg' = [arg EXCEPT ![p] = NoFrame]
  /\ UNCHANGED <<tail, frameNeeded, held, frameDebt, spaceDebt>>

(* begin, end, pop_front and pop_back share the loop that waits for frames. *)
FrameWait(c) ==
  /\ \E op \in FrameOps : InFrameOp(c, op)
  /\ NumFrame <= 0
  /\ frameNeeded' = Undone(frameNeeded, c) + 1
  /\ phase' = [phase EXCEPT ![c] = "waiting"]
  /\ UNCHANGED <<ring, spaceNeeded, call, arg, held, frameDebt, spaceDebt>>

(* begin and end return an address that the caller uses without the lock;  *)
(* end computes m_head - 1 without wrapping it.                            *)
ReturnSlot(c, op, slot) ==
  /\ InFrameOp(c, op)
  /\ NumFrame > 0
  /\ held' = [held EXCEPT ![c] = <<op, slot>>]
  /\ frameNeeded' = Undone(frameNeeded, c)
  /\ call'  = [call EXCEPT ![c] = "none"]
  /\ phase' = [phase EXCEPT ![c] = "idle"]
  /\ UNCHANGED <<ring, spaceNeeded, arg, frameDebt, spaceDebt>>

(* mutant: an if where the code has a loop, so that a woken reader trusts  *)
(* the wakeup                                                              *)
BeginUnchecked(c) ==
  /\ call[c] = "begin"
  /\ phase[c] = "woken" \/ (phase[c] = "enter" /\ NumFrame > 0)
  /\ held' = [held EXCEPT ![c] = <<"begin", tail>>]
  /\ frameNeeded' = Undone(frameNeeded, c)
  /\ call'  = [call EXCEPT ![c] = "none"]
  /\ phase' = [phase EXCEPT ![c] = "idle"]
  /\ UNCHANGED <<ring, spaceNeeded, arg, frameDebt, spaceDebt>>

Begin(c) == ReturnSlot(c, "begin", tail)
End(c)   == ReturnSlot(c, "end", head - 1)

PopFront(c) ==
  /\ InFrameOp(c, "pop_front")
  /\ NumFrame > 0
  /\ cache' = [cache EXCEPT ![tail] = NoFrame]
  /\ tail' = Succ(tail)
  /\ frameNeeded' = Undone(frameNeeded, c)
  /\ phase' = [phase EXCEPT ![c] = "notify"]
  /\ held' = [held EXCEPT ![c] = NoSlot]
  /\ UNCHANGED <<head, spaceNeeded, call, arg, frameDebt, spaceDebt>>

(* mutant: pop_back forgets the memset                                     *)
PopBackKeepsSlot(c) ==
  /\ InFrameOp(c, "pop_back")
  /\ NumFrame > 0
  /\ head' = Pred(head)
  /\ frameNeeded' = Undone(frameNeeded, c)
  /\ phase' = [phase EXCEPT ![c] = "notify"]
  /\ held' = [held EXCEPT ![c] = NoSlot]
  /\ UNCHANGED <<cache, tail, spaceNeeded, call, arg, frameDebt, spaceDebt>>

PopBack(c) ==
  /\ InFrameOp(c, "pop_back")
  /\ NumFrame > 0
  /\ cache' = [cache EXCEPT ![Pred(head)] = NoFrame]
  /\ head' = Pred(head)
  /\ frameNeeded' = Undone(frameNeeded, c)
  /\ phase' = [phase EXCEPT ![c] = "notify"]
  /\ held' = [held EXCEPT ![c] = NoSlot]
  /\ UNCHANGED <<tail, spaceNeeded, call, arg, frameDebt, spaceDebt>>

(* mutant: the pop tests the counter of the other condition                *)
NotifyWrongCounter(c) ==
  /\ phase[c] = "notify"
  /\ phase' = Moved(c, "idle", frameNeeded # 0, Producers)
  /\ call' = [call EXCEPT ![c] = "none"]
  /\ UNCHANGED <<ring, frameNeeded, spaceNeeded, arg, held, frameDebt, spaceDebt>>

(* mutant: the pop tests the counter for exactly one waiter                *)
NotifyLoneWaiter(c) ==
  /\ phase[c] = "notify"
  /\ phase' = Moved(c, "idle", spaceNeeded = 1, Producers)
  /\ call' = [call EXCEPT ![c] = "none"]
  /\ UNCHANGED <<ring, frameNeeded, spaceNeeded, arg, held, frameDebt, spaceDebt>>

(* After the unlock: the counter is read, and the broadcast sent, with no  *)
(* lock held.                                                              *)
Notify(c) ==
  /\ phase[c] = "notify"
  /\ phase' = Moved(c, "idle", spaceNeeded # 0, Producers)
  /\ call' = [call EXCEPT ![c] = "none"]
  /\ UNCHANGED <<ring, frameNeeded, spaceNeeded, arg, held, frameDebt, spaceDebt>>

(* clear() empties the ring and zeroes both waiter counters, although the  *)
(* waiters stay where they are, and it broadcasts to nobody.               *)
Clear(c) ==
  /\ call[c] = "clear"
  /\ head' = 0 /\ tail' = 0
  /\ cache' = [i \in Slots |-> NoFrame]
  /\ frameNeeded' = 0 /\ spaceNeeded' = 0
  /\ held' = [held EXCEPT ![c] = NoSlot]
  /\ frameDebt' = Cardinality(Blocked(Consumers))
  /\ spaceDebt' = Cardinality(Blocked(Producers))
  /\ call'  = [call EXCEPT ![c] = "none"]
  /\ phase' = [phase EXCEPT ![c] = "idle"]
  /\ UNCHANGED arg

(* POSIX lets pthread_cond_wait return without a broadcast.                *)
SpuriousWakeup(t) ==
  /\ phase[t] = "waiting"
  /\ phase' = [phase EXCEPT ![t] = "woken"]
  /\ UNCHANGED <<ring, frameNeeded, spaceNeeded, call, arg, held, frameDebt, spaceDebt>>

ProducerStep(p) == PushWait(p) \/ PushStore(p)
ConsumerStep(c) ==
  \/ FrameWait(c) \/ Begin(c) \/ End(c)
  \/ PopFront(c) \/ PopBack(c) \/ Notify(c) \/ Clear(c)

Next ==
  \/ \E p \in Producers : ProducerStep(p) \/ (\E f \in Frames : CallPush(p, f))
  \/ \E c \in Consumers :
       ConsumerStep(c) \/ (\E op \in FrameOps \cup {"clear"} : CallOp(c, op))
  \/ \E t \in Threads : SpuriousWakeup(t)

(***************************************************************************)
(* A thread inside an operation is scheduled until it waits or returns.    *)
(* Nobody has to start an operation, and no wakeup has to be spurious.     *)
(***************************************************************************)
Fairness ==
  /\ \A p \in Producers : WF_vars(ProducerStep(p))
  /\ \A c \in Consumers : WF_vars(ConsumerStep(c))

Spec == Init /\ [][Next]_vars /\ Fairness
-----------------------------------------------------------------------------
(* The queue of frames that the ring stands for.                           *)
SlotOf(k) == IF tail + k >= Size THEN tail + k - Size ELSE tail + k
Contents  == [k \in 1..NumFrame |-> cache[SlotOf(k - 1)]]
Requesting(op) == {t \in Threads : call[t] = op /\ phase[t] \in {"enter", "woken"}}

Queue == INSTANCE BoundedQueue WITH
           Capacity <- Size - 1,
           q        <- Contents,
           offers   <- {<<arg[p]>> : p \in Requesting("push_back")},
           takes    <- {1 : c \in Requesting("pop_front")},
           drops    <- {1 : c \in Requesting("pop_back")},
           clearing <- Requesting("clear") # {}

(***************************************************************************)
(* Type correctness of the ring, of the calls in progress and of the       *)
(* waiter counters, which clear() can drive below zero.                    *)
(***************************************************************************)
TypeOK ==
  /\ head \in Slots /\ tail \in Slots
  /\ cache \in [Slots -> Frames \cup {NoFrame}]
  /\ frameNeeded \in Int /\ spaceNeeded \in Int
  /\ call \in [Threads -> FrameOps \cup {"push_back", "clear", "none"}]
  /\ phase \in [Threads -> Phases]
  /\ arg \in [Producers -> Frames \cup {NoFrame}]
  /\ held \in [Consumers -> {NoSlot} \cup ({"begin", "end"} \X (-1..(Size - 1)))]
  /\ frameDebt \in Nat /\ spaceDebt \in Nat

(***************************************************************************)
(* The ring is a FIFO queue of Size - 1 frames through every wrap of the   *)
(* two indices: push_back appends the caller's frame, the pops remove at   *)
(* the two ends, clear() empties it, nothing else changes it.              *)
(***************************************************************************)
ImplementsQueue == Queue!Spec

(***************************************************************************)
(* A slot holds a frame exactly when it lies between tail and head: what   *)
(* a pop or clear() leaves behind is erased, so that a reader never meets  *)
(* a stale record, and no stored frame is erased early.                    *)
(***************************************************************************)
InRing(i) ==
  IF tail <= head THEN tail <= i /\ i < head ELSE i >= tail \/ i < head
LiveSlotsOnly == \A i \in Slots : cache[i] # NoFrame <=> InRing(i)

(***************************************************************************)
(* m_space_needed and m_frame_needed count the blocked threads, less those *)
(* that the last clear() forgot: a counter clear() zeroed under a waiter   *)
(* stays wrong after the waiter has left (it goes negative).               *)
(***************************************************************************)
CountersAccount ==
  /\ frameNeeded = Cardinality(Blocked(Consumers)) - frameDebt
  /\ spaceNeeded = Cardinality(Blocked(Producers)) - spaceDebt

(***************************************************************************)
(* No lost wakeup while clear() has forgotten nobody: a thread sleeps only *)
(* while what it waits for is missing, or while the pop that made room is  *)
(* still on its way to the broadcast outside the lock.                     *)
(***************************************************************************)
Asleep(T) == \E t \in T : phase[t] = "waiting"
NoLostSpaceWakeup ==
  (spaceDebt = 0 /\ Asleep(Producers))
    => (NumSpace = 0 \/ \E c \in Consumers : phase[c] = "notify")
NoLostFrameWakeup ==
  (frameDebt = 0 /\ Asleep(Consumers)) => NumFrame = 0
NoLostWakeup == NoLostSpaceWakeup /\ NoLostFrameWakeup

(***************************************************************************)
(* With one client thread, the address begin() returned keeps naming the   *)
(* oldest frame until that thread pops or clears, so that get_next_frame   *)
(* may read and shrink the record without the lock while frames are pushed.*)
(***************************************************************************)
BeginPointerStable ==
  \A c \in Consumers : \A i \in -1..(Size - 1) :
    (Consumers = {c} /\ held[c] = <<"begin", i>>) => (i = tail /\ NumFrame > 0)

(***************************************************************************)
(* A producer that sleeps although there is room is woken in the end, by   *)
(* the pop's own broadcast and not by luck, unless clear() forgot it.      *)
(***************************************************************************)
PushReleased ==
  \A p \in Producers :
    (phase[p] = "waiting" /\ NumSpace > 0 /\ spaceDebt = 0)
      ~> (phase[p] # "waiting" \/ spaceDebt # 0)
=============================================================================
