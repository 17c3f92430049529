--------------------------- MODULE BlockQueueProofs ---------------------------
(***************************************************************************)
(* Proofs about BlockQueue for any finite sets of producers and consumers  *)
(* and any capacity: type correctness, mutual exclusion, the two           *)
(* no-lost-wakeup invariants, and the refinement of BoundedFifo.           *)
(***************************************************************************)
EXTENDS BlockQueue, FiniteSetTheorems, TLAPS

\* The mutex is held by the thread that is inside.
HolderInv ==
  \A t \in Threads : pc[t] \in {"test", "signal", "unlock"} => mutex = {t}

\* A producer on its way to Enqueue has a task, and so has a consumer between
\* Dequeue and Execute.
ItemInv ==
  /\ \A p \in Producers : pc[p] \in {"lock", "test", "waiting"} => item[p] \in Item
  /\ \A c \in Consumers : pc[c] \in {"signal", "unlock", "got"} => item[c] \in Item

\* The inductive invariant: types, who holds the mutex, whose item is a task.
IInv == TypeOK /\ HolderInv /\ ItemInv

USE DEF Threads

-------------------------------------------------------------------------------
\* The inductive invariant holds when the threads have just been created.
LEMMA InitIInv == Init => IInv
  BY BlockQueueAssumption DEF Init, IInv, TypeOK, HolderInv, ItemInv

\* Each step preserves the inductive invariant.
LEMMA StepIInv == IInv /\ [Next]_vars => IInv'
<1> SUFFICES ASSUME IInv, [Next]_vars PROVE IInv'
  OBVIOUS
<1> USE BlockQueueAssumption DEF IInv, TypeOK, HolderInv, ItemInv, Goto
<1>1. ASSUME NEW p \in Producers, NEW d \in Item, CallPush(p, d) PROVE IInv'
  BY <1>1 DEF CallPush
<1>2. ASSUME NEW c \in Consumers, CallPop(c) PROVE IInv'
  BY <1>2 DEF CallPop
<1>3. ASSUME NEW t \in Threads, Lock(t) PROVE IInv'
  BY <1>3 DEF Lock
<1>4. ASSUME NEW t \in Threads, Wait(t) PROVE IInv'
  BY <1>4 DEF Wait
<1>5. ASSUME NEW p \in Producers, Enqueue(p) PROVE IInv'
  <2>1. q' \in Seq(Item) /\ Len(q') <= Cap
    BY <1>5 DEF Enqueue, is_full
  <2> QED
    BY <1>5, <2>1 DEF Enqueue
<1>6. ASSUME NEW c \in Consumers, Dequeue(c) PROVE IInv'
  <2>1. Head(q) \in Item /\ Tail(q) \in Seq(Item) /\ Len(Tail(q)) <= Cap
    BY <1>6 DEF Dequeue, is_empty
  <2> QED
    BY <1>6, <2>1 DEF Dequeue
<1>7. ASSUME NEW t \in Threads, Signal(t) PROVE IInv'
  BY <1>7 DEF Signal, Sleepers
<1>8. ASSUME NEW t \in Threads, Unlock(t) PROVE IInv'
  BY <1>8 DEF Unlock
<1>9. ASSUME NEW c \in Consumers, Execute(c) PROVE IInv'
  BY <1>9 DEF Execute
<1>10. ASSUME NEW t \in Threads, SpuriousWakeup(t) PROVE IInv'
  BY <1>10 DEF SpuriousWakeup
<1>11. CASE UNCHANGED vars
  BY <1>11 DEF vars
<1> QED
  BY <1>1, <1>2, <1>3, <1>4, <1>5, <1>6, <1>7, <1>8, <1>9, <1>10, <1>11
     DEF Next, ProducerStep, ConsumerStep

\* The inductive invariant holds in every execution.
LEMMA AlwaysIInv == Spec => []IInv
<1>1. Init => IInv
  BY InitIInv
<1>2. IInv /\ [Next]_vars => IInv'
  BY StepIInv
<1> QED
  BY <1>1, <1>2, PTL DEF Spec

\* The queue, the mutex, the program counters and the references of every
\* thread keep their types in every execution.
THEOREM TypeCorrect == Spec => []TypeOK
<1>1. IInv => TypeOK
  BY DEF IInv
<1> QED
  BY <1>1, AlwaysIInv, PTL

\* No two threads are ever between the lock and the release of _mutex, so _q
\* is accessed by one thread at a time (block_queue.hpp:35-45, :50-61).
THEOREM Exclusion == Spec => []MutualExclusion
<1>1. IInv => MutualExclusion
  BY DEF IInv, HolderInv, MutualExclusion
<1> QED
  BY <1>1, AlwaysIInv, PTL

-------------------------------------------------------------------------------
(***************************************************************************)
(* No lost wakeup.  The invariant compares a length with the number of     *)
(* threads at certain places, so each step is followed through the sets of *)
(* those threads: a step adds one thread to such a set, removes one, or    *)
(* leaves it alone.                                                        *)
(***************************************************************************)

\* The threads at a place of push or pop are finitely many.
LEMMA PlacesFinite ==
  ASSUME NEW S \in {Producers, Consumers}
  PROVE  /\ IsFiniteSet(Entering(S)) /\ Cardinality(Entering(S)) \in Nat
         /\ IsFiniteSet(Signalling(S)) /\ Cardinality(Signalling(S)) \in Nat
<1>1. IsFiniteSet(S)
  BY BlockQueueAssumption
<1>2. Entering(S) \in SUBSET S /\ Signalling(S) \in SUBSET S
  BY DEF Entering, Signalling
<1> QED
  BY <1>1, <1>2, FS_Subset, FS_CardinalityType

\* Adding a new member adds one to a cardinality.
LEMMA AddOne ==
  ASSUME NEW S, IsFiniteSet(S), NEW x, x \notin S
  PROVE  Cardinality(S \cup {x}) = Cardinality(S) + 1
  BY FS_AddElement

\* Removing a member takes one off a cardinality.
LEMMA DropOne ==
  ASSUME NEW S, IsFiniteSet(S), NEW x \in S
  PROVE  Cardinality(S \ {x}) = Cardinality(S) - 1
  BY FS_RemoveElement

\* Each step preserves the balance of queued tasks and consumers on their way.
LEMMA StepNoLostPopWakeup == IInv /\ NoLostPopWakeup /\ [Next]_vars => NoLostPopWakeup'
<1> SUFFICES ASSUME IInv, NoLostPopWakeup, [Next]_vars PROVE NoLostPopWakeup'
  OBVIOUS
<1> DEFINE E == Entering(Consumers)
           S == Signalling(Producers)
           W == Sleepers(Consumers)
<1>0. /\ IsFiniteSet(E) /\ Cardinality(E) \in Nat
      /\ IsFiniteSet(S) /\ Cardinality(S) \in Nat
      /\ Len(q) \in Nat /\ Cap \in Nat /\ Len(q) <= Cap
  BY PlacesFinite, BlockQueueAssumption DEF IInv, TypeOK
\* A step that leaves the queue and the three sets alone, or only adds to E.
<1>a. ASSUME q' = q, E' = E, S' = S, W' = W PROVE NoLostPopWakeup'
  BY <1>a DEF NoLostPopWakeup
<1>b. ASSUME q' = q, S' = S, W' # {} => W # {}, NEW x, x \notin E, E' = E \cup {x}
      PROVE  NoLostPopWakeup'
  BY <1>b, <1>0, AddOne DEF NoLostPopWakeup
\* The task or the place that appears is covered by a new signaller.
<1>c. ASSUME Len(q') = Len(q) + 1, W' = W, E' = E,
             NEW x, x \notin S, S' = S \cup {x}
      PROVE  NoLostPopWakeup'
  BY <1>c, <1>0, AddOne DEF NoLostPopWakeup
\* The task or the place that goes was covered by a thread on its way.
<1>d. ASSUME Len(q') = Len(q) - 1, W' = W, S' = S,
             NEW x \in E, E' = E \ {x}
      PROVE  NoLostPopWakeup'
  BY <1>d, <1>0, DropOne DEF NoLostPopWakeup
\* A signaller hands over to the sleeper it wakes.
<1>e. ASSUME q' = q, W # {}, NEW x \in S, S' = S \ {x},
             NEW y, y \notin E, E' = E \cup {y}
      PROVE  NoLostPopWakeup'
  BY <1>e, <1>0, AddOne, DropOne DEF NoLostPopWakeup
\* A thread falls asleep when there is nothing to cover.
<1>f. ASSUME q' = q, Len(q) = 0, S' = S, NEW x \in E, E' = E \ {x}
      PROVE  NoLostPopWakeup'
  <2>1. Cardinality(E') \in Nat
    BY <1>f, <1>0, FS_RemoveElement, FS_CardinalityType
  <2> QED
    BY <1>f, <1>0, <2>1 DEF NoLostPopWakeup
<1> USE BlockQueueAssumption
<1> USE DEF IInv, TypeOK, Goto, Entering, Signalling, Sleepers
<1>1. ASSUME NEW p \in Producers, NEW d \in Item, CallPush(p, d) PROVE NoLostPopWakeup'
  <2>1. q' = q /\ E' = E /\ S' = S /\ W' = W
    BY <1>1 DEF CallPush
  <2> QED
    BY <2>1, <1>a
<1>2. ASSUME NEW c \in Consumers, CallPop(c) PROVE NoLostPopWakeup'
  <2>1. q' = q /\ S' = S /\ W' = W /\ c \notin E /\ E' = E \cup {c}
    BY <1>2 DEF CallPop
  <2> QED
    BY <2>1, <1>b
<1>3. ASSUME NEW t \in Threads, Lock(t) PROVE NoLostPopWakeup'
  <2>1. q' = q /\ E' = E /\ S' = S /\ W' = W
    BY <1>3 DEF Lock
  <2> QED
    BY <2>1, <1>a
<1>4. ASSUME NEW t \in Threads, Wait(t) PROVE NoLostPopWakeup'
  <2>1. CASE t \in Consumers
    <3>1. Len(q) = 0 /\ q' = q /\ S' = S
      BY <1>4, <2>1 DEF Wait, is_full, is_empty
    <3>2. E' = E \ {t} /\ t \in E
      BY <1>4, <2>1 DEF Wait
    <3> QED
      BY <3>1, <3>2, <1>f
  <2>2. CASE t \in Producers
    <3>1. q' = q /\ E' = E /\ S' = S /\ W' = W
      BY <1>4, <2>2 DEF Wait
    <3> QED
      BY <3>1, <1>a
  <2> QED
    BY <2>1, <2>2
<1>5. ASSUME NEW p \in Producers, Enqueue(p) PROVE NoLostPopWakeup'
  <2>1. Len(q') = Len(q) + 1
    BY <1>5 DEF Enqueue, ItemInv
  <2>2. p \notin S /\ S' = S \cup {p} /\ E' = E /\ W' = W
    BY <1>5 DEF Enqueue
  <2> QED
    BY <2>1, <2>2, <1>c
<1>6. ASSUME NEW c \in Consumers, Dequeue(c) PROVE NoLostPopWakeup'
  <2>1. Len(q') = Len(q) - 1
    BY <1>6 DEF Dequeue, is_empty
  <2>2. c \in E /\ E' = E \ {c} /\ S' = S /\ W' = W
    BY <1>6 DEF Dequeue
  <2> QED
    BY <2>1, <2>2, <1>d
<1>7. ASSUME NEW t \in Producers, Signal(t) PROVE NoLostPopWakeup'
  <2>1. CASE W = {}
    <3>1. W' = {}
      BY <1>7, <2>1 DEF Signal
    <3> QED
      BY <3>1 DEF NoLostPopWakeup
  <2>2. CASE W # {}
    <3>1. PICK s \in W : pc' = [pc EXCEPT ![t] = "unlock", ![s] = "lock"]
      BY <1>7, <2>2 DEF Signal
    <3>2. q' = q /\ t \in S /\ S' = S \ {t} /\ s \notin E /\ E' = E \cup {s}
      BY <1>7, <3>1 DEF Signal
    <3> QED
      BY <3>2, <2>2, <1>e
  <2> QED
    BY <2>1, <2>2
<1>8. ASSUME NEW t \in Consumers, Signal(t) PROVE NoLostPopWakeup'
  <2>1. q' = q /\ E' = E /\ S' = S /\ W' = W
    BY <1>8 DEF Signal
  <2> QED
    BY <2>1, <1>a
<1>9. ASSUME NEW t \in Threads, Unlock(t) PROVE NoLostPopWakeup'
  <2>1. q' = q /\ E' = E /\ S' = S /\ W' = W
    BY <1>9 DEF Unlock
  <2> QED
    BY <2>1, <1>a
<1>10. ASSUME NEW c \in Consumers, Execute(c) PROVE NoLostPopWakeup'
  <2>1. q' = q /\ E' = E /\ S' = S /\ W' = W
    BY <1>10 DEF Execute
  <2> QED
    BY <2>1, <1>a
<1>11. ASSUME NEW t \in Threads, SpuriousWakeup(t) PROVE NoLostPopWakeup'
  <2>1. CASE t \in Consumers
    <3>1. q' = q /\ S' = S /\ W # {} /\ t \notin E /\ E' = E \cup {t}
      BY <1>11, <2>1 DEF SpuriousWakeup
    <3> QED
      BY <3>1, <1>b
  <2>2. CASE t \in Producers
    <3>1. q' = q /\ E' = E /\ S' = S /\ W' = W
      BY <1>11, <2>2 DEF SpuriousWakeup
    <3> QED
      BY <3>1, <1>a
  <2> QED
    BY <2>1, <2>2
<1>12. CASE UNCHANGED vars
  <2>1. q' = q /\ E' = E /\ S' = S /\ W' = W
    BY <1>12 DEF vars
  <2> QED
    BY <2>1, <1>a
<1> HIDE DEF IInv, TypeOK, Goto, Entering, Signalling, Sleepers, E, S, W
<1> QED
  BY <1>1, <1>2, <1>3, <1>4, <1>5, <1>6, <1>7, <1>8, <1>9, <1>10, <1>11, <1>12
     DEF Next, ProducerStep, ConsumerStep

\* Whatever the number of threads and the capacity, while a consumer sleeps
\* every queued task has a consumer on its way or a signal still to come
\* (block_queue.hpp:44, :52).
THEOREM PopWakeups == Spec => []NoLostPopWakeup
<1>1. Init => NoLostPopWakeup
  BY DEF Init, NoLostPopWakeup, Sleepers
<1>2. IInv /\ NoLostPopWakeup /\ [Next]_vars => NoLostPopWakeup'
  BY StepNoLostPopWakeup
<1> QED
  BY <1>1, <1>2, AlwaysIInv, PTL DEF Spec

\* Each step preserves the balance of free places and producers on their way.
LEMMA StepNoLostPushWakeup == IInv /\ NoLostPushWakeup /\ [Next]_vars => NoLostPushWakeup'
<1> SUFFICES ASSUME IInv, NoLostPushWakeup, [Next]_vars PROVE NoLostPushWakeup'
  OBVIOUS
<1> DEFINE E == Entering(Producers)
           S == Signalling(Consumers)
           W == Sleepers(Producers)
<1>0. /\ IsFiniteSet(E) /\ Cardinality(E) \in Nat
      /\ IsFiniteSet(S) /\ Cardinality(S) \in Nat
      /\ Len(q) \in Nat /\ Cap \in Nat /\ Len(q) <= Cap
  BY PlacesFinite, BlockQueueAssumption DEF IInv, TypeOK
\* A step that leaves the queue and the three sets alone, or only adds to E.
<1>a. ASSUME q' = q, E' = E, S' = S, W' = W PROVE NoLostPushWakeup'
  BY <1>a DEF NoLostPushWakeup
<1>b. ASSUME q' = q, S' = S, W' # {} => W # {}, NEW x, x \notin E, E' = E \cup {x}
      PROVE  NoLostPushWakeup'
  BY <1>b, <1>0, AddOne DEF NoLostPushWakeup
\* The task or the place that appears is covered by a new signaller.
<1>c. ASSUME Len(q') = Len(q) - 1, W' = W, E' = E,
             NEW x, x \notin S, S' = S \cup {x}
      PROVE  NoLostPushWakeup'
  BY <1>c, <1>0, AddOne DEF NoLostPushWakeup
\* The task or the place that goes was covered by a thread on its way.
<1>d. ASSUME Len(q') = Len(q) + 1, W' = W, S' = S,
             NEW x \in E, E' = E \ {x}
      PROVE  NoLostPushWakeup'
  BY <1>d, <1>0, DropOne DEF NoLostPushWakeup
\* A signaller hands over to the sleeper it wakes.
<1>e. ASSUME q' = q, W # {}, NEW x \in S, S' = S \ {x},
             NEW y, y \notin E, E' = E \cup {y}
      PROVE  NoLostPushWakeup'
  BY <1>e, <1>0, AddOne, DropOne DEF NoLostPushWakeup
\* A thread falls asleep when there is nothing to cover.
<1>f. ASSUME q' = q, Cap - Len(q) = 0, S' = S, NEW x \in E, E' = E \ {x}
      PROVE  NoLostPushWakeup'
  <2>1. Cardinality(E') \in Nat
    BY <1>f, <1>0, FS_RemoveElement, FS_CardinalityType
  <2> QED
    BY <1>f, <1>0, <2>1 DEF NoLostPushWakeup
<1> USE BlockQueueAssumption
<1> USE DEF IInv, TypeOK, Goto, Entering, Signalling, Sleepers
<1>1. ASSUME NEW p \in Producers, NEW d \in Item, CallPush(p, d) PROVE NoLostPushWakeup'
  <2>1. q' = q /\ S' = S /\ W' = W /\ p \notin E /\ E' = E \cup {p}
    BY <1>1 DEF CallPush
  <2> QED
    BY <2>1, <1>b
<1>2. ASSUME NEW c \in Consumers, CallPop(c) PROVE NoLostPushWakeup'
  <2>1. q' = q /\ E' = E /\ S' = S /\ W' = W
    BY <1>2 DEF CallPop
  <2> QED
    BY <2>1, <1>a
<1>3. ASSUME NEW t \in Threads, Lock(t) PROVE NoLostPushWakeup'
  <2>1. q' = q /\ E' = E /\ S' = S /\ W' = W
    BY <1>3 DEF Lock
  <2> QED
    BY <2>1, <1>a
<1>4. ASSUME NEW t \in Threads, Wait(t) PROVE NoLostPushWakeup'
  <2>1. CASE t \in Producers
    <3>1. Cap - Len(q) = 0 /\ q' = q /\ S' = S
      BY <1>4, <2>1 DEF Wait, is_full, is_empty
    <3>2. E' = E \ {t} /\ t \in E
      BY <1>4, <2>1 DEF Wait
    <3> QED
      BY <3>1, <3>2, <1>f
  <2>2. CASE t \in Consumers
    <3>1. q' = q /\ E' = E /\ S' = S /\ W' = W
      BY <1>4, <2>2 DEF Wait
    <3> QED
      BY <3>1, <1>a
  <2> QED
    BY <2>1, <2>2
<1>5. ASSUME NEW p \in Producers, Enqueue(p) PROVE NoLostPushWakeup'
  <2>1. Len(q') = Len(q) + 1
    BY <1>5 DEF Enqueue, ItemInv
  <2>2. p \in E /\ E' = E \ {p} /\ S' = S /\ W' = W
    BY <1>5 DEF Enqueue
  <2> QED
    BY <2>1, <2>2, <1>d
<1>6. ASSUME NEW c \in Consumers, Dequeue(c) PROVE NoLostPushWakeup'
  <2>1. Len(q') = Len(q) - 1
    BY <1>6 DEF Dequeue, is_empty
  <2>2. c \notin S /\ S' = S \cup {c} /\ E' = E /\ W' = W
    BY <1>6 DEF Dequeue
  <2> QED
    BY <2>1, <2>2, <1>c
<1>7. ASSUME NEW t \in Consumers, Signal(t) PROVE NoLostPushWakeup'
  <2>1. CASE W = {}
    <3>1. W' = {}
      BY <1>7, <2>1 DEF Signal
    <3> QED
      BY <3>1 DEF NoLostPushWakeup
  <2>2. CASE W # {}
    <3>1. PICK s \in W : pc' = [pc EXCEPT ![t] = "unlock", ![s] = "lock"]
      BY <1>7, <2>2 DEF Signal
    <3>2. q' = q /\ t \in S /\ S' = S \ {t} /\ s \notin E /\ E' = E \cup {s}
      BY <1>7, <3>1 DEF Signal
    <3> QED
      BY <3>2, <2>2, <1>e
  <2> QED
    BY <2>1, <2>2
<1>8. ASSUME NEW t \in Producers, Signal(t) PROVE NoLostPushWakeup'
  <2>1. q' = q /\ E' = E /\ S' = S /\ W' = W
    BY <1>8 DEF Signal
  <2> QED
    BY <2>1, <1>a
<1>9. ASSUME NEW t \in Threads, Unlock(t) PROVE NoLostPushWakeup'
  <2>1. q' = q /\ E' = E /\ S' = S /\ W' = W
    BY <1>9 DEF Unlock
  <2> QED
    BY <2>1, <1>a
<1>10. ASSUME NEW c \in Consumers, Execute(c) PROVE NoLostPushWakeup'
  <2>1. q' = q /\ E' = E /\ S' = S /\ W' = W
    BY <1>10 DEF Execute
  <2> QED
    BY <2>1, <1>a
<1>11. ASSUME NEW t \in Threads, SpuriousWakeup(t) PROVE NoLostPushWakeup'
  <2>1. CASE t \in Producers
    <3>1. q' = q /\ S' = S /\ W # {} /\ t \notin E /\ E' = E \cup {t}
      BY <1>11, <2>1 DEF SpuriousWakeup
    <3> QED
      BY <3>1, <1>b
  <2>2. CASE t \in Consumers
    <3>1. q' = q /\ E' = E /\ S' = S /\ W' = W
      BY <1>11, <2>2 DEF SpuriousWakeup
    <3> QED
      BY <3>1, <1>a
  <2> QED
    BY <2>1, <2>2
<1>12. CASE UNCHANGED vars
  <2>1. q' = q /\ E' = E /\ S' = S /\ W' = W
    BY <1>12 DEF vars
  <2> QED
    BY <2>1, <1>a
<1> HIDE DEF IInv, TypeOK, Goto, Entering, Signalling, Sleepers, E, S, W
<1> QED
  BY <1>1, <1>2, <1>3, <1>4, <1>5, <1>6, <1>7, <1>8, <1>9, <1>10, <1>11, <1>12
     DEF Next, ProducerStep, ConsumerStep

\* Whatever the number of threads and the capacity, while a producer sleeps
\* every free place has a producer on its way or a signal still to come
\* (block_queue.hpp:37, :60).
THEOREM PushWakeups == Spec => []NoLostPushWakeup
<1>1. Init => NoLostPushWakeup
  BY DEF Init, NoLostPushWakeup, Sleepers
<1>2. IInv /\ NoLostPushWakeup /\ [Next]_vars => NoLostPushWakeup'
  BY StepNoLostPushWakeup
<1> QED
  BY <1>1, <1>2, AlwaysIInv, PTL DEF Spec

\* For any threads and any capacity: _q is accessed by one thread at a time and keeps its
\* type and its bound (block_queue.hpp:35-45, :50-61).
THEOREM Safety == Spec => []Safe
  BY TypeCorrect, Exclusion, PTL DEF Safe

\* For any threads and any capacity: no thread of either side sleeps while work for it is
\* covered by no signal to come and no thread awake (block_queue.hpp:37, :44, :52, :60).
THEOREM Wakeups == Spec => []NoLostWakeup
  BY PopWakeups, PushWakeups, PTL DEF NoLostWakeup

-------------------------------------------------------------------------------
(***************************************************************************)
(* Refinement.  Enqueue is the abstract Put, Dequeue the abstract Take,    *)
(* CallPush offers an item and Execute finishes with one; every other step *)
(* leaves the abstract buffer and what the threads hold unchanged.         *)
(***************************************************************************)
offerBar == [p \in Producers |-> IF pc[p] \in {"lock", "test", "waiting"}
                                   THEN item[p] ELSE NoItem]
takenBar == [c \in Consumers |-> IF pc[c] \in {"signal", "unlock", "got"}
                                   THEN item[c] ELSE NoItem]

\* A step of a thread is an abstract step or an abstract stutter.
LEMMA StepFifo == IInv /\ [Next]_vars => [Fifo!Next]_<<q, offerBar, takenBar>>
<1> SUFFICES ASSUME IInv, [Next]_vars
             PROVE  Fifo!Next \/ UNCHANGED <<q, offerBar, takenBar>>
  OBVIOUS
<1> USE BlockQueueAssumption
<1> USE DEF IInv, TypeOK, Goto, offerBar, takenBar
<1>1. ASSUME NEW p \in Producers, NEW d \in Item, CallPush(p, d)
      PROVE  Fifo!Offer(p, d)
  BY <1>1 DEF CallPush, Fifo!Offer
<1>2. ASSUME NEW c \in Consumers, CallPop(c)
      PROVE  UNCHANGED <<q, offerBar, takenBar>>
  BY <1>2 DEF CallPop
<1>3. ASSUME NEW t \in Threads, Lock(t)
      PROVE  UNCHANGED <<q, offerBar, takenBar>>
  BY <1>3 DEF Lock
<1>4. ASSUME NEW t \in Threads, Wait(t)
      PROVE  UNCHANGED <<q, offerBar, takenBar>>
  BY <1>4 DEF Wait
<1>5. ASSUME NEW p \in Producers, Enqueue(p) PROVE Fifo!Put(p)
  <2>1. item[p] # NoItem /\ Len(q) < Cap /\ offerBar[p] = item[p]
    BY <1>5 DEF Enqueue, is_full, ItemInv
  <2>2. offerBar' = [offerBar EXCEPT ![p] = NoItem] /\ takenBar' = takenBar
    BY <1>5 DEF Enqueue
  <2> QED
    BY <1>5, <2>1, <2>2 DEF Enqueue, Fifo!Put
<1>6. ASSUME NEW c \in Consumers, Dequeue(c) PROVE Fifo!Take(c)
  <2>1. takenBar[c] = NoItem /\ q # <<>> /\ q' = Tail(q)
    BY <1>6 DEF Dequeue, is_empty
  <2>2. takenBar' = [takenBar EXCEPT ![c] = Head(q)] /\ offerBar' = offerBar
    BY <1>6 DEF Dequeue
  <2> QED
    BY <2>1, <2>2 DEF Fifo!Take
<1>7. ASSUME NEW t \in Threads, Signal(t)
      PROVE  UNCHANGED <<q, offerBar, takenBar>>
  BY <1>7 DEF Signal, Sleepers
<1>8. ASSUME NEW t \in Threads, Unlock(t)
      PROVE  UNCHANGED <<q, offerBar, takenBar>>
  BY <1>8 DEF Unlock
<1>9. ASSUME NEW c \in Consumers, Execute(c) PROVE Fifo!Finish(c)
  BY <1>9 DEF Execute, Fifo!Finish, ItemInv
<1>10. ASSUME NEW t \in Threads, SpuriousWakeup(t)
       PROVE  UNCHANGED <<q, offerBar, takenBar>>
  BY <1>10 DEF SpuriousWakeup
<1>11. CASE UNCHANGED vars
  BY <1>11 DEF vars
<1> HIDE DEF IInv, TypeOK, Goto, offerBar, takenBar
<1> QED
  BY <1>1, <1>2, <1>3, <1>4, <1>5, <1>6, <1>7, <1>8, <1>9, <1>10, <1>11
     DEF Next, ProducerStep, ConsumerStep, Fifo!Next

\* block_queue implements the bounded FIFO for any threads and any capacity:
\* every execution of push and pop is one of the abstract buffer.
THEOREM BlockQueueRefines == Spec => ImplementsFifo
<1>1. Init => Fifo!Init
  BY DEF Init, Fifo!Init
<1>2. IInv /\ [Next]_vars => [Fifo!Next]_(Fifo!fifoVars)
  BY StepFifo DEF Fifo!fifoVars, offerBar, takenBar
<1> QED
  BY <1>1, <1>2, AlwaysIInv, PTL DEF Spec, ImplementsFifo, Fifo!Spec

-------------------------------------------------------------------------------
(***************************************************************************)
(* Nobody is stuck.  TLC's deadlock check would not notice threads that    *)
(* all sleep, since a spurious wakeup may always come; the code must not   *)
(* depend on one.                                                          *)
(***************************************************************************)
\* Thread t can do its next statement, without a spurious wakeup: only pthread_mutex_lock
\* and pthread_cond_wait block.
CanStep(t) == \/ pc[t] \in {"test", "signal", "unlock", "got"}
              \/ pc[t] = "idle" /\ (t \in Producers => Item # {})
              \/ pc[t] = "lock" /\ mutex = {}

SomebodyCanStep == \E t \in Threads : CanStep(t)

\* A mutex that is taken has a holder, which is inside.
HeldInv == mutex # {} =>
             \E t \in Threads : mutex = {t} /\ pc[t] \in {"test", "signal", "unlock"}

\* Each step preserves it.
LEMMA StepHeld == ASSUME IInv, HeldInv, [Next]_vars PROVE HeldInv'
<1> USE BlockQueueAssumption DEF IInv, TypeOK, HolderInv, HeldInv, Goto
<1>1. ASSUME NEW p \in Producers, NEW d \in Item, CallPush(p, d) PROVE HeldInv'
  BY <1>1 DEF CallPush
<1>2. ASSUME NEW c \in Consumers, CallPop(c) \/ Execute(c) PROVE HeldInv'
  BY <1>2 DEF CallPop, Execute
<1>3. ASSUME NEW t \in Threads, Lock(t) PROVE HeldInv'
  BY <1>3 DEF Lock
<1>4. ASSUME NEW t \in Threads, Wait(t) \/ Unlock(t) PROVE HeldInv'
  BY <1>4 DEF Wait, Unlock
<1>5. ASSUME NEW p \in Producers, Enqueue(p) PROVE HeldInv'
  BY <1>5 DEF Enqueue
<1>6. ASSUME NEW c \in Consumers, Dequeue(c) PROVE HeldInv'
  BY <1>6 DEF Dequeue
<1>7. ASSUME NEW t \in Threads, Signal(t) PROVE HeldInv'
  <2>1. mutex' = mutex /\ mutex = {t} /\ pc'[t] = "unlock"
    BY <1>7 DEF Signal, Sleepers
  <2> QED
    BY <2>1
<1>8. ASSUME NEW t \in Threads, SpuriousWakeup(t) PROVE HeldInv'
  BY <1>8 DEF SpuriousWakeup
<1>9. CASE UNCHANGED vars
  BY <1>9 DEF vars
<1> QED
  BY <1>1, <1>2, <1>3, <1>4, <1>5, <1>6, <1>7, <1>8, <1>9 DEF Next, ProducerStep, ConsumerStep

\* If every thread slept or waited for the mutex, some would be covered by nobody.
LEMMA SomebodyCan ==
  ASSUME IInv, HeldInv, NoLostWakeup, Producers # {}, Consumers # {}, Item # {}
  PROVE  SomebodyCanStep
<1> SUFFICES ASSUME \A t \in Threads : ~ CanStep(t) PROVE FALSE
  BY DEF SomebodyCanStep
<1>1. \A t \in Threads : pc[t] \in {"lock", "waiting"}
  BY DEF IInv, TypeOK, CanStep
<1>2. mutex = {}
  BY <1>1 DEF HeldInv
<1>3. \A t \in Threads : pc[t] = "waiting"
  BY <1>1, <1>2 DEF CanStep
<1>4. /\ Entering(Producers) = {} /\ Signalling(Producers) = {} /\ Sleepers(Producers) # {}
      /\ Entering(Consumers) = {} /\ Signalling(Consumers) = {} /\ Sleepers(Consumers) # {}
  BY <1>3 DEF Entering, Signalling, Sleepers
<1>5. Cardinality({}) = 0
  BY FS_EmptySet
<1>6. Len(q) <= 0 + 0 /\ Cap - Len(q) <= 0 + 0
  BY <1>4, <1>5 DEF NoLostWakeup, NoLostPopWakeup, NoLostPushWakeup
<1>7. Len(q) \in Nat /\ Cap \in Nat \ {0}
  BY BlockQueueAssumption DEF IInv, TypeOK
<1> QED
  BY <1>6, <1>7

\* Whatever the number of producers and consumers (one of each at least, and a task), the
\* capacity and the schedule: at any time some thread can do its next statement, even if no
\* wakeup is spurious (block_queue.hpp:35-61).
THEOREM NeverStuck ==
  Producers # {} /\ Consumers # {} /\ Item # {} => (Spec => []SomebodyCanStep)
<1> SUFFICES ASSUME Producers # {}, Consumers # {}, Item # {}
             PROVE  Spec => []SomebodyCanStep
  OBVIOUS
<1>1. Init => HeldInv
  BY DEF Init, HeldInv
<1>2. IInv /\ HeldInv /\ [Next]_vars => HeldInv'
  BY StepHeld
<1>3. IInv /\ HeldInv /\ NoLostWakeup => SomebodyCanStep
  BY SomebodyCan
<1> QED
  BY <1>1, <1>2, <1>3, AlwaysIInv, Wakeups, PTL DEF Spec
===============================================================================
