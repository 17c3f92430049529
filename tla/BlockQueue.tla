------------------------------ MODULE BlockQueue ------------------------------
(***************************************************************************)
(* thread_t/block_queue/block_queue.hpp with the producer and consumer     *)
(* threads of its test.cc: a std::queue guarded by one mutex, with one     *)
(* condition variable on which producers wait for room (_in_cond) and one  *)
(* on which consumers wait for data (_out_cond).                           *)
(*                                                                         *)
(* Each thread runs the statements of push or pop one at a time, so that   *)
(* every interleaving of the lock, the test, the wait, the signal and the  *)
(* unlock of several threads is a behaviour.  A woken thread has to take   *)
(* the mutex again and goes back to the loop's test.                       *)
(***************************************************************************)
EXTENDS Naturals, Sequences, FiniteSets

CONSTANTS Producers, Consumers,   \* the threads of test.cc
          Item,                   \* the tasks that are queued
          NoItem,                 \* no task
          Garbage,                \* what a destroyed task may turn out to be
          Cap                     \* _cap

Threads == Producers \cup Consumers

ASSUME BlockQueueAssumption ==
         /\ IsFiniteSet(Producers) /\ IsFiniteSet(Consumers)
         /\ Producers \cap Consumers = {}
         /\ NoItem \notin Item /\ Garbage \notin Item /\ NoItem # Garbage
         /\ Cap \in Nat \ {0}

VARIABLES q,       \* _q, front first
          mutex,   \* the threads that hold _mutex
          pc,      \* where each thread is in push, in pop or in its loop
          item     \* a producer's argument; the task a consumer's reference denotes

vars == <<q, mutex, pc, item>>

-------------------------------------------------------------------------------
is_empty == q = <<>>
\* Mutant of is_full: one place too many.
is_full_late == Len(q) > Cap
is_full == Len(q) = Cap

\* The threads of S that sleep in pthread_cond_wait.
Sleepers(S) == {t \in S : pc[t] = "waiting"}

Goto(t, from, to) == /\ pc[t] = from
                     /\ pc' = [pc EXCEPT ![t] = to]

Init == /\ q = <<>>
        /\ mutex = {}
        /\ pc = [t \in Threads |-> "idle"]
        /\ item = [t \in Threads |-> NoItem]

\* The producer picks a task and enters push with it.
CallPush(p, d) == /\ Goto(p, "idle", "lock")
                  /\ item' = [item EXCEPT ![p] = d]
                  /\ UNCHANGED <<q, mutex>>

\* The consumer comes round its loop and enters pop.
CallPop(c) == /\ Goto(c, "idle", "lock")
              /\ item' = [item EXCEPT ![c] = NoItem]
              /\ UNCHANGED <<q, mutex>>

\* Mutant of Lock: each side has a mutex of its own, as in out_block_queue.
LockOwnSide(t) == /\ mutex \cap (IF t \in Producers THEN Producers ELSE Consumers) = {}
                  /\ Goto(t, "lock", "test")
                  /\ mutex' = mutex \cup {t}
                  /\ UNCHANGED <<q, item>>

\* pthread_mutex_lock, also the one inside pthread_cond_wait after a wakeup.
Lock(t) == /\ mutex = {}
           /\ Goto(t, "lock", "test")
           /\ mutex' = {t}
           /\ UNCHANGED <<q, item>>

\* The loop's condition holds: sleep and release the mutex, in one step.
Wait(t) == /\ IF t \in Producers THEN is_full ELSE is_empty
           /\ Goto(t, "test", "waiting")
           /\ mutex' = {}
           /\ UNCHANGED <<q, item>>

Enqueue(p) == /\ ~is_full
              /\ Goto(p, "test", "signal")
              /\ q' = Append(q, item[p])
              /\ UNCHANGED <<mutex, item>>

\* Mutant of Dequeue: front() without pop().
DequeueFrontOnly(c) == /\ ~is_empty
                       /\ Goto(c, "test", "signal")
                       /\ item' = [item EXCEPT ![c] = Head(q)]
                       /\ UNCHANGED <<q, mutex>>

Dequeue(c) == /\ ~is_empty
              /\ Goto(c, "test", "signal")
              /\ item' = [item EXCEPT ![c] = Head(q)]
              /\ q' = Tail(q)
              /\ UNCHANGED mutex

\* Mutants of Signal: push and pop signal the wrong condition variable; pop
\* does not signal at all.
SignalOwnSide(t) ==
  LET mates == Sleepers(IF t \in Producers THEN Producers ELSE Consumers)
  IN  /\ pc[t] = "signal"
      /\ \/ /\ mates = {}
            /\ pc' = [pc EXCEPT ![t] = "unlock"]
         \/ \E s \in mates : pc' = [pc EXCEPT ![t] = "unlock", ![s] = "lock"]
      /\ UNCHANGED <<q, mutex, item>>

SignalFromPushOnly(t) ==
  LET others == IF t \in Producers THEN Sleepers(Consumers) ELSE {}
  IN  /\ pc[t] = "signal"
      /\ \/ /\ others = {}
            /\ pc' = [pc EXCEPT ![t] = "unlock"]
         \/ \E s \in others : pc' = [pc EXCEPT ![t] = "unlock", ![s] = "lock"]
      /\ UNCHANGED <<q, mutex, item>>

\* pthread_cond_signal: one sleeper of the other side, if there is one, wakes.
Signal(t) ==
  LET others == Sleepers(IF t \in Producers THEN Consumers ELSE Producers)
  IN  /\ pc[t] = "signal"
      /\ \/ /\ others = {}
            /\ pc' = [pc EXCEPT ![t] = "unlock"]
         \/ \E s \in others : pc' = [pc EXCEPT ![t] = "unlock", ![s] = "lock"]
      /\ UNCHANGED <<q, mutex, item>>

Unlock(t) == /\ Goto(t, "unlock", IF t \in Producers THEN "idle" ELSE "got")
             /\ mutex' = {}
             /\ UNCHANGED <<q, item>>

\* The consumer runs the task through the reference pop returned.  _q.pop()
\* has destroyed the object behind it, so what runs is the task or garbage.
Execute(c) == /\ Goto(c, "got", "idle")
              /\ \E r \in {item[c], Garbage} : item' = [item EXCEPT ![c] = r]
              /\ UNCHANGED <<q, mutex>>

\* POSIX lets pthread_cond_wait return without a signal.
SpuriousWakeup(t) == /\ Goto(t, "waiting", "lock")
                     /\ UNCHANGED <<q, mutex, item>>

ProducerStep(p) == \/ \E d \in Item : CallPush(p, d)
                   \/ Lock(p) \/ Wait(p) \/ Enqueue(p) \/ Signal(p) \/ Unlock(p)

ConsumerStep(c) == \/ CallPop(c) \/ Lock(c) \/ Wait(c) \/ Dequeue(c)
                   \/ Signal(c) \/ Unlock(c) \/ Execute(c)

Next == \/ \E p \in Producers : ProducerStep(p)
        \/ \E c \in Consumers : ConsumerStep(c)
        \/ \E t \in Threads : SpuriousWakeup(t)

Spec == Init /\ [][Next]_vars

\* Every thread keeps running: the loops of test.cc never end and a thread is
\* not descheduled for ever.  Nothing is assumed of who wins the mutex or of
\* which sleeper a signal wakes.
FairSpec == /\ Spec
            /\ \A p \in Producers : WF_vars(ProducerStep(p))
            /\ \A c \in Consumers : WF_vars(ConsumerStep(c))

-------------------------------------------------------------------------------
\* Every variable has its type, and _q never outgrows its capacity
\* (block_queue.hpp:37, :72-75).
TypeOK == /\ q \in Seq(Item) /\ Len(q) <= Cap
          /\ mutex \in SUBSET Threads
          /\ pc \in [Threads -> {"idle", "lock", "test", "waiting", "signal",
                                 "unlock", "got"}]
          /\ item \in [Threads -> Item \cup {NoItem, Garbage}]

\* At most one thread is between pthread_mutex_lock and the release, so _q is
\* never accessed by two threads at once (block_queue.hpp:35-45, :50-61).
MutualExclusion ==
  \A t, u \in Threads :
    pc[t] \in {"test", "signal", "unlock"} /\ pc[u] \in {"test", "signal", "unlock"}
      => t = u

Entering(S) == {t \in S : pc[t] \in {"lock", "test"}}
Signalling(S) == {t \in S : pc[t] = "signal"}

\* No wakeup of a consumer is lost (block_queue.hpp:44, :52): as long as a
\* consumer sleeps, each queued task is covered by a consumer already on its
\* way to the test or by a producer that has yet to signal.
NoLostPopWakeup ==
  Sleepers(Consumers) # {} =>
    Len(q) <= Cardinality(Entering(Consumers)) + Cardinality(Signalling(Producers))

\* No wakeup of a producer is lost (block_queue.hpp:37, :60): as long as a
\* producer sleeps, each free place is covered by a producer already on its
\* way to the test or by a consumer that has yet to signal.
NoLostPushWakeup ==
  Sleepers(Producers) # {} =>
    Cap - Len(q) <= Cardinality(Entering(Producers)) + Cardinality(Signalling(Consumers))

\* The safety of the queue itself: its threads never touch _q together, so it keeps its
\* type and its capacity (block_queue.hpp:35-45, :50-61).
Safe == TypeOK /\ MutualExclusion

\* No thread sleeps on work it could do, on either side (block_queue.hpp:37, :44, :52, :60).
NoLostWakeup == NoLostPopWakeup /\ NoLostPushWakeup

\* The queue is a bounded FIFO: an item is accepted at Enqueue, when there is
\* room, and taken at Dequeue, oldest first, by exactly one consumer.
Fifo == INSTANCE BoundedFifo WITH
          buf   <- q,
          offer <- [p \in Producers |-> IF pc[p] \in {"lock", "test", "waiting"}
                                          THEN item[p] ELSE NoItem],
          taken <- [c \in Consumers |-> IF pc[c] \in {"signal", "unlock", "got"}
                                          THEN item[c] ELSE NoItem]

ImplementsFifo == Fifo!Spec

\* If spurious wakeups do not go on for ever, tasks keep being dequeued: the
\* threads never all end up asleep or blocked on each other.
DequeuesForever ==
  <>[][~ \E t \in Threads : SpuriousWakeup(t)]_vars
    => []<><<\E c \in Consumers : Dequeue(c)>>_vars
===============================================================================
