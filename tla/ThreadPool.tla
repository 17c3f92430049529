------------------------------- MODULE ThreadPool -------------------------------
(***************************************************************************)
(* thread_t/thread_pool: thread_pool.hpp over out_block_queue.hpp, driven  *)
(* by the main thread of test.cc.  run() creates the workers; main then    *)
(* pushes tasks for ever, and each worker pops a task and runs it for      *)
(* ever.  push holds _in_mutex and pop holds _out_mutex, so a push can     *)
(* happen between any two statements of a pop, between its test of the     *)
(* queue and its wait in particular.                                       *)
(***************************************************************************)
EXTENDS Naturals, Sequences, FiniteSets

CONSTANTS Main,       \* the thread that pushes
          Workers,    \* the threads of _vp
          Item,       \* the tasks
          NoItem,     \* no task
          Garbage,    \* what copying a destroyed task may give
          QMax        \* bound of the model, see CallPush

Threads == {Main} \cup Workers

ASSUME ThreadPoolAssumption ==
         /\ IsFiniteSet(Workers) /\ Main \notin Workers
         /\ NoItem \notin Item /\ Garbage \notin Item /\ NoItem # Garbage
         /\ QMax \in Nat \ {0}

VARIABLES q,          \* _bq._q, front first
          inMutex,    \* whether _in_mutex is held
          outMutex,   \* the workers that hold _out_mutex
          pc,         \* where each thread is
          item,       \* main's argument; the task a worker was given
          crashed     \* the two sides collided inside the std::queue

vars == <<q, inMutex, outMutex, pc, item, crashed>>

-------------------------------------------------------------------------------
Sleepers == {w \in Workers : pc[w] = "waiting"}

\* A crashed process takes no step.
Goto(t, from, to) == /\ ~crashed
                     /\ pc[t] = from
                     /\ pc' = [pc EXCEPT ![t] = to]

Init == /\ q = <<>>
        /\ inMutex = FALSE
        /\ outMutex = {}
        /\ pc = [t \in Threads |-> IF t = Main THEN "run" ELSE "none"]
        /\ item = [t \in Threads |-> NoItem]
        /\ crashed = FALSE

\* run(): the constructor of pthread starts the worker's routine.
StartWorker(w) == /\ pc[Main] = "run"
                  /\ Goto(w, "none", "idle")
                  /\ UNCHANGED <<q, inMutex, outMutex, item, crashed>>

FinishRun == /\ \A w \in Workers : pc[w] # "none"
             /\ Goto(Main, "run", "idle")
             /\ UNCHANGED <<q, inMutex, outMutex, item, crashed>>

\* test.cc picks a task and enters push.  The queue itself has no bound; the
\* model's main does not run ahead of the workers by more than QMax tasks, but
\* it does come back when they all sleep, whatever is queued.
CallPush(d) == /\ Len(q) < QMax \/ Sleepers = Workers
               /\ Goto(Main, "idle", "lock")
               /\ item' = [item EXCEPT ![Main] = d]
               /\ UNCHANGED <<q, inMutex, outMutex, crashed>>

LockIn == /\ ~inMutex
          /\ Goto(Main, "lock", "store")
          /\ inMutex' = TRUE
          /\ UNCHANGED <<q, outMutex, item, crashed>>

Store == /\ Goto(Main, "store", "signal")
         /\ q' = Append(q, item[Main])
         /\ UNCHANGED <<inMutex, outMutex, item, crashed>>

\* Mutant of Signal: push does not signal.
SignalNobody == /\ Goto(Main, "signal", "unlock")
                /\ UNCHANGED <<q, inMutex, outMutex, item, crashed>>

\* pthread_cond_signal, without holding the mutex the sleepers wait with.
Signal == /\ ~crashed /\ pc[Main] = "signal"
          /\ \/ /\ Sleepers = {}
                /\ pc' = [pc EXCEPT ![Main] = "unlock"]
             \/ \E w \in Sleepers :
                  pc' = [pc EXCEPT ![Main] = "unlock", ![w] = "lock"]
          /\ UNCHANGED <<q, inMutex, outMutex, item, crashed>>

UnlockIn == /\ Goto(Main, "unlock", "idle")
            /\ inMutex' = FALSE
            /\ UNCHANGED <<q, outMutex, item, crashed>>

CallPop(w) == /\ Goto(w, "idle", "lock")
              /\ item' = [item EXCEPT ![w] = NoItem]
              /\ UNCHANGED <<q, inMutex, outMutex, crashed>>

\* Mutant of LockOut: pop does not take _out_mutex.
LockOutSkipped(w) == /\ Goto(w, "lock", "test")
                     /\ outMutex' = {w}
                     /\ UNCHANGED <<q, inMutex, item, crashed>>

\* pthread_mutex_lock, also the one inside pthread_cond_wait after a wakeup.
LockOut(w) == /\ outMutex = {}
              /\ Goto(w, "lock", "test")
              /\ outMutex' = {w}
              /\ UNCHANGED <<q, inMutex, item, crashed>>

\* while (is_empty())
Test(w) == /\ Goto(w, "test", IF q = <<>> THEN "sleep" ELSE "remove")
           /\ UNCHANGED <<q, inMutex, outMutex, item, crashed>>

\* Mutant of Wait: it is given the other mutex to release.
WaitWithInMutex(w) == /\ Goto(w, "sleep", "waiting")
                      /\ UNCHANGED <<q, inMutex, outMutex, item, crashed>>

\* pthread_cond_wait: from here on a signal is noticed.
Wait(w) == /\ Goto(w, "sleep", "waiting")
           /\ outMutex' = {}
           /\ UNCHANGED <<q, inMutex, item, crashed>>

\* Mutant of Remove: back() for front().
RemoveBack(w) == /\ Goto(w, "remove", "unlock")
                 /\ item' = [item EXCEPT ![w] = q[Len(q)]]
                 /\ q' = SubSeq(q, 1, Len(q) - 1)
                 /\ UNCHANGED <<inMutex, outMutex, crashed>>

Remove(w) == /\ Goto(w, "remove", "unlock")
             /\ item' = [item EXCEPT ![w] = Head(q)]
             /\ q' = Tail(q)
             /\ UNCHANGED <<inMutex, outMutex, crashed>>

UnlockOut(w) == /\ Goto(w, "unlock", "got")
                /\ outMutex' = {}
                /\ UNCHANGED <<q, inMutex, item, crashed>>

\* T t = p->pop(); t(): the task is copied through a reference to an element
\* that _q.pop() has destroyed.
Execute(w) == /\ Goto(w, "got", "idle")
              /\ \E r \in {item[w], Garbage} : item' = [item EXCEPT ![w] = r]
              /\ UNCHANGED <<q, inMutex, outMutex, crashed>>

SpuriousWakeup(w) == /\ Goto(w, "waiting", "lock")
                     /\ UNCHANGED <<q, inMutex, outMutex, item, crashed>>

\* _q.push and _q.pop run at once: the deque's bookkeeping is a data race.  It
\* either does no harm (then the steps above happen) or breaks the process.
Collide(w) == /\ ~crashed /\ pc[Main] = "store" /\ pc[w] = "remove"
              /\ crashed' = TRUE
              /\ UNCHANGED <<q, inMutex, outMutex, pc, item>>

MainStep == \/ FinishRun \/ LockIn \/ Store \/ Signal \/ UnlockIn
            \/ \E w \in Workers : StartWorker(w)
            \/ \E d \in Item : CallPush(d)

WorkerStep(w) == \/ CallPop(w) \/ LockOut(w) \/ Test(w) \/ Wait(w)
                 \/ Remove(w) \/ UnlockOut(w) \/ Execute(w)

Next == \/ MainStep
        \/ \E w \in Workers : WorkerStep(w) \/ SpuriousWakeup(w) \/ Collide(w)

Spec == Init /\ [][Next]_vars

\* Every thread keeps running, main in its endless loop included.
FairSpec == /\ Spec
            /\ WF_vars(MainStep)
            /\ \A w \in Workers : WF_vars(WorkerStep(w))

-------------------------------------------------------------------------------
\* Every variable has its type.
TypeOK == /\ q \in Seq(Item) /\ Len(q) <= QMax
          /\ inMutex \in BOOLEAN
          /\ outMutex \in SUBSET Workers
          /\ pc \in [Threads -> {"none", "run", "idle", "lock", "store", "signal",
                                 "test", "sleep", "waiting", "remove", "unlock",
                                 "got"}]
          /\ item \in [Threads -> Item \cup {NoItem, Garbage}]
          /\ crashed \in BOOLEAN

\* _out_mutex alone makes pop safe among the workers: one that found the queue
\* non-empty still does when it takes the front (out_block_queue.hpp:46-53).
RemovesFromNonEmpty == \A w \in Workers : pc[w] = "remove" => q # <<>>

\* The safety of pop: what a worker removes is there, and the queue keeps its type and,
\* with two workers or more, the model's bound.
Safe == RemovesFromNonEmpty /\ (Cardinality(Workers) > 1 => TypeOK)

\* Unless the process breaks, every task pushed is given to exactly one worker,
\* in the order of the pushes.
Fifo == INSTANCE BoundedFifo WITH
          Producers <- {Main}, Consumers <- Workers, Cap <- QMax + 1,
          buf   <- q,
          offer <- [m \in {Main} |-> IF pc[m] \in {"lock", "store"}
                                       THEN item[m] ELSE NoItem],
          taken <- [w \in Workers |-> IF pc[w] \in {"unlock", "got"}
                                        THEN item[w] ELSE NoItem]

ImplementsFifo == Fifo!Spec

\* With two workers or more, the workers never all sleep on a queued task: at
\* most one can be between its test and its wait (they share _out_mutex), so a
\* signal it misses reaches another, or another is still to test the queue
\* (out_block_queue.hpp:37-41, :46-49).
PushWakesAWorker ==
  Cardinality(Workers) > 1 /\ q # <<>> /\ pc[Main] \in {"unlock", "idle"}
    => Sleepers # Workers

\* out_block_queue.hpp:39 says that push wakes a thread that waits on
\* _out_cond: a worker does not sleep while there are more tasks than workers
\* on their way to the test and signals still to come.
NoLostWakeup ==
  Sleepers # {} =>
    Len(q) <= Cardinality({w \in Workers : pc[w] \in {"idle", "lock", "test", "remove"}})
                + Cardinality({m \in {Main} : pc[m] = "signal"})

\* A task that slipped past a sleeping worker is only delayed: since main comes back
\* to push (test.cc:20-30) and spurious wakeups die out, tasks keep being
\* removed, unless the process breaks.
RemovesForever ==
  <>[][~ \E w \in Workers : SpuriousWakeup(w)]_vars
    => <>crashed \/ []<><<\E w \in Workers : Remove(w)>>_vars
===============================================================================
