--------------------------- MODULE ThreadPoolProofs ---------------------------
(***************************************************************************)
(* Proofs about ThreadPool for any finite set of workers: _out_mutex alone *)
(* protects pop's test and removal, two workers never all sleep on a       *)
(* queued task, and the queue implements the bounded FIFO.                 *)
(***************************************************************************)
EXTENDS ThreadPool, FiniteSetTheorems, TLAPS

\* A worker between its lock and its release is the one that holds _out_mutex.
HolderInv ==
  \A w \in Workers : pc[w] \in {"test", "sleep", "remove", "unlock"} => outMutex = {w}

\* Tasks are in the queue, and main has one while it pushes.
QueueInv == /\ q \in Seq(Item)
            /\ item \in [Threads -> Item \cup {NoItem, Garbage}]
            /\ pc[Main] \in {"lock", "store"} => item[Main] \in Item
            /\ pc \in [Threads -> {"none", "run", "idle", "lock", "store", "signal",
                                   "test", "sleep", "waiting", "remove", "unlock",
                                   "got"}]

\* The inductive invariant.
IInv == HolderInv /\ QueueInv /\ RemovesFromNonEmpty

-------------------------------------------------------------------------------
\* The inductive invariant holds before run().
LEMMA InitIInv == Init => IInv
  BY ThreadPoolAssumption DEF Init, IInv, HolderInv, QueueInv, RemovesFromNonEmpty, Threads

\* Each step preserves the inductive invariant.
LEMMA StepIInv == IInv /\ [Next]_vars => IInv'
<1> SUFFICES ASSUME IInv, [Next]_vars PROVE IInv'
  OBVIOUS
<1> USE ThreadPoolAssumption
    DEF IInv, HolderInv, QueueInv, RemovesFromNonEmpty, Threads, Goto
<1>1. ASSUME NEW w \in Workers, StartWorker(w) PROVE IInv'
  BY <1>1 DEF StartWorker
<1>2. ASSUME FinishRun PROVE IInv'
  BY <1>2 DEF FinishRun
<1>3. ASSUME NEW d \in Item, CallPush(d) PROVE IInv'
  BY <1>3 DEF CallPush
<1>4. ASSUME LockIn PROVE IInv'
  BY <1>4 DEF LockIn
<1>5. ASSUME Store PROVE IInv'
  <2>1. q' \in Seq(Item) /\ q' # <<>>
    BY <1>5 DEF Store
  <2> QED
    BY <1>5, <2>1 DEF Store
<1>6. ASSUME Signal PROVE IInv'
  BY <1>6 DEF Signal, Sleepers
<1>7. ASSUME UnlockIn PROVE IInv'
  BY <1>7 DEF UnlockIn
<1>8. ASSUME NEW w \in Workers, CallPop(w) PROVE IInv'
  BY <1>8 DEF CallPop
<1>9. ASSUME NEW w \in Workers, LockOut(w) PROVE IInv'
  BY <1>9 DEF LockOut
<1>10. ASSUME NEW w \in Workers, Test(w) PROVE IInv'
  BY <1>10 DEF Test
<1>11. ASSUME NEW w \in Workers, Wait(w) PROVE IInv'
  BY <1>11 DEF Wait
<1>12. ASSUME NEW w \in Workers, Remove(w) PROVE IInv'
  <2>1. Head(q) \in Item /\ Tail(q) \in Seq(Item)
    BY <1>12 DEF Remove
  <2>2. \A v \in Workers : pc'[v] # "remove"
    BY <1>12 DEF Remove
  <2> QED
    BY <1>12, <2>1, <2>2 DEF Remove
<1>13. ASSUME NEW w \in Workers, UnlockOut(w) PROVE IInv'
  BY <1>13 DEF UnlockOut
<1>14. ASSUME NEW w \in Workers, Execute(w) PROVE IInv'
  BY <1>14 DEF Execute
<1>15. ASSUME NEW w \in Workers, SpuriousWakeup(w) PROVE IInv'
  BY <1>15 DEF SpuriousWakeup
<1>16. ASSUME NEW w \in Workers, Collide(w) PROVE IInv'
  BY <1>16 DEF Collide
<1>17. CASE UNCHANGED vars
  BY <1>17 DEF vars
<1> QED
  BY <1>1, <1>2, <1>3, <1>4, <1>5, <1>6, <1>7, <1>8, <1>9, <1>10, <1>11, <1>12,
     <1>13, <1>14, <1>15, <1>16, <1>17 DEF Next, MainStep, WorkerStep

\* Whatever the number of workers and however pushes interleave, a worker that
\* found the queue non-empty takes its front element from a non-empty queue
\* (out_block_queue.hpp:46-53).
THEOREM RemovesSafely == Spec => []RemovesFromNonEmpty
<1>1. Init => IInv
  BY InitIInv
<1>2. IInv /\ [Next]_vars => IInv'
  BY StepIInv
<1>3. IInv => RemovesFromNonEmpty
  BY DEF IInv
<1> QED
  BY <1>1, <1>2, <1>3, PTL DEF Spec

-------------------------------------------------------------------------------
\* A worker that does not sleep and has not decided to.
Awake(w) == pc[w] \notin {"waiting", "sleep"}

\* With a task in the queue and no signal to come, a worker is awake: of those that are
\* not, only the one that holds _out_mutex can have missed the last signal.
AwakeInv == (q # <<>> /\ pc[Main] # "signal") => \E w \in Workers : Awake(w)

\* More than one worker means two different ones.
LEMMA TwoWorkers == Cardinality(Workers) > 1 => \E v, w \in Workers : v # w
<1> SUFFICES ASSUME \A v, w \in Workers : v = w PROVE ~ Cardinality(Workers) > 1
  OBVIOUS
<1>1. CASE Workers = {}
  BY <1>1, FS_EmptySet
<1>2. CASE Workers # {}
  <2>1. PICK w \in Workers : Workers = {w}
    BY <1>2
  <2>2. Cardinality(Workers) = 1
    BY <2>1, FS_Singleton
  <2> QED
    BY <2>2
<1> QED
  BY <1>1, <1>2

\* Each step preserves the presence of a worker that is awake.
LEMMA StepAwake ==
  ASSUME IInv, IInv', AwakeInv, NEW a \in Workers, NEW b \in Workers, a # b, [Next]_vars
  PROVE  AwakeInv'
<1> USE ThreadPoolAssumption DEF AwakeInv, Awake, Threads, Goto
<1>0. /\ Main \notin Workers /\ DOMAIN pc = Threads
      /\ \A v, w \in Workers : pc[v] = "sleep" /\ pc[w] = "sleep" => v = w
  BY DEF IInv, QueueInv, HolderInv
<1>1. ASSUME NEW w \in Workers, StartWorker(w) PROVE AwakeInv'
  BY <1>0, <1>1 DEF StartWorker
<1>2. ASSUME FinishRun \/ LockIn \/ UnlockIn \/ \E d \in Item : CallPush(d) PROVE AwakeInv'
  <2>1. q' = q
    BY <1>2 DEF FinishRun, LockIn, UnlockIn, CallPush
  <2>2. pc[Main] # "signal" /\ \A w \in Workers : pc'[w] = pc[w]
    BY <1>0, <1>2 DEF FinishRun, LockIn, UnlockIn, CallPush
  <2> QED
    BY <2>1, <2>2
<1>3. ASSUME Store PROVE AwakeInv'
  BY <1>0, <1>3 DEF Store
<1>4. ASSUME Signal PROVE AwakeInv'
  <2>1. CASE Sleepers = {}
    <3>1. \A w \in Workers : pc'[w] = pc[w] /\ pc[w] # "waiting"
      BY <1>0, <1>4, <2>1 DEF Signal, Sleepers
    <3> QED
      BY <1>0, <3>1
  <2>2. CASE Sleepers # {}
    <3>1. PICK w \in Sleepers : pc' = [pc EXCEPT ![Main] = "unlock", ![w] = "lock"]
      BY <1>4, <2>2 DEF Signal
    <3> QED
      BY <1>0, <3>1 DEF Sleepers
  <2> QED
    BY <2>1, <2>2
<1>5. ASSUME NEW w \in Workers,
             CallPop(w) \/ LockOut(w) \/ Remove(w) \/ UnlockOut(w) \/ Execute(w) \/ SpuriousWakeup(w)
      PROVE  AwakeInv'
  BY <1>0, <1>5 DEF CallPop, LockOut, Remove, UnlockOut, Execute, SpuriousWakeup
<1>6. ASSUME NEW w \in Workers, Test(w) PROVE AwakeInv'
  BY <1>0, <1>6 DEF Test
<1>7. ASSUME NEW w \in Workers, Wait(w) PROVE AwakeInv'
  BY <1>0, <1>7 DEF Wait
<1>8. ASSUME NEW w \in Workers, Collide(w) PROVE AwakeInv'
  BY <1>8 DEF Collide
<1>9. CASE UNCHANGED vars
  BY <1>9 DEF vars
<1> QED
  BY <1>1, <1>2, <1>3, <1>4, <1>5, <1>6, <1>7, <1>8, <1>9 DEF Next, MainStep, WorkerStep

\* With any number of workers greater than one, a push that is over has left one of them
\* awake while there are tasks, though it signals without the mutex the sleepers wait
\* with (out_block_queue.hpp:37-41, :46-49).
THEOREM PushWakes == Spec => []PushWakesAWorker
<1>1. CASE \E v, w \in Workers : v # w
  <2>1. Init => IInv /\ AwakeInv
    BY InitIInv DEF Init, AwakeInv
  <2>2. (IInv /\ AwakeInv) /\ [Next]_vars => (IInv /\ AwakeInv)'
    BY <1>1, StepIInv, StepAwake
  <2>3. AwakeInv => PushWakesAWorker
    BY DEF AwakeInv, Awake, PushWakesAWorker, Sleepers
  <2> QED
    BY <2>1, <2>2, <2>3, PTL DEF Spec
<1>2. CASE ~ \E v, w \in Workers : v # w
  <2>1. PushWakesAWorker
    BY <1>2, TwoWorkers DEF PushWakesAWorker
  <2> QED
    BY <2>1, PTL
<1> QED
  BY <1>1, <1>2

-------------------------------------------------------------------------------
\* What is left of the types.  When all workers sleep nothing is queued, so that main
\* never adds to a queue that is full.
BoundInv == /\ Len(q) <= QMax
            /\ pc[Main] \in {"lock", "store"} => Len(q) < QMax
            /\ inMutex \in BOOLEAN /\ outMutex \in SUBSET Workers /\ crashed \in BOOLEAN

\* Each step preserves the bound.
LEMMA StepBound ==
  ASSUME IInv, AwakeInv, BoundInv, [Next]_vars
  PROVE  BoundInv'
<1> USE ThreadPoolAssumption DEF BoundInv, Threads, Goto
<1>0. Main \notin Workers /\ DOMAIN pc = Threads /\ q \in Seq(Item) /\ Len(q) \in Nat
  BY DEF IInv, QueueInv
<1>1. ASSUME NEW w \in Workers, StartWorker(w) PROVE BoundInv'
  BY <1>0, <1>1 DEF StartWorker
<1>2. ASSUME NEW d \in Item, CallPush(d) PROVE BoundInv'
  <2>1. Len(q) < QMax
    <3>1. CASE Sleepers = Workers
      <4>1. q = <<>>
        BY <1>2, <3>1 DEF CallPush, Sleepers, AwakeInv, Awake
      <4> QED
        BY <4>1
    <3> QED
      BY <1>2, <3>1 DEF CallPush
  <2> QED
    BY <1>0, <1>2, <2>1 DEF CallPush
<1>3. ASSUME FinishRun \/ LockIn \/ UnlockIn PROVE BoundInv'
  BY <1>0, <1>3 DEF FinishRun, LockIn, UnlockIn
<1>4. ASSUME Store PROVE BoundInv'
  <2>1. item[Main] \in Item /\ Len(q') = Len(q) + 1
    BY <1>0, <1>4 DEF Store, IInv, QueueInv
  <2> QED
    BY <1>0, <1>4, <2>1 DEF Store
<1>5. ASSUME Signal PROVE BoundInv'
  BY <1>0, <1>5 DEF Signal, Sleepers
<1>6. ASSUME NEW w \in Workers, Remove(w) PROVE BoundInv'
  <2>1. q # <<>> /\ Len(q') = Len(q) - 1
    BY <1>0, <1>6 DEF Remove, IInv, RemovesFromNonEmpty
  <2> QED
    BY <1>0, <1>6, <2>1 DEF Remove
<1>7. ASSUME NEW w \in Workers,
             \/ CallPop(w) \/ LockOut(w) \/ Test(w) \/ Wait(w) \/ UnlockOut(w)
             \/ Execute(w) \/ SpuriousWakeup(w) \/ Collide(w)
      PROVE  BoundInv'
  BY <1>0, <1>7 DEF CallPop, LockOut, Test, Wait, UnlockOut, Execute, SpuriousWakeup, Collide
<1>8. CASE UNCHANGED vars
  BY <1>8 DEF vars
<1> QED
  BY <1>1, <1>2, <1>3, <1>4, <1>5, <1>6, <1>7, <1>8 DEF Next, MainStep, WorkerStep

\* For any number of workers: pop only removes what is there; and for any number greater
\* than one the queue keeps its type and main's bound (out_block_queue.hpp:28-53).
THEOREM Safety == Spec => []Safe
<1>1. CASE Cardinality(Workers) > 1
  <2>1. PICK v, w \in Workers : v # w
    BY <1>1, TwoWorkers
  <2>2. Init => IInv /\ AwakeInv /\ BoundInv
    <3>1. Init => q = <<>> /\ pc[Main] = "run" /\ outMutex = {} /\ inMutex = FALSE /\ crashed = FALSE
      BY DEF Init, Threads
    <3>2. Init => BoundInv
      <4>1. Init => Len(q) <= QMax /\ Len(q) < QMax
        BY <3>1, ThreadPoolAssumption
      <4>2. Init => inMutex \in BOOLEAN /\ outMutex \in SUBSET Workers /\ crashed \in BOOLEAN
        BY <3>1
      <4> QED
        BY <3>1, <4>1, <4>2 DEF BoundInv
    <3> QED
      BY InitIInv, <3>1, <3>2 DEF AwakeInv
  <2>3. IInv /\ AwakeInv /\ BoundInv /\ [Next]_vars => (IInv /\ AwakeInv /\ BoundInv)'
    BY <2>1, StepIInv, StepAwake, StepBound
  <2>4. IInv /\ AwakeInv /\ BoundInv => Safe
    BY DEF IInv, QueueInv, BoundInv, Safe, TypeOK
  <2> QED
    BY <2>2, <2>3, <2>4, PTL DEF Spec
<1>2. CASE ~(Cardinality(Workers) > 1)
  <2>1. RemovesFromNonEmpty => Safe
    BY <1>2 DEF Safe
  <2> QED
    BY <2>1, RemovesSafely, PTL
<1> QED
  BY <1>1, <1>2

-------------------------------------------------------------------------------
(***************************************************************************)
(* Refinement.  Store is the abstract Put, Remove the abstract Take,       *)
(* CallPush offers a task and Execute finishes with one.  The abstract     *)
(* buffer has one place more than QMax: a lone worker can be asleep on a   *)
(* queue of QMax tasks, and main then comes back to push another.          *)
(***************************************************************************)
\* A worker that has removed a task and not yet run it holds it.
HeldInv == \A w \in Workers : pc[w] \in {"unlock", "got"} => item[w] \in Item

\* How full the queue is.  A worker only goes to sleep when it found the queue empty, and
\* until it sleeps main stays within QMax; the push that goes beyond wakes somebody.
FullInv == /\ Len(q) <= QMax + 1
           /\ pc[Main] \in {"lock", "store"} => Len(q) <= QMax
           /\ \A w \in Workers : pc[w] = "sleep" =>
                Len(q) <= QMax /\ (pc[Main] \in {"lock", "store"} => Len(q) < QMax)
           /\ Sleepers = Workers /\ pc[Main] # "signal" => Len(q) <= QMax

\* The inductive invariant for the refinement.
RInv == IInv /\ HeldInv /\ FullInv

\* Both parts hold before run().
LEMMA InitRInv == Init => RInv
<1> SUFFICES ASSUME Init PROVE RInv
  OBVIOUS
<1>1. q = <<>> /\ pc = [t \in Threads |-> IF t = Main THEN "run" ELSE "none"]
  BY DEF Init
<1>2. Len(q) = 0 /\ pc[Main] = "run" /\ \A w \in Workers : pc[w] = "none"
  BY <1>1, ThreadPoolAssumption DEF Threads
<1> QED
  BY <1>2, InitIInv, ThreadPoolAssumption DEF RInv, HeldInv, FullInv

\* Each step preserves who holds a task.
LEMMA StepHeld == ASSUME IInv, HeldInv, [Next]_vars PROVE HeldInv'
<1> USE ThreadPoolAssumption DEF HeldInv, Threads, Goto
<1>0. /\ Main \notin Workers /\ DOMAIN pc = Threads /\ DOMAIN item = Threads
  BY DEF IInv, QueueInv
<1>1. ASSUME NEW w \in Workers, Remove(w) PROVE HeldInv'
  <2>1. Head(q) \in Item
    BY <1>1 DEF Remove, IInv, QueueInv, RemovesFromNonEmpty
  <2> QED
    BY <1>0, <1>1, <2>1 DEF Remove
<1>2. ASSUME NEW w \in Workers,
             \/ CallPop(w) \/ LockOut(w) \/ Test(w) \/ Wait(w) \/ UnlockOut(w)
             \/ Execute(w) \/ SpuriousWakeup(w) \/ Collide(w) \/ StartWorker(w)
      PROVE  HeldInv'
  BY <1>0, <1>2 DEF CallPop, LockOut, Test, Wait, UnlockOut, Execute, SpuriousWakeup, Collide, StartWorker
<1>3. ASSUME FinishRun \/ LockIn \/ Store \/ UnlockIn \/ \E d \in Item : CallPush(d)
      PROVE  HeldInv'
  BY <1>0, <1>3 DEF FinishRun, LockIn, Store, UnlockIn, CallPush
<1>4. ASSUME Signal PROVE HeldInv'
  BY <1>0, <1>4 DEF Signal, Sleepers
<1>5. CASE UNCHANGED vars
  BY <1>5 DEF vars
<1> QED
  BY <1>1, <1>2, <1>3, <1>4, <1>5 DEF Next, MainStep, WorkerStep

\* With a worker at least, each step preserves how full the queue is.
LEMMA StepFull == ASSUME IInv, FullInv, Workers # {}, [Next]_vars PROVE FullInv'
<1> USE ThreadPoolAssumption DEF FullInv, Threads, Goto
<1>0. Main \notin Workers /\ DOMAIN pc = Threads /\ q \in Seq(Item) /\ Len(q) \in Nat
  BY DEF IInv, QueueInv
<1>1. ASSUME NEW w \in Workers, StartWorker(w) PROVE FullInv'
  BY <1>0, <1>1 DEF StartWorker, Sleepers
<1>2. ASSUME NEW d \in Item, CallPush(d) PROVE FullInv'
  <2>1. Len(q) <= QMax
    BY <1>0, <1>2 DEF CallPush
  <2>2. ASSUME NEW w \in Workers, pc[w] = "sleep" PROVE Len(q) < QMax
    <3>1. Sleepers # Workers
      BY <2>2 DEF Sleepers
    <3> QED
      BY <1>2, <3>1 DEF CallPush
  <2>3. q' = q /\ pc'[Main] = "lock" /\ \A w \in Workers : pc'[w] = pc[w]
    BY <1>0, <1>2 DEF CallPush
  <2> QED
    BY <1>0, <2>1, <2>2, <2>3
<1>3. ASSUME FinishRun \/ LockIn \/ UnlockIn PROVE FullInv'
  <2>1. /\ q' = q /\ \A w \in Workers : pc'[w] = pc[w]
        /\ pc'[Main] \in {"lock", "store"} => pc[Main] \in {"lock", "store"}
        /\ pc[Main] # "signal"
    BY <1>0, <1>3 DEF FinishRun, LockIn, UnlockIn
  <2> QED
    BY <1>0, <2>1 DEF Sleepers
<1>4. ASSUME Store PROVE FullInv'
  <2>1. item[Main] \in Item /\ Len(q') = Len(q) + 1
    BY <1>0, <1>4 DEF Store, IInv, QueueInv
  <2>2. pc[Main] = "store" /\ pc'[Main] = "signal" /\ \A w \in Workers : pc'[w] = pc[w]
    BY <1>0, <1>4 DEF Store
  <2> QED
    BY <1>0, <2>1, <2>2
<1>5. ASSUME Signal PROVE FullInv'
  <2>1. /\ q' = q /\ pc'[Main] = "unlock"
        /\ \A w \in Workers : pc'[w] = "sleep" => pc[w] = "sleep"
    BY <1>0, <1>5 DEF Signal, Sleepers
  <2>2. Sleepers' # Workers
    BY <1>0, <1>5 DEF Signal, Sleepers
  <2> QED
    BY <1>0, <2>1, <2>2
<1>6. ASSUME NEW w \in Workers, Remove(w) PROVE FullInv'
  <2>1. q # <<>> /\ Len(q') = Len(q) - 1
    BY <1>0, <1>6 DEF Remove, IInv, RemovesFromNonEmpty
  <2>2. pc'[w] = "unlock" /\ pc'[Main] = pc[Main] /\ \A v \in Workers : pc'[v] = "sleep" => pc[v] = "sleep"
    BY <1>0, <1>6 DEF Remove
  <2> QED
    BY <1>0, <2>1, <2>2
<1>7. ASSUME NEW w \in Workers, Test(w) PROVE FullInv'
  <2>1. /\ q' = q /\ pc'[Main] = pc[Main] /\ pc'[w] \in {"sleep", "remove"}
        /\ pc'[w] = "sleep" => q = <<>>
        /\ \A v \in Workers : v # w => pc'[v] = pc[v]
    BY <1>0, <1>7 DEF Test
  <2>2. Sleepers' # Workers
    BY <2>1 DEF Sleepers
  <2>3. q = <<>> => Len(q) = 0
    OBVIOUS
  <2> QED
    BY <1>0, <2>1, <2>2, <2>3
<1>8. ASSUME NEW w \in Workers, Wait(w) PROVE FullInv'
  BY <1>0, <1>8 DEF Wait
<1>9. ASSUME NEW w \in Workers, CallPop(w) \/ LockOut(w) \/ UnlockOut(w) \/ Execute(w) \/ SpuriousWakeup(w)
      PROVE  FullInv'
  <2>1. /\ q' = q /\ pc'[Main] = pc[Main] /\ pc'[w] \notin {"sleep", "waiting"}
        /\ \A v \in Workers : v # w => pc'[v] = pc[v]
    BY <1>0, <1>9 DEF CallPop, LockOut, UnlockOut, Execute, SpuriousWakeup
  <2> QED
    BY <1>0, <2>1 DEF Sleepers
<1>10. ASSUME UNCHANGED vars \/ \E w \in Workers : Collide(w) PROVE FullInv'
  BY <1>10 DEF vars, Collide, Sleepers
<1> QED
  BY <1>1, <1>2, <1>3, <1>4, <1>5, <1>6, <1>7, <1>8, <1>9, <1>10 DEF Next, MainStep, WorkerStep

offerBar == [m \in {Main} |-> IF pc[m] \in {"lock", "store"} THEN item[m] ELSE NoItem]
takenBar == [w \in Workers |-> IF pc[w] \in {"unlock", "got"} THEN item[w] ELSE NoItem]

\* A step of main or of a worker is an abstract step or an abstract stutter.
LEMMA StepFifo == RInv /\ [Next]_vars => [Fifo!Next]_<<q, offerBar, takenBar>>
<1> SUFFICES ASSUME RInv, [Next]_vars
             PROVE  Fifo!Next \/ UNCHANGED <<q, offerBar, takenBar>>
  OBVIOUS
<1> USE ThreadPoolAssumption DEF Threads, Goto, offerBar, takenBar
<1>0. /\ Main \notin Workers /\ DOMAIN pc = Threads /\ DOMAIN item = Threads
      /\ q \in Seq(Item) /\ Len(q) \in Nat
  BY DEF RInv, IInv, QueueInv
<1>1. ASSUME NEW d \in Item, CallPush(d) PROVE Fifo!Offer(Main, d)
  BY <1>0, <1>1 DEF CallPush, Fifo!Offer
<1>2. ASSUME Store PROVE Fifo!Put(Main)
  <2>1. item[Main] # NoItem /\ Len(q) < QMax + 1 /\ offerBar[Main] = item[Main] /\ q' = Append(q, item[Main])
    BY <1>0, <1>2 DEF Store, RInv, IInv, QueueInv, FullInv
  <2>2. offerBar' = [offerBar EXCEPT ![Main] = NoItem] /\ takenBar' = takenBar
    BY <1>0, <1>2 DEF Store
  <2> QED
    BY <2>1, <2>2 DEF Fifo!Put
<1>3. ASSUME NEW w \in Workers, Remove(w) PROVE Fifo!Take(w)
  <2>1. takenBar[w] = NoItem /\ q # <<>> /\ q' = Tail(q)
    BY <1>0, <1>3 DEF Remove, RInv, IInv, RemovesFromNonEmpty
  <2>2. takenBar' = [takenBar EXCEPT ![w] = Head(q)] /\ offerBar' = offerBar
    BY <1>0, <1>3 DEF Remove
  <2> QED
    BY <2>1, <2>2 DEF Fifo!Take
<1>4. ASSUME NEW w \in Workers, Execute(w) PROVE Fifo!Finish(w)
  <2>1. takenBar[w] # NoItem
    BY <1>0, <1>4 DEF Execute, RInv, HeldInv
  <2>2. takenBar' = [takenBar EXCEPT ![w] = NoItem] /\ offerBar' = offerBar /\ q' = q
    BY <1>0, <1>4 DEF Execute
  <2> QED
    BY <2>1, <2>2 DEF Fifo!Finish
<1>5. ASSUME FinishRun \/ LockIn \/ UnlockIn PROVE UNCHANGED <<q, offerBar, takenBar>>
  BY <1>0, <1>5 DEF FinishRun, LockIn, UnlockIn
<1>6. ASSUME Signal PROVE UNCHANGED <<q, offerBar, takenBar>>
  BY <1>0, <1>6 DEF Signal, Sleepers
<1>7. ASSUME NEW w \in Workers,
             \/ StartWorker(w) \/ CallPop(w) \/ LockOut(w) \/ Test(w) \/ Wait(w)
             \/ UnlockOut(w) \/ SpuriousWakeup(w) \/ Collide(w)
      PROVE  UNCHANGED <<q, offerBar, takenBar>>
  BY <1>0, <1>7 DEF StartWorker, CallPop, LockOut, Test, Wait, UnlockOut, SpuriousWakeup, Collide
<1>8. CASE UNCHANGED vars
  BY <1>8 DEF vars
<1> HIDE DEF Threads, Goto, offerBar, takenBar
<1> QED
  BY <1>1, <1>2, <1>3, <1>4, <1>5, <1>6, <1>7, <1>8 DEF Next, MainStep, WorkerStep, Fifo!Next

\* The pool's queue implements the bounded FIFO for any number of workers above zero: no
\* task is lost, repeated or overtaken though its two sides do not exclude each other
\* (out_block_queue.hpp:28-53).
THEOREM PoolRefines == Workers # {} => (Spec => ImplementsFifo)
<1> SUFFICES ASSUME Workers # {} PROVE Spec => ImplementsFifo
  OBVIOUS
<1>1. Init => Fifo!Init
  BY ThreadPoolAssumption DEF Init, Fifo!Init, Threads
<1>2. RInv /\ [Next]_vars => RInv'
  BY StepIInv, StepHeld, StepFull DEF RInv
<1>3. RInv /\ [Next]_vars => [Fifo!Next]_(Fifo!fifoVars)
  BY StepFifo DEF Fifo!fifoVars, offerBar, takenBar
<1> QED
  BY <1>1, <1>2, <1>3, InitRInv, PTL DEF Spec, ImplementsFifo, Fifo!Spec
===============================================================================
