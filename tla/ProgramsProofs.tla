----------------------------- MODULE ProgramsProofs ----------------------------
(***************************************************************************)
(* Proofs about the small programs of the repository, one after the other: *)
(* the process pool, the shell, the channels between two processes, the    *)
(* UDP services, the exercises with threads and signals, the page server   *)
(* and the calculator, each for any values of its constants.               *)
(***************************************************************************)
EXTENDS ProcPool, Shell, Channels, Udp, Lessons, Http, Protocol, Integers, SequenceTheorems,
        FiniteSetTheorems, WellFoundedInduction, TLAPS

-------------------------------------------------------------------------------
(* The process pool. *)

\* What worker k has been given: what it has executed and what is in its pipe.
Given(k) == done[k] \o pdata[k]

\* A worker that the loop of ApplyChidProcess has not reached does not exist.
StartInv == /\ pstep = "off" => pi = 0
            /\ pstep \in {"off", "apply"} => \A k \in Kids : k >= pi => kid[k] = "none"

\* Before the dealing starts nobody has a task; then every worker has all of its
\* tasks below pi.
DealtInv == \A k \in Kids :
  /\ pstep \in {"off", "apply"} => Len(Given(k)) = 0
  /\ pstep = "alloc" => pi <= k + Len(Given(k)) * N /\ k + Len(Given(k)) * N < pi + N

\* What a child inherits has been recorded: the parent records every write end it holds,
\* so a child's list has every one the child still has.
HeldInv == /\ pstep \in {"off", "apply"} => pends \subseteq wfd
           /\ \A k \in Kids : kid[k] = "born" => kends[k] \subseteq toClose[k]

\* The inductive invariant.
PoolIInv == PoolTypeOK /\ StartInv /\ HeldInv /\ WorkersHoldNoWriteEnd /\ DealtInv /\ RoundRobin

-------------------------------------------------------------------------------
(* Arithmetic with a number of workers that is not known. *)

\* A smaller factor gives a product that is smaller by at least N.
LEMMA DivMono == ASSUME NEW a \in Int, NEW b \in Int, a < b
              PROVE  a * N + N <= b * N
<1> USE PoolAssumption DEF PoolAssumption
<1>1. (a + 1) * N <= b * N
  BY SMTT(20)
<1>2. (a + 1) * N = a * N + N
  BY SMTT(20)
<1> QED
  BY <1>1, <1>2

\* Division with remainder.
LEMMA Division == ASSUME NEW a \in Nat
                  PROVE  /\ a % N \in Kids /\ a \div N \in Nat
                         /\ a = (a \div N) * N + (a % N)
  BY PoolAssumption, SMTT(20) DEF PoolAssumption, Kids

\* The remainder is the only number below N that leads to a multiple of N.
LEMMA Leftover == ASSUME NEW k \in Kids, NEW n \in Nat
                   PROVE  (k + n * N) % N = k
<1> DEFINE d == (k + n * N) \div N
           r == (k + n * N) % N
<1> USE PoolAssumption DEF PoolAssumption, Kids
<1>1. k + n * N \in Nat /\ n * N \in Nat
  BY SMTT(20)
<1>2. r \in Kids /\ d \in Nat /\ k + n * N = d * N + r
  BY <1>1, Division
<1>3. d * N \in Nat
  BY <1>2
<1>4. ~ n < d /\ ~ d < n
  BY <1>1, <1>2, <1>3, DivMono
<1> QED
  BY <1>1, <1>2, <1>4

-------------------------------------------------------------------------------
(* What each step does to the tasks of a worker. *)

\* A step that leaves the tasks and the counter of the dealing alone keeps the order.
LEMMA SameTasks ==
  ASSUME RoundRobin, \A k \in Kids : Given(k)' = Given(k)
  PROVE  RoundRobin'
  BY DEF RoundRobin, Given

\* A task is moved from the pipe to what has been executed.
LEMMA WorkKeepsGiven ==
  ASSUME PoolTypeOK, NEW k \in Kids, Work(k), NEW j \in Kids
  PROVE  Given(j)' = Given(j)
<1>1. CASE j # k
  BY <1>1 DEF Work, PoolTypeOK, Given
<1>2. CASE j = k
  <2> DEFINE d == done[k]
             p == pdata[k]
  <2>1. d \in Seq(Nat) /\ p \in Seq(Nat) /\ p # <<>>
    BY DEF PoolTypeOK, Work
  <2>2. done'[k] = Append(d, Head(p)) /\ pdata'[k] = Tail(p)
    BY DEF PoolTypeOK, Work
  <2>3. Append(d, Head(p)) \o Tail(p) = d \o p
    <3> HIDE DEF d, p
    <3> QED
      BY <2>1
  <2> QED
    BY <1>2, <2>2, <2>3 DEF Given
<1> QED
  BY <1>1, <1>2

\* Types of what a worker has been given.
LEMMA GivenType ==
  ASSUME PoolTypeOK, NEW k \in Kids
  PROVE  Given(k) \in Seq(Nat) /\ Len(Given(k)) \in Nat
  BY DEF PoolTypeOK, Given

\* The next task goes to the worker whose next task it is, and to the end of its tasks.
LEMMA AllocDeals ==
  ASSUME PoolIInv, Alloc, NEW k \in Kids
  PROVE  /\ pdata' \in [Kids -> Seq(Nat)] /\ pi' = pi + 1 /\ pi \in Nat
         /\ k = pi % N => /\ Given(k)' = Append(Given(k), pi % Funcs)
                          /\ k + Len(Given(k)) * N = pi
         /\ k # pi % N => Given(k)' = Given(k) /\ k + Len(Given(k)) * N # pi
<1> USE PoolAssumption DEF PoolAssumption
<1>1. pi \in Nat /\ pi' = pi + 1 /\ pi % Funcs \in Nat /\ pi % N \in Kids
  <2>1. pstep = "alloc" /\ pi \in 0 .. T /\ pi' = pi + 1
    BY DEF PoolIInv, PoolTypeOK, Alloc
  <2>2. pi \in Nat
    BY <2>1
  <2>3. pi % Funcs \in Nat
    BY <2>2, SMTT(20)
  <2> QED
    BY <2>1, <2>2, <2>3, Division
<1>2. /\ done' = done
      /\ pdata' = [pdata EXCEPT ![pi % N] = Append(@, pi % Funcs)]
      /\ pdata \in [Kids -> Seq(Nat)] /\ done \in [Kids -> Seq(Nat)]
  BY DEF Alloc, PoolIInv, PoolTypeOK
<1>3. pdata' \in [Kids -> Seq(Nat)]
  BY <1>1, <1>2
<1> DEFINE g == Len(Given(k))
<1>4. g \in Nat
  BY GivenType DEF PoolIInv
<1>5. pi <= k + g * N /\ k + g * N < pi + N /\ k \in Nat /\ k < N
  BY DEF Alloc, PoolIInv, DealtInv, Kids
<1>6. ASSUME k = pi % N
      PROVE  Given(k)' = Append(Given(k), pi % Funcs) /\ k + g * N = pi
  <2>1. Given(k)' = done[k] \o Append(pdata[k], pi % Funcs)
    BY <1>2, <1>6 DEF Given
  <2>2. \A d, p \in Seq(Nat), x \in Nat : d \o Append(p, x) = Append(d \o p, x)
    OBVIOUS
  <2>3. pi \div N \in Nat /\ pi = (pi \div N) * N + k
    BY <1>1, <1>6, Division
  <2> DEFINE d == pi \div N
  <2>4. g * N \in Nat /\ d * N \in Nat
    BY <1>4, <2>3
  <2>5. ~ g < d /\ ~ d < g
    <3> HIDE DEF g, d
    <3>1. d \in Nat /\ pi = d * N + k
      BY <2>3 DEF d
    <3>2. g < d => g * N + N <= d * N
      BY <1>4, <3>1, DivMono
    <3>3. d < g => d * N + N <= g * N
      BY <1>4, <3>1, DivMono
    <3> QED
      BY <1>1, <1>4, <1>5, <2>4, <3>1, <3>2, <3>3
  <2>6. g = d
    BY <1>4, <2>3, <2>5
  <2>7. Given(k)' = Append(Given(k), pi % Funcs)
    <3>1. done[k] \in Seq(Nat) /\ pdata[k] \in Seq(Nat)
      BY <1>2
    <3> QED
      BY <1>1, <2>1, <2>2, <3>1 DEF Given
  <2>8. k + g * N = pi
    <3>1. pi = d * N + k
      BY <2>3
    <3> HIDE DEF g, d
    <3> QED
      BY <2>4, <2>6, <3>1, <1>1 DEF Kids
  <2> QED
    BY <2>7, <2>8
<1>7. ASSUME k # pi % N
      PROVE  Given(k)' = Given(k) /\ k + g * N # pi
  BY <1>1, <1>2, <1>4, <1>7, Leftover DEF Given
<1> QED
  BY <1>1, <1>3, <1>6, <1>7

-------------------------------------------------------------------------------
\* The inductive invariant holds before the program runs.
LEMMA PoolInitIInv == PoolInit => PoolIInv
  BY PoolAssumption DEF PoolAssumption, Kids, PoolInit, PoolIInv, PoolTypeOK, StartInv,
     HeldInv, WorkersHoldNoWriteEnd, DealtInv, RoundRobin, Given

\* A step of the parent that is not the dealing of a task preserves it.
LEMMA ParentIInv ==
  ASSUME PoolIInv, PoolRun \/ Apply \/ Applied \/ PoolSigpipe \/ Allocated \/ CloseEnd \/ WaitKid
  PROVE  PoolIInv'
<1> USE PoolAssumption DEF PoolAssumption, Kids
<1>1. UNCHANGED <<pdata, done>>
  BY DEF PoolRun, Apply, Applied, PoolSigpipe, Allocated, CloseEnd, WaitKid
<1>2. \A k \in Kids : Given(k)' = Given(k)
  BY <1>1 DEF Given
<1>3. RoundRobin'
  BY <1>2, SameTasks DEF PoolIInv
<1>4. DealtInv'
  <2>1. CASE Applied
    <3>1. \A k \in Kids : Len(Given(k)') = 0
      BY <1>2, <2>1 DEF Applied, PoolIInv, DealtInv
    <3> QED
      BY <2>1, <3>1 DEF Applied, DealtInv
  <2>2. CASE PoolRun \/ Apply
    BY <1>2, <2>2 DEF PoolRun, Apply, PoolIInv, DealtInv
  <2>3. CASE PoolSigpipe \/ Allocated \/ CloseEnd \/ WaitKid
    BY <2>3 DEF PoolSigpipe, Allocated, CloseEnd, WaitKid, DealtInv
  <2> QED
    BY <2>1, <2>2, <2>3
<1>5. PoolTypeOK' /\ StartInv' /\ HeldInv' /\ WorkersHoldNoWriteEnd'
  <2> USE DEF PoolIInv, PoolTypeOK, StartInv, HeldInv, WorkersHoldNoWriteEnd
  <2>1. CASE PoolRun
    BY <2>1 DEF PoolRun
  <2>2. CASE Apply
    <3>1. pi \in Kids /\ kid[pi] = "none" /\ pends' \in SUBSET Kids
      BY <2>2 DEF Apply
    <3>2. /\ kends' \in [Kids -> SUBSET Kids] /\ toClose' \in [Kids -> SUBSET Kids]
          /\ wfd' \subseteq Kids /\ UNCHANGED <<pstep, pdata, done>>
      <4>1. wfd' = wfd \cup {pi} /\ UNCHANGED <<pstep, pdata, done>>
        BY <2>2 DEF Apply
      <4>2. CASE kends' = kends /\ toClose' = toClose
        BY <3>1, <4>1, <4>2
      <4>3. CASE /\ kends' = [kends EXCEPT ![pi] = pends']
                 /\ toClose' = [toClose EXCEPT ![pi] = wfd \cup {pi}]
        BY <3>1, <4>1, <4>3
      <4> QED
        BY <2>2, <4>2, <4>3 DEF Apply
    <3>3. /\ pi' = pi + 1 /\ pstep = "apply" /\ pi' \in 0 .. N
          /\ \E s \in {"born", "failed"} : kid' = [kid EXCEPT ![pi] = s]
      BY <2>2, <3>1 DEF Apply
    <3>4. WorkersHoldNoWriteEnd' /\ HeldInv'
      <4> DEFINE d == wfd \cup {pi}
      <4>1. pends' \subseteq d /\ wfd' = d /\ pends' = pends \cup {pi}
        BY <2>2, <3>3 DEF Apply
      <4>2. CASE kid' = [kid EXCEPT ![pi] = "failed"] /\ kends' = kends /\ toClose' = toClose
        BY <3>1, <4>1, <4>2
      <4>3. CASE /\ kid' = [kid EXCEPT ![pi] = "born"]
                 /\ kends' = [kends EXCEPT ![pi] = pends']
                 /\ toClose' = [toClose EXCEPT ![pi] = d]
        <5> HIDE DEF d
        <5> QED
          BY <3>1, <4>1, <4>3
      <4> QED
        BY <2>2, <4>2, <4>3 DEF Apply
    <3>5. PoolTypeOK'
      BY <3>1, <3>2, <3>3
    <3>6. StartInv'
      BY <3>1, <3>2, <3>3
    <3> QED
      BY <3>4, <3>5, <3>6
  <2>3. CASE Applied
    BY <2>3 DEF Applied
  <2>4. CASE PoolSigpipe
    BY <2>4 DEF PoolSigpipe
  <2>5. CASE Allocated
    BY <2>5 DEF Allocated
  <2>6. CASE CloseEnd
    <3>1. /\ pstep = "close" /\ pstep' \in {"close", "wait"} /\ pi' \in Kids
          /\ pends' \subseteq pends /\ UNCHANGED <<wfd, kid, kends, toClose, pdata, done>>
      BY <2>6 DEF CloseEnd
    <3>2. PoolTypeOK'
      BY <3>1
    <3> QED
      BY <3>1, <3>2
  <2>7. CASE WaitKid
    <3>1. /\ pstep = "wait" /\ pstep' \in {"wait", "exited"} /\ pi \in Kids /\ pi' \in Kids
          /\ kid' = [kid EXCEPT ![pi] = "reaped"] /\ kid[pi] = "zombie"
          /\ UNCHANGED <<pends, wfd, kends, toClose, pdata, done>>
      BY <2>7 DEF WaitKid
    <3>2. PoolTypeOK'
      BY <3>1
    <3>3. StartInv' /\ HeldInv' /\ WorkersHoldNoWriteEnd'
      BY <3>1
    <3> QED
      BY <3>2, <3>3
  <2> QED
    BY <2>1, <2>2, <2>3, <2>4, <2>5, <2>6, <2>7
<1> QED
  BY <1>3, <1>4, <1>5 DEF PoolIInv

\* So does the dealing of a task.
LEMMA AllocIInv == ASSUME PoolIInv, Alloc PROVE PoolIInv'
<1> USE PoolAssumption DEF PoolAssumption
<1>1. PoolTypeOK' /\ StartInv' /\ HeldInv' /\ WorkersHoldNoWriteEnd'
  <2>1. pdata' \in [Kids -> Seq(Nat)] /\ pi' = pi + 1 /\ pi \in Nat
    BY AllocDeals, Division DEF Kids
  <2>2. UNCHANGED <<pstep, pends, wfd, kid, kends, toClose, done>> /\ pstep = "alloc" /\ pi < T
    BY DEF Alloc
  <2> QED
    BY <2>1, <2>2 DEF PoolIInv, PoolTypeOK, StartInv, HeldInv, WorkersHoldNoWriteEnd
<1>2. ASSUME NEW k \in Kids
      PROVE  /\ pi' <= k + Len(Given(k)') * N /\ k + Len(Given(k)') * N < pi' + N
             /\ \A j \in 1 .. Len(Given(k)') : Given(k)'[j] = (k + (j - 1) * N) % Funcs
  <2> DEFINE g == Len(Given(k))
  <2>1. g \in Nat /\ Given(k) \in Seq(Nat) /\ pi' = pi + 1 /\ pi \in Nat /\ k \in Nat
    BY GivenType, AllocDeals DEF PoolIInv, Kids
  <2>2. g * N \in Nat /\ (g + 1) * N = g * N + N
    <3> HIDE DEF g
    <3> QED
      BY <2>1, SMTT(20)
  <2>3. pi <= k + g * N /\ k + g * N < pi + N
    BY DEF Alloc, PoolIInv, DealtInv
  <2>4. \A j \in 1 .. g : Given(k)[j] = (k + (j - 1) * N) % Funcs
    BY DEF PoolIInv, RoundRobin, Given
  <2>5. CASE k = pi % N
    <3>1. Given(k)' = Append(Given(k), pi % Funcs) /\ k + g * N = pi
      BY <2>5, AllocDeals
    <3>2. Len(Given(k)') = g + 1
      BY <2>1, <3>1
    <3>3. \A j \in 1 .. g : Given(k)'[j] = Given(k)[j]
      BY <2>1, <3>1
    <3>4. Given(k)'[g + 1] = (k + g * N) % Funcs
      <4>1. Given(k)'[g + 1] = pi % Funcs
        BY <2>1, <3>1
      <4> QED
        BY <3>1, <4>1
    <3>5. \A j \in 1 .. g + 1 : Given(k)'[j] = (k + (j - 1) * N) % Funcs
      <4> TAKE j \in 1 .. g + 1
      <4>1. CASE j \in 1 .. g
        BY <2>4, <3>3, <4>1
      <4>2. CASE j = g + 1
        <5>1. j - 1 = g
          BY <4>2, <2>1
        <5> QED
          BY <3>4, <4>2, <5>1
      <4> QED
        BY <4>1, <4>2, <2>1
    <3>6. pi' <= k + (g + 1) * N /\ k + (g + 1) * N < pi' + N
      <4> HIDE DEF g
      <4> QED
        BY <2>1, <2>2, <2>3, <3>1
    <3> QED
      BY <3>2, <3>5, <3>6
  <2>6. CASE k # pi % N
    <3>1. Given(k)' = Given(k) /\ k + g * N # pi
      BY <2>6, AllocDeals
    <3>2. pi' <= k + g * N /\ k + g * N < pi' + N
      <4> HIDE DEF g
      <4> QED
        BY <2>1, <2>2, <2>3, <3>1
    <3> QED
      BY <2>4, <3>1, <3>2
  <2> QED
    BY <2>5, <2>6
<1>3. DealtInv'
  BY <1>2 DEF DealtInv, Alloc
<1>4. RoundRobin'
  BY <1>2 DEF RoundRobin, Given
<1> QED
  BY <1>1, <1>3, <1>4 DEF PoolIInv

\* So does a step of a child.
LEMMA KidIInv == ASSUME PoolIInv, NEW k \in Kids, KidStep(k) PROVE PoolIInv'
<1>1. \A j \in Kids : Given(j)' = Given(j)
  <2>1. CASE Work(k)
    BY <2>1, WorkKeepsGiven DEF PoolIInv
  <2>2. CASE CloseInherited(k) \/ EndOfTasks(k)
    BY <2>2 DEF CloseInherited, EndOfTasks, Given
  <2> QED
    BY <2>1, <2>2 DEF KidStep
<1>2. UNCHANGED <<pstep, pi>>
  BY DEF KidStep, CloseInherited, Work, EndOfTasks
<1>3. RoundRobin' /\ DealtInv'
  BY <1>1, <1>2, SameTasks DEF PoolIInv, DealtInv
<1>4. PoolTypeOK' /\ StartInv' /\ HeldInv' /\ WorkersHoldNoWriteEnd'
  <2> USE DEF PoolIInv, PoolTypeOK, StartInv, HeldInv, WorkersHoldNoWriteEnd
  <2>1. CASE CloseInherited(k)
    BY <2>1 DEF CloseInherited
  <2>2. CASE Work(k)
    BY <2>2 DEF Work
  <2>3. CASE EndOfTasks(k)
    BY <2>3 DEF EndOfTasks
  <2> QED
    BY <2>1, <2>2, <2>3 DEF KidStep
<1> QED
  BY <1>3, <1>4 DEF PoolIInv

\* The inductive invariant holds in every execution.
LEMMA PoolAlways == PoolSpec => []PoolIInv
<1>1. PoolInit => PoolIInv
  BY PoolInitIInv
<1>2. PoolIInv /\ [PoolNext]_poolVars => PoolIInv'
  <2>1. PoolIInv /\ PoolNext => PoolIInv'
    BY ParentIInv, AllocIInv, KidIInv DEF PoolNext, ParentStep
  <2>2. PoolIInv /\ UNCHANGED poolVars => PoolIInv'
    BY DEF poolVars, PoolIInv, PoolTypeOK, StartInv, HeldInv, WorkersHoldNoWriteEnd, DealtInv, RoundRobin,
           Given, Kids, Reads
  <2> QED
    BY <2>1, <2>2
<1> QED
  BY <1>1, <1>2, PTL DEF PoolSpec

\* The parent's loops stay within their vectors of workers and tasks, whatever number
\* of children could be started (procpool.cc:56-145, :167-175).
THEOREM PoolTypes == PoolSpec => []PoolTypeOK
<1>1. PoolIInv => PoolTypeOK
  BY DEF PoolIInv
<1> QED
  BY <1>1, PoolAlways, PTL

\* For any number of workers, and whatever forks fail: the list of write ends that the
\* parent has recorded by the time of a fork, and the new pipe's, are all that the child
\* inherits, so that a child which has closed them and works holds none
\* (procpool.cc:96-128).
THEOREM NoWriteEndKept == PoolSpec => []WorkersHoldNoWriteEnd
<1>1. PoolIInv => WorkersHoldNoWriteEnd
  BY DEF PoolIInv
<1> QED
  BY <1>1, PoolAlways, PTL

\* For any numbers of workers, tasks and task functions: worker k has executed, and
\* will, the tasks k, k + N, k + 2N, ... in that order (procpool.cc:80-84, :131-141).
THEOREM DealtRoundRobin == PoolSpec => []RoundRobin
<1>1. PoolIInv => RoundRobin
  BY DEF PoolIInv
<1> QED
  BY <1>1, PoolAlways, PTL

\* The three together, what the run checks for three workers and five tasks.
THEOREM PoolSafety == PoolSpec => []PoolSafe
  BY PoolTypes, NoWriteEndKept, DealtRoundRobin, PTL DEF PoolSafe

-------------------------------------------------------------------------------
(***************************************************************************)
(* The pool is never stuck: a worker that waits for the end of its pipe    *)
(* waits for siblings that are still closing what they inherited, never    *)
(* for one that waits itself, and the parent only waits for workers that   *)
(* live.                                                                   *)
(***************************************************************************)
\* The parent, or worker k, can do its next statement: only waitpid and read can block.
ParentCan == \/ pstep \in {"off", "apply", "alloc", "close"}
             \/ pstep = "wait" /\ kid[pi] = "zombie"
KidCan(k) == \/ kid[k] = "born" /\ toClose[k] # {}
             \/ kid[k] = "work" /\ (pdata[k] # <<>> \/ Ended(k))

\* The parent is gone, and with it every worker: reaped, or left to init after SIGPIPE.
PoolOver == /\ pstep \in {"exited", "killed"}
            /\ \A k \in Kids : ~ Reads(k)
            /\ pstep = "exited" => \A k \in Kids : kid[k] = "reaped"

PoolMoves == PoolOver \/ ParentCan \/ \E k \in Kids : KidCan(k)

\* How far the parent has come says which workers there are and which pipes are open.
StageInv ==
  /\ \A k \in Kids : kid[k] = "born" => toClose[k] # {}
  /\ pstep \in {"off", "apply"} =>
       \A k \in Kids : kid[k] # "reaped" /\ (k < pi => kid[k] # "none")
  /\ pstep = "alloc" =>
       \A k \in Kids : kid[k] \notin {"none", "reaped"} /\ (k < pi => kid[k] # "failed")
  /\ pstep \in {"close", "wait"} => \A k \in Kids : kid[k] \notin {"none", "failed"}
  /\ pstep = "close" => /\ \A k \in pends : k >= pi
                        /\ \A k \in Kids : kid[k] # "reaped"
  /\ pstep = "wait" => \A k \in Kids : kid[k] = "reaped" <=> k < pi
  /\ pstep \in {"wait", "exited", "killed"} => pends = {}
  /\ pstep = "exited" => \A k \in Kids : kid[k] = "reaped"

\* A step of the parent preserves it ...
LEMMA ParentStage == ASSUME PoolIInv, StageInv, PoolRun \/ ParentStep PROVE StageInv'
<1> USE PoolAssumption DEF PoolAssumption, Kids, PoolIInv, PoolTypeOK, StartInv, StageInv
<1>1. CASE PoolRun
  BY <1>1 DEF PoolRun
<1>2. CASE Apply
  <2>1. pi \in Kids /\ pends' = pends \cup {pi} /\ pi' = pi + 1 /\ pstep' = "apply"
    BY <1>2 DEF Apply
  <2>2. \/ kid' = [kid EXCEPT ![pi] = "born"] /\ toClose' = [toClose EXCEPT ![pi] = wfd \cup {pi}]
        \/ kid' = [kid EXCEPT ![pi] = "failed"] /\ toClose' = toClose
    BY <1>2 DEF Apply
  <2>3. \A k \in Kids : kid'[k] = "born" => toClose'[k] # {}
    <3>2. CASE kid' = [kid EXCEPT ![pi] = "born"] /\ toClose' = [toClose EXCEPT ![pi] = wfd \cup {pi}]
      BY <2>1, <3>2
    <3>3. CASE kid' = [kid EXCEPT ![pi] = "failed"] /\ toClose' = toClose
      BY <2>1, <3>3
    <3> QED
      BY <2>2, <3>2, <3>3
  <2>4. \A k \in Kids : kid'[k] # "reaped" /\ (k < pi' => kid'[k] # "none")
    BY <1>2, <2>1, <2>2 DEF Apply
  <2> QED
    BY <2>1, <2>3, <2>4
<1>3. CASE Applied
  BY <1>3 DEF Applied
<1>4. CASE Alloc
  <2>1. ASSUME pi \in Kids PROVE kid[pi] # "failed"
    <3>1. pi % N = pi
      <4>1. (pi + 0 * N) % N = pi
        BY <2>1, Leftover
      <4> QED
        BY <2>1, <4>1
    <3> QED
      BY <1>4, <3>1 DEF Alloc, Reads
  <2>2. \A k \in Kids : k < pi + 1 => k < pi \/ k = pi
    BY <1>4 DEF Alloc
  <2>3. UNCHANGED <<pstep, pends, kid, toClose>> /\ pi' = pi + 1 /\ pstep = "alloc"
    BY <1>4 DEF Alloc
  <2> QED
    BY <2>1, <2>2, <2>3
<1>5. CASE PoolSigpipe
  BY <1>5 DEF PoolSigpipe
<1>6. CASE Allocated
  BY <1>6 DEF Allocated
<1>7. CASE CloseEnd
  <2>1. /\ pends' = pends \ {pi} /\ kid' = kid /\ toClose' = toClose /\ pstep = "close" /\ pi \in Kids
        /\ \/ pi + 1 < N /\ pi' = pi + 1 /\ pstep' = pstep
           \/ ~ (pi + 1 < N) /\ pi' = 0 /\ pstep' = "wait"
    BY <1>7 DEF CloseEnd
  <2>2. \A k \in pends' : k \in Kids /\ k >= pi + 1
    BY <2>1
  <2>3. CASE pi + 1 < N
    BY <2>1, <2>2, <2>3
  <2>4. CASE ~ (pi + 1 < N)
    <3>1. pends' = {}
      BY <2>1, <2>2, <2>4
    <3>2. \A k \in Kids : kid[k] # "reaped" /\ ~ (k < 0)
      BY <2>1
    <3> QED
      BY <2>1, <2>4, <3>1, <3>2
  <2> QED
    BY <2>3, <2>4
<1>8. CASE WaitKid
  <2>1. /\ kid' = [kid EXCEPT ![pi] = "reaped"] /\ pends' = pends /\ toClose' = toClose
        /\ pstep = "wait" /\ pi \in Kids
        /\ \/ pi + 1 < N /\ pi' = pi + 1 /\ pstep' = pstep
           \/ ~ (pi + 1 < N) /\ pi' = 0 /\ pstep' = "exited"
    BY <1>8 DEF WaitKid
  <2> QED
    BY <2>1
<1> QED
  BY <1>1, <1>2, <1>3, <1>4, <1>5, <1>6, <1>7, <1>8 DEF ParentStep

\* ... and so does a step of a worker.
LEMMA KidStage == ASSUME PoolIInv, StageInv, NEW k \in Kids, KidStep(k) PROVE StageInv'
<1> USE DEF PoolIInv, PoolTypeOK, StageInv
<1>1. CASE CloseInherited(k)
  BY <1>1 DEF CloseInherited
<1>2. CASE Work(k)
  BY <1>2 DEF Work
<1>3. CASE EndOfTasks(k)
  BY <1>3 DEF EndOfTasks
<1> QED
  BY <1>1, <1>2, <1>3 DEF KidStep

\* A pipe the parent has closed is kept open only by a worker that is about to close it.
LEMMA SomeKidCan ==
  ASSUME PoolIInv, StageInv, pends = {}, NEW k \in Kids, Reads(k)
  PROVE  \E j \in Kids : KidCan(j)
<1>1. CASE kid[k] = "born"
  BY <1>1 DEF StageInv, KidCan
<1>2. CASE kid[k] = "work" /\ Ended(k)
  BY <1>2 DEF KidCan
<1>3. CASE kid[k] = "work" /\ ~ Ended(k)
  <2>1. PICK j \in Kids : k \in kends[j]
    BY <1>3 DEF Ended
  <2>2. kid[j] = "born" /\ toClose[j] # {}
    BY <2>1 DEF PoolIInv, WorkersHoldNoWriteEnd, StageInv
  <2> QED
    BY <2>2 DEF KidCan
<1> QED
  BY <1>1, <1>2, <1>3 DEF Reads

\* For any numbers of workers and tasks, whatever forks fail: until the parent is gone and
\* every worker with it, some process can do its next statement, and when the parent exits
\* by itself it has reaped all its workers (procpool.cc:115-121, :145, :167-175).
THEOREM PoolNeverStuck == PoolSpec => []PoolMoves
<1>1. PoolInit => StageInv
  BY PoolAssumption DEF PoolAssumption, PoolInit, StageInv, Kids
<1>2. PoolIInv /\ StageInv /\ [PoolNext]_poolVars => StageInv'
  <2>1. StageInv /\ UNCHANGED poolVars => StageInv'
    BY DEF poolVars, StageInv
  <2> QED
    BY <2>1, ParentStage, KidStage DEF PoolNext
<1>3. PoolIInv /\ StageInv => PoolMoves
  <2> SUFFICES ASSUME PoolIInv, StageInv, ~ ParentCan, ~ \E k \in Kids : KidCan(k)
               PROVE  PoolOver
    BY DEF PoolMoves
  <2>1. pstep \in {"wait", "exited", "killed"} /\ pends = {}
    BY DEF PoolIInv, PoolTypeOK, StageInv, ParentCan
  <2>2. \A k \in Kids : ~ Reads(k)
    BY <2>1, SomeKidCan
  <2>3. pstep # "wait"
    <3> SUFFICES ASSUME pstep = "wait" PROVE FALSE
      OBVIOUS
    <3>1. pi \in Kids /\ kid[pi] \in {"none", "born", "work", "failed", "zombie", "reaped"}
      BY DEF PoolIInv, PoolTypeOK
    <3>2. kid[pi] = "reaped" <=> pi < pi
      BY <3>1 DEF StageInv
    <3>3. ~ (pi < pi)
      BY <3>1 DEF Kids
    <3> QED
      BY <2>2, <3>1, <3>2, <3>3 DEF Reads, StageInv, ParentCan
  <2> QED
    BY <2>1, <2>2, <2>3 DEF PoolOver, StageInv
<1> QED
  BY <1>1, <1>2, <1>3, PoolAlways, PTL DEF PoolSpec

-------------------------------------------------------------------------------
(* The shell. *)

\* The functions are defined for every stage; a line that is parsed has a command, and
\* the redirection option has been reset for it.
ShapeInv == /\ DOMAIN stage = Stages /\ DOMAIN opt = Stages
            /\ Len(cmd) \in 0 .. MaxStages
            /\ shell = "parse" => Len(cmd) >= 1 /\ rdOption = "none"

\* The process of command a is the one that does something: those of later commands wait
\* for their predecessors, and those of earlier ones do not exist.
Active(a) == /\ a \in 1 .. Len(cmd) /\ stage[a] \in {"setup", "exec", "run", "zombie"}
             /\ \A r \in Stages : /\ r < a \/ r > Len(cmd) => stage[r] = "none"
                                  /\ a < r /\ r <= Len(cmd) => stage[r] = "wait"

\* While the shell waits one command is active; else there are no processes.
ChainInv == IF shell = "wait" THEN \E a \in Stages : Active(a)
                              ELSE \A s \in Stages : stage[s] = "none"

\* A process that has analysed its command has that command's redirection.
OptInv == \A s \in Stages : stage[s] \in {"wait", "exec", "run"} => opt[s] = cmd[s].redir

\* The inductive invariant.
ShellIInv == ShapeInv /\ ChainInv /\ OptInv

-------------------------------------------------------------------------------
\* The inductive invariant holds before the shell runs.
LEMMA ShellInitIInv == ShellInit => ShellIInv
  BY ShellAssumption
     DEF ShellAssumption, ShellInit, ShellIInv, ShapeInv, ChainInv, OptInv

\* A process that is not waiting is the active one.
LEMMA ActiveIs ==
  ASSUME ShellIInv, NEW s \in Stages, stage[s] # "none"
  PROVE  /\ shell = "wait"
         /\ stage[s] # "wait" => Active(s)
         /\ stage[s] = "wait" => \E a \in Stages : Active(a) /\ a < s /\ s <= Len(cmd)
<1>1. shell = "wait"
  BY DEF ShellIInv, ChainInv
<1>2. PICK a \in Stages : Active(a)
  BY <1>1 DEF ShellIInv, ChainInv
<1>3. a \in Int /\ s \in Int /\ Len(cmd) \in Nat
  BY DEF Stages, ShellIInv, ShapeInv
<1>4. stage[s] # "wait" => s = a
  BY <1>2, <1>3 DEF Active
<1>5. stage[s] = "wait" => a < s /\ s <= Len(cmd)
  BY <1>2, <1>3 DEF Active
<1> QED
  BY <1>1, <1>2, <1>4, <1>5

\* The new command in its process is active, and the shell waits: of any line or of a
\* single command.
LEMMA ForkIInv ==
  ASSUME ShellIInv, shell = "parse", shell' = "wait", NEW a \in Stages, NEW st \in {"exec", "setup"},
         Len(cmd') = a, stage' = [stage EXCEPT ![a] = st],
         DOMAIN opt' = Stages, st = "exec" => opt'[a] = cmd'[a].redir
  PROVE  ShellIInv'
<1> USE ShellAssumption DEF ShellAssumption
<1>1. DOMAIN stage = Stages /\ \A s \in Stages : stage[s] = "none" /\ s \in Nat
  BY DEF ShellIInv, ShapeInv, ChainInv, Stages
<1>2. stage'[a] = st /\ \A s \in Stages \ {a} : stage'[s] = "none"
  BY <1>1
<1>3. ShapeInv'
  BY <1>1 DEF ShapeInv, Stages
<1>4. a \in 1 .. Len(cmd') /\ \A r \in Stages : ~(a < r /\ r <= Len(cmd'))
  BY <1>1 DEF Stages
<1>5. Active(a)'
  BY <1>1, <1>2, <1>4 DEF Active, Stages
<1>6. ChainInv'
  BY <1>5 DEF ChainInv
<1>7. OptInv'
  BY <1>2 DEF OptInv
<1> QED
  BY <1>3, <1>6, <1>7 DEF ShellIInv

\* A single command preserves the invariant, whichever redirection was found for it.
LEMMA SingleIInv ==
  ASSUME ShellIInv, shell = "parse", NEW prog, NEW redir, Single(prog, redir)
  PROVE  ShellIInv'
<1> DEFINE c == [prog |-> prog, redir |-> redir]
<1>0. rdOption = "none" /\ Len(cmd) >= 1 /\ Len(cmd) <= MaxStages /\ Len(cmd) \in Nat
  BY DEF ShellIInv, ShapeInv
<1>1. /\ cmd' = <<c>> /\ Len(cmd') = 1 /\ cmd'[1].redir = redir
      /\ rdOption' = redir /\ 1 \in Stages /\ MaxStages >= 1
  BY <1>0, ShellAssumption DEF Single, Stages, ShellAssumption
<1>2. CASE shell' = "wait"
  <2>1. stage' = [stage EXCEPT ![1] = "exec"] /\ opt' = [opt EXCEPT ![1] = rdOption']
    BY <1>2 DEF Single
  <2>2. DOMAIN opt' = Stages /\ opt'[1] = cmd'[1].redir
    BY <1>1, <2>1 DEF ShellIInv, ShapeInv
  <2> QED
    BY <1>1, <1>2, <2>1, <2>2, ForkIInv
<1>3. CASE shell' # "wait"
  <2>1. UNCHANGED <<stage, opt>> /\ shell' \in {"dead", "prompt"}
    BY <1>3 DEF Single
  <2>2. ShapeInv'
    BY <1>1, <2>1 DEF ShellIInv, ShapeInv
  <2>3. ChainInv' /\ OptInv'
    BY <2>1 DEF ShellIInv, ChainInv, OptInv
  <2> QED
    BY <2>2, <2>3 DEF ShellIInv
<1> QED
  BY <1>2, <1>3

\* The main loop of the shell preserves the invariant.
LEMMA PromptIInv == ASSUME ShellIInv, ShellRun \/ ReadLine \/ ShellStep PROVE ShellIInv'
<1> USE ShellAssumption DEF ShellAssumption
<1>1. CASE ShellRun
  BY <1>1 DEF ShellRun, ShellIInv, ShapeInv, ChainInv, OptInv
<1>2. CASE ReadLine
  <2>1. Len(cmd') \in 1 .. MaxStages
    BY <1>2 DEF ReadLine
  <2> QED
    BY <1>2, <2>1 DEF ReadLine, ShellIInv, ShapeInv, ChainInv, OptInv
<1>3. CASE PlainCommand
  BY <1>3, SingleIInv DEF PlainCommand
<1>4. CASE RedirCommand
  BY <1>4, SingleIInv DEF RedirCommand
<1>5. CASE PipeCommand
  <2>1. CASE Last = 1 /\ Single(cmd[1].prog, cmd[1].redir)
    BY <1>5, <2>1, SingleIInv DEF PipeCommand
  <2>2. CASE ~(Last = 1 /\ Single(cmd[1].prog, cmd[1].redir))
    <3>1. /\ shell = "parse" /\ Last > 1 /\ shell' = "wait" /\ cmd' = cmd
          /\ stage' = [stage EXCEPT ![Last] = "setup"] /\ opt' = [opt EXCEPT ![Last] = rdOption]
      BY <1>5, <2>2 DEF PipeCommand
    <3>2. Last \in Stages /\ Len(cmd') = Last /\ DOMAIN opt' = Stages
      BY <3>1 DEF Last, Stages, ShellIInv, ShapeInv
    <3> QED
      BY <3>1, <3>2, ForkIInv
  <2> QED
    BY <2>1, <2>2
<1>6. CASE ShellWait
  <2>1. /\ shell' = "prompt" /\ cmd' = <<>> /\ stage[Last] = "zombie"
        /\ stage' = [stage EXCEPT ![Last] = "none"] /\ opt' = [s \in Stages |-> "none"]
    BY <1>6 DEF ShellWait
  <2>2. PICK a \in Stages : Active(a)
    BY <1>6 DEF ShellWait, ShellIInv, ChainInv
  <2>3. Last = a
    BY <2>1, <2>2 DEF Active, Last, ShellIInv, ShapeInv, Stages
  <2>4. DOMAIN stage = Stages /\ \A s \in Stages : s # a => stage[s] = "none"
    BY <2>2, <2>3 DEF Active, Last, ShellIInv, ShapeInv, Stages
  <2>5. DOMAIN stage' = Stages /\ \A s \in Stages : stage'[s] = "none"
    BY <2>1, <2>2, <2>3, <2>4
  <2> QED
    BY <2>1, <2>5 DEF ShellIInv, ShapeInv, ChainInv, OptInv
<1> QED
  BY <1>1, <1>2, <1>3, <1>4, <1>5, <1>6 DEF ShellStep

\* The active process stays active when it changes its own stage only.
LEMMA SameActive ==
  ASSUME ShellIInv, NEW s \in Stages, Active(s), NEW st \in {"exec", "run", "zombie"},
         stage' = [stage EXCEPT ![s] = st], UNCHANGED <<shell, cmd, rdOption>>,
         DOMAIN opt' = Stages, \A r \in Stages \ {s} : opt'[r] = opt[r],
         st # "zombie" => opt'[s] = cmd[s].redir
  PROVE  ShellIInv'
<1>1. shell = "wait"
  BY ActiveIs DEF Active
<1>2. ShapeInv' /\ stage'[s] = st /\ \A r \in Stages \ {s} : stage'[r] = stage[r]
  BY <1>1 DEF ShellIInv, ShapeInv
<1>3. Active(s)'
  BY <1>2 DEF Active, Stages
<1>4. ChainInv'
  BY <1>1, <1>3 DEF ChainInv
<1>5. OptInv'
  BY <1>2 DEF ShellIInv, OptInv
<1> QED
  BY <1>2, <1>4, <1>5 DEF ShellIInv

\* The processes of the commands preserve the invariant.
LEMMA StageIInv == ASSUME ShellIInv, NEW s \in Stages, StageStep(s) PROVE ShellIInv'
<1> USE ShellAssumption DEF ShellAssumption, Stages
<1>1. DOMAIN stage = Stages /\ DOMAIN opt = Stages /\ s \in Int /\ Len(cmd) \in Nat
  BY DEF ShellIInv, ShapeInv
<1>2. CASE PipeProcess(s)
  <2>1. stage[s] = "setup" /\ UNCHANGED <<shell, cmd, rdOption>>
    BY <1>2 DEF PipeProcess
  <2>2. Active(s) /\ shell = "wait"
    BY <2>1, ActiveIs
  <2>3. CASE cmd[s].prog = "empty"
    <3>1. stage' = [stage EXCEPT ![s] = "zombie"] /\ opt' = opt
      BY <1>2, <2>3 DEF PipeProcess
    <3> QED
      BY <1>1, <2>1, <2>2, <3>1, SameActive
  <2>4. CASE cmd[s].prog # "empty" /\ s = 1
    <3>1. stage' = [stage EXCEPT ![s] = "exec"] /\ opt' = [opt EXCEPT ![s] = cmd[s].redir]
      BY <1>2, <2>4 DEF PipeProcess, Analysis
    <3> QED
      BY <1>1, <2>1, <2>2, <3>1, SameActive
  <2>5. CASE cmd[s].prog # "empty" /\ s # 1
    <3>1. /\ stage' = [stage EXCEPT ![s] = "wait", ![s - 1] = "setup"]
          /\ opt' = [[opt EXCEPT ![s] = cmd[s].redir] EXCEPT ![s - 1] = Analysis(s)[s]]
      BY <1>2, <2>5 DEF PipeProcess, Analysis
    <3>2. s - 1 \in Stages /\ s - 1 # s
      BY <1>1, <2>5
    <3>3. /\ DOMAIN stage' = Stages /\ DOMAIN opt' = Stages
          /\ stage'[s] = "wait" /\ stage'[s - 1] = "setup" /\ opt'[s] = cmd[s].redir
          /\ \A r \in Stages \ {s, s - 1} : stage'[r] = stage[r] /\ opt'[r] = opt[r]
      BY <1>1, <3>1, <3>2
    <3>4. Active(s - 1)'
      BY <1>1, <2>1, <2>2, <3>2, <3>3 DEF Active
    <3>5. ChainInv' /\ ShapeInv'
      BY <2>1, <2>2, <3>2, <3>3, <3>4 DEF ChainInv, ShellIInv, ShapeInv
    <3>6. OptInv'
      BY <2>1, <3>3 DEF ShellIInv, OptInv
    <3> QED
      BY <3>5, <3>6 DEF ShellIInv
  <2> QED
    BY <2>3, <2>4, <2>5
<1>3. CASE Reap(s)
  <2>1. /\ stage[s] = "wait" /\ stage[s - 1] = "zombie" /\ UNCHANGED <<shell, cmd, rdOption, opt>>
        /\ stage' = [stage EXCEPT ![s] = "exec", ![s - 1] = "none"]
    BY <1>3 DEF Reap
  <2>2. PICK a \in Stages : Active(a) /\ a < s /\ s <= Len(cmd)
    BY <2>1, ActiveIs
  <2>3. shell = "wait" /\ a = s - 1
    BY <1>1, <2>1, <2>2, ActiveIs DEF Active
  <2>4. /\ DOMAIN stage' = Stages /\ stage'[s] = "exec" /\ stage'[s - 1] = "none"
        /\ \A r \in Stages \ {s, s - 1} : stage'[r] = stage[r]
    BY <1>1, <2>1, <2>2, <2>3
  <2>5. Active(s)'
    BY <1>1, <2>1, <2>2, <2>3, <2>4 DEF Active
  <2>6. ChainInv' /\ ShapeInv'
    BY <2>1, <2>3, <2>4, <2>5 DEF ChainInv, ShellIInv, ShapeInv
  <2>7. OptInv'
    BY <2>1, <2>4 DEF ShellIInv, OptInv
  <2> QED
    BY <2>6, <2>7 DEF ShellIInv
<1>4. CASE ChildProcess(s)
  <2>1. stage[s] = "exec" /\ UNCHANGED <<shell, cmd, rdOption, opt>>
    BY <1>4 DEF ChildProcess, End
  <2>2. Active(s) /\ opt[s] = cmd[s].redir
    BY <2>1, ActiveIs DEF ShellIInv, OptInv
  <2>3. \E st \in {"zombie", "run"} : stage' = [stage EXCEPT ![s] = st]
    BY <1>4 DEF ChildProcess, End
  <2> QED
    BY <1>1, <2>1, <2>2, <2>3, SameActive
<1>5. CASE ProgramWrites(s) \/ ProgramReads(s)
  <2>1. UNCHANGED <<shell, cmd, rdOption, opt, stage>>
    BY <1>5 DEF ProgramWrites, ProgramReads
  <2> QED
    BY <2>1 DEF ShellIInv, ShapeInv, ChainInv, Active, OptInv
<1>6. CASE ProgramEnds(s)
  <2>1. stage[s] = "run" /\ stage' = [stage EXCEPT ![s] = "zombie"] /\ UNCHANGED <<shell, cmd, rdOption, opt>>
    BY <1>6 DEF ProgramEnds, End
  <2>2. Active(s)
    BY <2>1, ActiveIs
  <2> QED
    BY <1>1, <2>1, <2>2, SameActive
<1> QED
  BY <1>2, <1>3, <1>4, <1>5, <1>6 DEF StageStep

-------------------------------------------------------------------------------
\* The inductive invariant holds in every execution.
LEMMA ShellAlways == ShellSpec => []ShellIInv
<1>1. ShellInit => ShellIInv
  BY ShellInitIInv
<1>2. ShellIInv /\ [ShellNext]_shellVars => ShellIInv'
  <2>1. ShellIInv /\ UNCHANGED shellVars => ShellIInv'
    BY DEF shellVars, ShellIInv, ShapeInv, ChainInv, Active, OptInv
  <2> QED
    BY <2>1, PromptIInv, StageIInv DEF ShellNext
<1> QED
  BY <1>1, <1>2, PTL DEF ShellSpec

\* Nobody holds the write end of a pipe unless a pipeline runs.
PipesInv == shell # "wait" => \A s \in Stages : writers[s] = {}

\* The types are right before the shell runs.
LEMMA InitTypes == ShellInit => ShellTypeOK /\ PipesInv
  BY ShellAssumption DEF ShellAssumption, ShellInit, ShellTypeOK, PipesInv, Redirs, Stages, Last

\* A command of a line has a program and a redirection.
LEMMA CommandTypes ==
  ASSUME ShellTypeOK, NEW s \in 1 .. Len(cmd)
  PROVE  cmd[s].prog \in Programs /\ cmd[s].redir \in Redirs
<1> DEFINE Command == [prog : Programs, redir : Redirs]
<1>1. cmd \in Seq(Command)
  BY DEF ShellTypeOK
<1> HIDE DEF Command
<1>2. cmd[s] \in Command
  BY <1>1
<1> QED
  BY <1>2 DEF Command

\* The main loop keeps them.
LEMMA ShellTypes ==
  ASSUME ShellIInv, ShellTypeOK, PipesInv, ShellRun \/ ReadLine \/ ShellStep
  PROVE  ShellTypeOK' /\ PipesInv'
<1> USE ShellAssumption DEF ShellAssumption
<1>1. CASE ShellRun
  BY <1>1 DEF ShellRun, ShellTypeOK, PipesInv, Last
<1>2. CASE ReadLine
  BY <1>2 DEF ReadLine, ShellTypeOK, PipesInv, Redirs
<1>3. ASSUME NEW prog \in Programs, NEW redir \in Redirs, shell = "parse", Single(prog, redir)
      PROVE  ShellTypeOK' /\ PipesInv'
  <2>1. cmd' \in Seq([prog : Programs, redir : Redirs])
    BY <1>3 DEF Single
  <2>2. /\ rdOption' \in Redirs /\ UNCHANGED <<version, writers, piped, todo>>
        /\ shell' \in {"prompt", "wait", "dead"}
    BY <1>3 DEF Single, ShellTypeOK
  <2>3. /\ stage' \in [Stages -> {"none", "setup", "wait", "exec", "run", "zombie"}]
        /\ opt' \in [Stages -> Redirs]
    BY <1>3, <2>2 DEF Single, ShellTypeOK
  <2>4. \A s \in Stages : writers[s] = {}
    BY <1>3 DEF PipesInv
  <2> QED
    BY <2>1, <2>2, <2>3, <2>4 DEF ShellTypeOK, PipesInv
<1>4. CASE PlainCommand \/ RedirCommand \/ \E r \in Redirs : shell = "parse" /\ Single(cmd[1].prog, r)
  <2>1. cmd[1].prog \in Programs /\ shell = "parse"
    <3>1. shell = "parse" /\ Len(cmd) \in Nat /\ Len(cmd) >= 1
      BY <1>4 DEF ShellIInv, ShapeInv, PlainCommand, RedirCommand
    <3> QED
      BY <3>1, CommandTypes
  <2>2. PICK r \in Redirs : Single(cmd[1].prog, r)
    BY <1>4 DEF PlainCommand, RedirCommand, Redirs
  <2> QED
    BY <1>3, <2>1, <2>2
<1>5. CASE PipeCommand
  <2>1. CASE Last = 1 /\ Single(cmd[1].prog, cmd[1].redir)
    <3>1. cmd[1].redir \in Redirs
      BY <2>1, CommandTypes DEF Last
    <3> QED
      BY <1>4, <1>5, <2>1, <3>1 DEF PipeCommand
  <2>2. CASE ~(Last = 1 /\ Single(cmd[1].prog, cmd[1].redir))
    BY <1>5, <2>2 DEF PipeCommand, ShellTypeOK, PipesInv, Last
  <2> QED
    BY <2>1, <2>2
<1>6. CASE ShellWait
  <2>1. /\ cmd' \in Seq([prog : Programs, redir : Redirs]) /\ shell' = "prompt"
        /\ UNCHANGED <<version, rdOption>>
    BY <1>6 DEF ShellWait
  <2>2. /\ stage' \in [Stages -> {"none", "setup", "wait", "exec", "run", "zombie"}]
        /\ opt' \in [Stages -> Redirs]
    BY <1>6 DEF ShellWait, ShellTypeOK, Redirs
  <2>3. writers' \in [Stages -> SUBSET Stages] /\ \A r \in Stages : writers'[r] = {}
    BY <1>6 DEF ShellWait
  <2>4. piped' \in [Stages -> 0 .. PipeCap + 1] /\ todo' \in [Stages -> Nat]
    BY <1>6 DEF ShellWait
  <2> QED
    BY <2>1, <2>2, <2>3, <2>4 DEF ShellTypeOK, PipesInv
<1> QED
  BY <1>1, <1>2, <1>4, <1>5, <1>6 DEF ShellStep

\* So do the processes of the commands.
LEMMA StageTypes ==
  ASSUME ShellIInv, ShellTypeOK, NEW s \in Stages, StageStep(s)
  PROVE  ShellTypeOK' /\ PipesInv'
<1> USE ShellAssumption DEF ShellAssumption
<1>0. /\ shell = "wait" /\ UNCHANGED <<version, shell, cmd, rdOption>> /\ Last' = Last
      /\ s \in Int /\ Last \in Nat /\ s <= Last
  <2>1. stage[s] # "none"
    BY DEF StageStep, PipeProcess, Reap, ChildProcess, ProgramWrites, ProgramReads, ProgramEnds
  <2>2. UNCHANGED <<version, shell, cmd, rdOption>>
    BY DEF StageStep, PipeProcess, Reap, ChildProcess, ProgramWrites, ProgramReads, ProgramEnds, End
  <2> QED
    BY <2>1, <2>2, ActiveIs DEF Active, Last, Stages, ShellIInv, ShapeInv
<1>1. PipesInv'
  BY <1>0 DEF PipesInv
<1>2. CASE PipeProcess(s)
  <2>1. /\ opt' \in [Stages -> Redirs]
        /\ stage' \in [Stages -> {"none", "setup", "wait", "exec", "run", "zombie"}]
    <3>1. cmd[s].redir \in Redirs
      BY <1>0, CommandTypes DEF Last, Stages
    <3> QED
      BY <1>2, <3>1 DEF PipeProcess, Analysis, ShellTypeOK
  <2>2. piped' \in [Stages -> 0 .. PipeCap + 1] /\ todo' = todo
    <3>1. (piped' = piped \/ piped' = [piped EXCEPT ![s - 1] = 1]) /\ todo' = todo
      BY <1>2 DEF PipeProcess, Traced
    <3> QED
      BY <3>1 DEF ShellTypeOK
  <2>3. writers' \in [Stages -> SUBSET Stages] /\ \A r \in Stages : r >= Last => writers'[r] = {}
    <3>1. CASE cmd[s].prog = "empty" \/ s = 1
      BY <1>2, <3>1 DEF PipeProcess, ShellTypeOK
    <3>2. CASE cmd[s].prog # "empty" /\ s # 1
      <4>1. s - 1 \in Stages /\ s - 1 < Last
        BY <1>0, <3>2 DEF Stages
      <4>2. writers' = [r \in Stages |->
                          IF r = s - 1 THEN {s - 1} \cup (IF s = Last THEN {} ELSE {s})
                          ELSE IF s \in writers[r] THEN writers[r] \cup {s - 1}
                          ELSE writers[r]]
        BY <1>2, <3>2 DEF PipeProcess
      <4>3. \A r \in Stages : r >= Last => r # s - 1 /\ s \notin writers[r]
        BY <1>0, <4>1 DEF ShellTypeOK, Stages
      <4> QED
        BY <4>1, <4>2, <4>3 DEF ShellTypeOK
    <3> QED
      BY <3>1, <3>2
  <2> QED
    BY <1>0, <1>1, <2>1, <2>2, <2>3 DEF ShellTypeOK
<1>3. CASE Reap(s)
  BY <1>0, <1>1, <1>3 DEF Reap, ShellTypeOK
<1>4. CASE ChildProcess(s)
  <2>1. /\ stage' \in [Stages -> {"none", "setup", "wait", "exec", "run", "zombie"}]
        /\ opt' = opt /\ piped' = piped
    BY <1>4 DEF ChildProcess, End, ShellTypeOK
  <2>2. writers' \in [Stages -> SUBSET Stages] /\ \A r \in Stages : writers'[r] \subseteq writers[r]
    BY <1>4 DEF ChildProcess, End, ShellTypeOK
  <2>3. todo' \in [Stages -> Nat]
    <3>1. Output(cmd[s].prog) \in Nat
      BY DEF Output
    <3> QED
      BY <1>4, <3>1 DEF ChildProcess, ShellTypeOK
  <2> QED
    BY <1>0, <1>1, <2>1, <2>2, <2>3 DEF ShellTypeOK
<1>5. CASE ProgramWrites(s)
  <2>0. s \in Stages /\ piped \in [Stages -> 0 .. PipeCap + 1] /\ todo \in [Stages -> Nat]
    BY DEF ShellTypeOK
  <2>1. /\ todo' = [todo EXCEPT ![s] = todo[s] - 1] /\ todo[s] > 0
        /\ \/ piped' = piped
           \/ piped' = [piped EXCEPT ![s] = piped[s] + 1] /\ piped[s] <= PipeCap
        /\ UNCHANGED <<version, shell, cmd, rdOption, stage, opt, writers>>
    BY <1>5 DEF ProgramWrites
  <2>2. todo' \in [Stages -> Nat]
    <3>1. todo[s] - 1 \in Nat
      BY <2>0, <2>1
    <3> QED
      BY <2>0, <2>1, <3>1
  <2>3. piped' \in [Stages -> 0 .. PipeCap + 1]
    <3>1. CASE piped' = [piped EXCEPT ![s] = piped[s] + 1] /\ piped[s] <= PipeCap
      <4>1. piped[s] + 1 \in 0 .. PipeCap + 1
        BY <1>1, <2>0, <3>1
      <4> QED
        BY <2>0, <3>1, <4>1
    <3> QED
      BY <2>0, <2>1, <3>1
  <2> QED
    BY <1>0, <1>1, <2>1, <2>2, <2>3 DEF ShellTypeOK
<1>6. CASE ProgramReads(s)
  <2>1. s - 1 \in Stages
    BY <1>0, <1>6 DEF ProgramReads, FromPipe, Stages
  <2>2. /\ piped' = [piped EXCEPT ![s - 1] = piped[s - 1] - 1] /\ piped[s - 1] > 0
        /\ todo' = [todo EXCEPT ![s] = 1]
        /\ UNCHANGED <<version, shell, cmd, rdOption, stage, opt, writers>>
    BY <1>6 DEF ProgramReads
  <2>3. piped \in [Stages -> 0 .. PipeCap + 1] /\ todo \in [Stages -> Nat]
    BY DEF ShellTypeOK
  <2>4. piped' \in [Stages -> 0 .. PipeCap + 1]
    <3>1. piped[s - 1] - 1 \in 0 .. PipeCap + 1
      BY <1>1, <2>1, <2>2, <2>3
    <3> QED
      BY <2>1, <2>2, <2>3, <3>1
  <2>5. todo' \in [Stages -> Nat]
    BY <2>2, <2>3
  <2> QED
    BY <1>0, <1>1, <2>2, <2>4, <2>5 DEF ShellTypeOK
<1>7. CASE ProgramEnds(s)
  BY <1>0, <1>1, <1>7 DEF ProgramEnds, End, ShellTypeOK
<1> QED
  BY <1>2, <1>3, <1>4, <1>5, <1>6, <1>7 DEF StageStep

\* So the types are always right, and the pipes free at the prompt.
LEMMA ShellTypesAlways == ShellSpec => [](ShellTypeOK /\ PipesInv)
<1>1. ShellIInv /\ ShellTypeOK /\ PipesInv /\ [ShellNext]_shellVars => (ShellTypeOK /\ PipesInv)'
  <2>1. ShellTypeOK /\ PipesInv /\ UNCHANGED shellVars => (ShellTypeOK /\ PipesInv)'
    BY DEF shellVars, ShellTypeOK, PipesInv, Last
  <2> QED
    BY <2>1, ShellTypes, StageTypes DEF ShellNext
<1> QED
  BY <1>1, InitTypes, ShellAlways, PTL DEF ShellSpec

\* For lines of any length and pipes of any size: every variable keeps its type, no pipe
\* holds more than its capacity and the trace text, and the last command has no pipe.
THEOREM ShellTypeCorrect == ShellSpec => []ShellTypeOK
  BY ShellTypesAlways, PTL

\* For pipelines of any length: a program runs with the redirection written at its own
\* command, though the options are global and inherited (pipe_t/MyShell/myshell.c:236-237).
THEOREM OwnRedirection == ShellSpec => []RedirectsItsOwn
<1>1. ShellIInv => RedirectsItsOwn
  BY DEF ShellIInv, OptInv, RedirectsItsOwn
<1> QED
  BY <1>1, ShellAlways, PTL

\* For pipelines of any length: when a program starts all commands before it have ended and
\* been reaped, and no process is left when the prompt comes back (:280, :332, :345).
THEOREM OneAfterTheOther == ShellSpec => []NobodyLeftBehind
<1>1. ShellIInv => NobodyLeftBehind
  <2> SUFFICES ASSUME ShellIInv PROVE NobodyLeftBehind
    OBVIOUS
  <2>1. ASSUME NEW s \in Stages, stage[s] \in {"exec", "run"}, NEW r \in 1 .. s - 1
        PROVE  stage[r] = "none"
    <3>1. Active(s)
      BY <2>1, ActiveIs
    <3> QED
      BY <2>1, <3>1, ShellAssumption DEF ShellAssumption, Active, Stages
  <2>2. shell = "prompt" => \A s \in Stages : stage[s] = "none"
    BY DEF ShellIInv, ChainInv
  <2> QED
    BY <2>1, <2>2 DEF NobodyLeftBehind
<1> QED
  BY <1>1, ShellAlways, PTL

\* The three together, what the run checks for pipelines of three commands.
THEOREM ShellSafety == ShellSpec => []ShellSafe
  BY ShellTypeCorrect, OwnRedirection, OneAfterTheOther, PTL DEF ShellSafe

-------------------------------------------------------------------------------
(***************************************************************************)
(* When a pipeline hangs.  It hangs if a command of it is endless and gets *)
(* to run, and then for ever; else some process can always go on.          *)
(***************************************************************************)
\* What a program that was started writes to its pipe, and who holds the pipes.
Flow(s) ==
  /\ stage[s] \in {"setup", "wait", "exec"} => piped[s] = 1
  /\ stage[s] = "run" /\ ToPipe(s) =>
       /\ cmd[s].prog \in {"source", "flood", "filter"}
       /\ cmd[s].prog # "filter" => piped[s] + todo[s] = Output(cmd[s].prog) + 1
       /\ cmd[s].prog = "filter" /\ ~ FromPipe(s) => todo[s] = 0
  /\ stage[s] \in {"wait", "exec", "run"} /\ s > 1 => s \in writers[s - 1]
FlowInv == \A s \in Stages : s < Last => Flow(s)

\* A write end is held by live processes only, and by the reader's only if it is not last.
PipeHolders == \A r \in Stages : \A w \in writers[r] :
               stage[w] \notin {"none", "zombie"} /\ w <= r + 1 /\ (w = r + 1 => w < Last)

\* A command that is endless, whose redirection cannot fail and whose turn comes.
Hanging(s) == /\ Endless(cmd, s) /\ cmd[s].redir = "none"
              /\ \A r \in s + 1 .. Last : cmd[r].prog # "empty"

\* Nothing after it runs, and it does not end.
HangInv == shell = "wait" =>
  \A s \in 1 .. Last : Hanging(s) =>
    /\ stage[s] # "zombie"
    /\ \A r \in s + 1 .. Last : stage[r] \in {"none", "setup", "wait"}

\* The process of command s can do its next statement: only waitpid, read and write block.
StageCan(s) ==
  \/ stage[s] \in {"setup", "exec"}
  \/ stage[s] = "wait" /\ stage[s - 1] = "zombie"
  \/ stage[s] = "run" /\ todo[s] > 0 /\ (ToPipe(s) => piped[s] <= PipeCap)
  \/ stage[s] = "run" /\ todo[s] = 0 /\ (cmd[s].prog = "filter" /\ FromPipe(s) =>
                                           piped[s - 1] > 0 \/ writers[s - 1] = {})

\* A line without an endless command goes on as long as the shell waits for it.
LineMoves == shell = "wait" /\ (\A s \in DOMAIN cmd : ~ Endless(cmd, s)) =>
               stage[Last] = "zombie" \/ \E s \in Stages : StageCan(s)

\* What the proofs below assume of a state: all of it is proved above.
ShellBase == ShellIInv /\ ShellTypeOK /\ PipesInv

\* The inductive invariant of the pipes.
PipelineInv == FlowInv /\ PipeHolders /\ HangInv

\* The commands in the places of the line, and the one whose process is active.
LEMMA Turn ==
  ASSUME ShellBase, NEW s \in Stages, stage[s] \notin {"none", "wait"}
  PROVE  /\ s \in Nat /\ s >= 1 /\ s <= Last /\ Last \in Nat
         /\ \A r \in Stages : (r < s => stage[r] = "none") /\ (s < r /\ r <= Last => stage[r] = "wait")
<1>1. Active(s)
  BY ActiveIs DEF ShellBase
<1>2. Len(cmd) \in Nat
  BY DEF ShellBase, ShellIInv, ShapeInv
<1> QED
  BY <1>1, <1>2 DEF Active, Stages, Last

\* A command that is endless is a flood into its pipe, or a filter in the middle.
LEMMA HangProgram ==
  ASSUME ShellBase, NEW s \in 1 .. Last, Hanging(s)
  PROVE  /\ s \in Nat /\ s \in Stages /\ s < Last
         /\ cmd[s].prog = "flood" \/ (cmd[s].prog = "filter" /\ s > 1)
         /\ cmd[s].redir = "none"
<1>1. PipeCap \in Nat \ {0} /\ MaxStages \in Nat /\ Len(cmd) \in 0 .. MaxStages
  BY ShellAssumption DEF ShellAssumption, ShellBase, ShellIInv, ShapeInv
<1>2. \A p : Output(p) > PipeCap => p = "flood"
  BY <1>1 DEF Output
<1> QED
  BY <1>1, <1>2 DEF Hanging, Endless, Last, Stages

\* When the main loop has done its step, at most the process of the last command is there,
\* and nobody holds a pipe.
LEMMA MainLine ==
  ASSUME ShellBase, ShellIInv', PipesInv', ShellRun \/ ReadLine \/ ShellStep
  PROVE  /\ \A r \in Stages : writers'[r] = {}
         /\ \A s \in Stages : stage'[s] = "none" \/ s >= Last'
         /\ \A s \in Stages : stage'[s] \in {"none", "setup"} \/ Last' = 1
<1> USE DEF ShellBase
<1>1. ASSUME shell' # "wait"
      PROVE  \A s \in Stages : stage'[s] = "none" /\ writers'[s] = {}
  BY <1>1 DEF ShellIInv, ChainInv, PipesInv
<1>2. ASSUME NEW prog, NEW redir, shell = "parse", Single(prog, redir), shell' = "wait"
      PROVE  /\ \A r \in Stages : writers'[r] = {}
             /\ Last' = 1
             /\ \A s \in Stages : s >= 1
  BY <1>2, ShellAssumption DEF Single, Last, PipesInv, Stages, ShellAssumption
<1>3. ASSUME PipeCommand, Last > 1, shell' = "wait",
             ~ \E prog, redir : Single(prog, redir)
      PROVE  /\ \A r \in Stages : writers'[r] = {}
             /\ \A s \in Stages : stage'[s] = "none" \/ s >= Last'
             /\ \A s \in Stages : stage'[s] \in {"none", "setup"}
  <2>1. /\ shell = "parse" /\ cmd' = cmd /\ writers' = writers
        /\ stage' = [stage EXCEPT ![Last] = "setup"]
    BY <1>3 DEF PipeCommand
  <2>2. \A s \in Stages : stage[s] = "none" /\ writers[s] = {} /\ s \in Nat
    BY <2>1 DEF ShellIInv, ChainInv, PipesInv, Stages
  <2>3. DOMAIN stage = Stages /\ Last' = Last /\ Last \in Nat
    BY <2>1 DEF ShellIInv, ShapeInv, Last
  <2> QED
    BY <2>1, <2>2, <2>3
<1>4. shell' = "wait" => \/ \E prog, redir : shell = "parse" /\ Single(prog, redir)
                         \/ PipeCommand /\ Last > 1
  BY DEF ShellRun, ReadLine, ShellStep, PlainCommand, RedirCommand, PipeCommand, ShellWait
<1>5. CASE shell' # "wait"
  BY <1>1, <1>5
<1>6. CASE shell' = "wait" /\ \E prog, redir : shell = "parse" /\ Single(prog, redir)
  BY <1>2, <1>6
<1>7. CASE /\ shell' = "wait" /\ PipeCommand /\ Last > 1
           /\ ~ \E prog, redir : shell = "parse" /\ Single(prog, redir)
  <2>1. ~ \E prog, redir : Single(prog, redir)
    BY <1>7 DEF PipeCommand
  <2> QED
    BY <1>3, <1>7, <2>1
<1> QED
  BY <1>4, <1>5, <1>6, <1>7

\* So the main loop preserves the invariant.
LEMMA MainPipeline ==
  ASSUME ShellBase, ShellBase', ShellRun \/ ReadLine \/ ShellStep
  PROVE  PipelineInv'
<1>1. /\ \A r \in Stages : writers'[r] = {}
      /\ \A s \in Stages : stage'[s] = "none" \/ s >= Last'
      /\ \A s \in Stages : stage'[s] \in {"none", "setup"} \/ Last' = 1
  BY MainLine DEF ShellBase
<1>2. PipeHolders'
  BY <1>1 DEF PipeHolders
<1>3. \A s \in Stages : s < Last' => stage'[s] = "none" /\ s \in Nat
  BY <1>1, ShellAssumption DEF Stages, ShellAssumption, Last, ShellBase, ShellIInv, ShapeInv
<1>4. FlowInv'
  BY <1>3 DEF FlowInv, Flow
<1>5. HangInv'
  <2> SUFFICES ASSUME NEW s \in 1 .. Last', Hanging(s)'
               PROVE  /\ stage'[s] # "zombie"
                      /\ \A r \in s + 1 .. Last' : stage'[r] \in {"none", "setup", "wait"}
    BY DEF HangInv
  <2>1. s < Last' /\ s \in Nat /\ Last' \in 0 .. MaxStages /\ MaxStages \in Nat
    BY ShellAssumption DEF Hanging, Endless, Last, ShellBase, ShellIInv, ShapeInv, ShellAssumption
  <2>2. \A r \in s .. Last' : r \in Stages
    BY <2>1 DEF Stages
  <2> QED
    BY <1>1, <2>1, <2>2
<1> QED
  BY <1>2, <1>4, <1>5 DEF PipelineInv

\* So does the end of a process: its write ends are closed.
LEMMA EndPipeline ==
  ASSUME ShellBase, PipelineInv, NEW s \in Stages, stage' = [stage EXCEPT ![s] = "zombie"],
         writers' = [r \in Stages |-> writers[r] \ {s}], UNCHANGED <<shell, cmd, opt, piped, todo>>,
         s <= Last, stage[s] # "wait", stage[s] # "none",
         \A t \in 1 .. Last : Hanging(t) => s < t
  PROVE  PipelineInv'
<1> USE DEF ShellBase, PipelineInv
<1>1. /\ DOMAIN stage = Stages /\ stage'[s] = "zombie" /\ Last' = Last
      /\ \A r \in Stages \ {s} : stage'[r] = stage[r]
      /\ \A r \in Stages : writers'[r] = writers[r] \ {s}
  BY DEF ShellIInv, ShapeInv, Last
<1>2. \A t \in Stages : t \in Nat /\ (t > 1 => t - 1 \in Stages)
  BY ShellAssumption DEF Stages, ShellAssumption
<1>3. PipeHolders'
  BY <1>1 DEF PipeHolders
<1>4. FlowInv'
  <2> SUFFICES ASSUME NEW t \in Stages, t < Last, t # s PROVE Flow(t)'
    BY <1>1 DEF FlowInv, Flow
  <2>1. Flow(t) /\ stage'[t] = stage[t]
    BY <1>1 DEF FlowInv
  <2>2. t > 1 => (t \in writers[t - 1] => t \in writers'[t - 1])
    BY <1>1, <1>2
  <2>3. ToPipe(t)' = ToPipe(t) /\ FromPipe(t)' = FromPipe(t)
    BY <1>1 DEF ToPipe, FromPipe
  <2> QED
    BY <2>1, <2>2, <2>3 DEF Flow
<1>5. HangInv'
  <2> SUFFICES ASSUME shell = "wait", NEW t \in 1 .. Last, Hanging(t)
               PROVE  /\ stage'[t] # "zombie"
                      /\ \A r \in t + 1 .. Last : stage'[r] \in {"none", "setup", "wait"}
    BY <1>1 DEF HangInv, Hanging, Endless
  <2>1. s < t /\ t \in Nat /\ s \in Nat /\ t \in Stages
    BY <1>2, HangProgram
  <2>2. \A r \in t + 1 .. Last : r \in Stages /\ r # s
    BY <2>1, ShellAssumption DEF Last, ShellIInv, ShapeInv, Stages, ShellAssumption
  <2> QED
    BY <1>1, <2>1, <2>2 DEF HangInv
<1> QED
  BY <1>3, <1>4, <1>5

\* So does a process that begins: with an empty command, as the first, or with a predecessor.
LEMMA SetupPipeline ==
  ASSUME ShellBase, PipelineInv, NEW s \in Stages, PipeProcess(s)
  PROVE  PipelineInv'
<1>0. /\ s \in Nat /\ s >= 1 /\ s <= Last /\ Last \in Nat
      /\ \A r \in Stages : (r < s => stage[r] = "none") /\ (s < r /\ r <= Last => stage[r] = "wait")
  BY Turn DEF PipeProcess
<1> USE DEF PipelineInv
<1>1. \A t \in Stages : t \in Nat /\ (t > 1 => t - 1 \in Stages)
  BY ShellAssumption DEF Stages, ShellAssumption
<1>2. /\ DOMAIN stage = Stages /\ DOMAIN opt = Stages /\ stage[s] = "setup"
      /\ UNCHANGED <<shell, cmd, todo>> /\ Last' = Last
      /\ piped \in [Stages -> 0 .. PipeCap + 1] /\ writers \in [Stages -> SUBSET Stages]
  BY DEF ShellBase, ShellTypeOK, PipeProcess, Last
<1>3. CASE cmd[s].prog = "empty"
  <2>1. /\ stage' = [stage EXCEPT ![s] = "zombie"] /\ opt' = opt
        /\ writers' = [r \in Stages |-> writers[r] \ {s}]
    BY <1>3 DEF PipeProcess
  <2>2. piped' = piped
    BY <1>2, <2>1 DEF PipeProcess, Traced
  <2>3. ASSUME NEW t \in 1 .. Last, Hanging(t) PROVE s < t
    <3>1. t \in Nat /\ cmd[t].prog # "empty"
      BY <2>3, HangProgram
    <3>2. \A r \in t + 1 .. Last : cmd[r].prog # "empty"
      BY <2>3 DEF Hanging
    <3> QED
      BY <1>0, <1>3, <3>1, <3>2
  <2> QED
    BY <1>0, <1>2, <2>1, <2>2, <2>3, EndPipeline
<1>4. CASE cmd[s].prog # "empty" /\ s = 1
  <2>1. /\ stage' = [stage EXCEPT ![s] = "exec"] /\ opt' = [opt EXCEPT ![s] = cmd[s].redir]
        /\ writers' = writers
    BY <1>4 DEF PipeProcess, Analysis
  <2>2. piped' = piped
    BY <1>2, <2>1 DEF PipeProcess, Traced
  <2>3. stage'[s] = "exec" /\ \A r \in Stages \ {s} : stage'[r] = stage[r] /\ opt'[r] = opt[r]
    BY <1>2, <2>1
  <2>4. FlowInv'
    <3> SUFFICES ASSUME NEW t \in Stages, t < Last PROVE Flow(t)'
      BY <1>2 DEF FlowInv
    <3>1. Flow(t)
      BY DEF FlowInv
    <3>2. CASE t = s
      BY <1>2, <1>4, <2>1, <2>2, <2>3, <3>1, <3>2 DEF Flow
    <3>3. CASE t # s
      BY <1>2, <2>1, <2>2, <2>3, <3>1, <3>3 DEF Flow, ToPipe, FromPipe
    <3> QED
      BY <3>2, <3>3
  <2>5. PipeHolders'
    BY <1>2, <2>1, <2>3 DEF PipeHolders
  <2>6. HangInv'
    <3> SUFFICES ASSUME shell = "wait", NEW t \in 1 .. Last, Hanging(t)
                 PROVE  /\ stage'[t] # "zombie"
                        /\ \A r \in t + 1 .. Last : stage'[r] \in {"none", "setup", "wait"}
      BY <1>2 DEF HangInv, Hanging, Endless
    <3>1. t \in Stages /\ t \in Nat /\ \A r \in t + 1 .. Last : r \in Stages /\ r # s
      BY <1>0, <1>4, HangProgram, ShellAssumption
         DEF ShellAssumption, Stages, Last, ShellBase, ShellIInv, ShapeInv
    <3> QED
      BY <2>3, <3>1 DEF HangInv
  <2> QED
    BY <2>4, <2>5, <2>6
<1>5. CASE cmd[s].prog # "empty" /\ s # 1
  <2>1. /\ stage' = [stage EXCEPT ![s] = "wait", ![s - 1] = "setup"]
        /\ opt' = [[opt EXCEPT ![s] = cmd[s].redir] EXCEPT ![s - 1] = Analysis(s)[s]]
        /\ writers' = [r \in Stages |->
                         IF r = s - 1 THEN {s - 1} \cup (IF s = Last THEN {} ELSE {s})
                         ELSE IF s \in writers[r] THEN writers[r] \cup {s - 1}
                         ELSE writers[r]]
    BY <1>5 DEF PipeProcess, Analysis
  <2>2. s - 1 \in Stages /\ s - 1 # s /\ s - 1 < Last
    BY <1>0, <1>1, <1>5
  <2>3. /\ stage'[s] = "wait" /\ stage'[s - 1] = "setup"
        /\ \A r \in Stages \ {s, s - 1} : stage'[r] = stage[r] /\ opt'[r] = opt[r]
    BY <1>2, <2>1, <2>2
  <2>4. piped' = [piped EXCEPT ![s - 1] = 1]
    BY <2>3 DEF PipeProcess, Traced
  <2>5. piped'[s - 1] = 1 /\ \A r \in Stages \ {s - 1} : piped'[r] = piped[r]
    BY <1>2, <2>2, <2>4
  <2>6. FlowInv'
    <3> SUFFICES ASSUME NEW t \in Stages, t < Last PROVE Flow(t)'
      BY <1>2 DEF FlowInv
    <3>1. Flow(t)
      BY DEF FlowInv
    <3>2. CASE t = s - 1
      BY <2>3, <2>5, <3>2 DEF Flow
    <3>3. CASE t = s
      <4>1. s \in writers'[s - 1]
        <5>1. s # Last
          BY <1>0, <3>3
        <5> QED
          BY <2>1, <2>2, <5>1
      <4>2. piped'[s] = 1
        BY <1>2, <2>2, <2>5, <3>1, <3>3 DEF Flow
      <4> QED
        BY <2>3, <3>3, <4>1, <4>2 DEF Flow
    <3>4. CASE t # s /\ t # s - 1
      <4>1. stage'[t] = stage[t] /\ opt'[t] = opt[t] /\ piped'[t] = piped[t]
        BY <2>3, <2>5, <3>4
      <4>2. t > 1 => (t \in writers[t - 1] => t \in writers'[t - 1])
        BY <1>0, <1>1, <2>1, <3>4
      <4>3. ToPipe(t)' = ToPipe(t) /\ FromPipe(t)' = FromPipe(t)
        BY <1>2, <4>1 DEF ToPipe, FromPipe
      <4> QED
        BY <1>2, <3>1, <4>1, <4>2, <4>3 DEF Flow
    <3> QED
      BY <3>2, <3>3, <3>4
  <2>7. PipeHolders'
    <3> SUFFICES ASSUME NEW r \in Stages, NEW w \in writers'[r]
                 PROVE  stage'[w] \notin {"none", "zombie"} /\ w <= r + 1 /\ (w = r + 1 => w < Last)
      BY <1>2 DEF PipeHolders
    <3>1. r \in Nat
      BY <1>1
    <3>2. CASE r = s - 1
      BY <1>0, <2>1, <2>2, <2>3, <3>2
    <3>3. CASE r # s - 1 /\ w \in writers[r]
      <4>1. stage[w] \notin {"none", "zombie"} /\ w <= r + 1 /\ (w = r + 1 => w < Last) /\ w \in Stages
        BY <1>2, <3>3 DEF PipeHolders
      <4> QED
        BY <2>3, <4>1
    <3>4. CASE r # s - 1 /\ w \notin writers[r]
      <4>1. w = s - 1 /\ s \in writers[r]
        BY <2>1, <3>4
      <4>2. s <= r + 1
        BY <4>1 DEF PipeHolders
      <4> QED
        BY <1>0, <2>3, <3>1, <4>1, <4>2
    <3> QED
      BY <3>2, <3>3, <3>4
  <2>8. HangInv'
    <3> SUFFICES ASSUME shell = "wait", NEW t \in 1 .. Last, Hanging(t)
                 PROVE  /\ stage'[t] # "zombie"
                        /\ \A r \in t + 1 .. Last : stage'[r] \in {"none", "setup", "wait"}
      BY <1>2 DEF HangInv, Hanging, Endless
    <3>1. t \in Stages /\ t \in Nat /\ \A r \in t + 1 .. Last : r \in Stages
      BY <1>0, HangProgram, ShellAssumption
         DEF ShellAssumption, Stages, Last, ShellBase, ShellIInv, ShapeInv
    <3> QED
      BY <2>3, <3>1 DEF HangInv
  <2> QED
    BY <2>6, <2>7, <2>8
<1> QED
  BY <1>3, <1>4, <1>5

\* So do waitpid and the start of a program.
LEMMA ExecPipeline ==
  ASSUME ShellBase, PipelineInv, NEW s \in Stages, Reap(s) \/ ChildProcess(s)
  PROVE  PipelineInv'
<1> USE DEF PipelineInv
<1>1. \A t \in Stages : t \in Nat /\ (t > 1 => t - 1 \in Stages)
  BY ShellAssumption DEF Stages, ShellAssumption
<1>2. /\ DOMAIN stage = Stages /\ UNCHANGED <<shell, cmd, opt, piped>> /\ Last' = Last
      /\ Last \in 0 .. MaxStages /\ MaxStages \in Nat
  BY ShellAssumption
     DEF ShellBase, ShellIInv, ShapeInv, Reap, ChildProcess, End, Last, ShellAssumption
<1>3. CASE Reap(s)
  <2>1. /\ stage[s] = "wait" /\ stage[s - 1] = "zombie" /\ UNCHANGED <<writers, todo>>
        /\ stage' = [stage EXCEPT ![s] = "exec", ![s - 1] = "none"]
    BY <1>3 DEF Reap
  <2>2. PICK a \in Stages : Active(a) /\ a < s /\ s <= Len(cmd)
    BY <2>1, ActiveIs DEF ShellBase
  <2>3. s \in Nat /\ s > 1 /\ s - 1 \in Stages /\ s <= Last
    BY <1>1, <2>2 DEF Last, Stages
  <2>4. /\ stage'[s] = "exec" /\ stage'[s - 1] = "none"
        /\ \A r \in Stages \ {s, s - 1} : stage'[r] = stage[r]
    BY <1>2, <2>1, <2>3
  <2>5. FlowInv'
    <3> SUFFICES ASSUME NEW t \in Stages, t < Last PROVE Flow(t)'
      BY <1>2 DEF FlowInv
    <3>1. Flow(t)
      BY DEF FlowInv
    <3>2. ToPipe(t)' = ToPipe(t) /\ FromPipe(t)' = FromPipe(t)
      BY <1>2 DEF ToPipe, FromPipe
    <3>3. CASE t = s
      BY <1>2, <2>1, <2>4, <3>1, <3>3 DEF Flow
    <3>4. CASE t = s - 1
      BY <2>4, <3>4 DEF Flow
    <3>5. CASE t # s /\ t # s - 1
      BY <1>2, <2>1, <2>4, <3>1, <3>2, <3>5 DEF Flow
    <3> QED
      BY <3>3, <3>4, <3>5
  <2>6. PipeHolders'
    <3> SUFFICES ASSUME NEW r \in Stages, NEW w \in writers[r]
                 PROVE  stage'[w] \notin {"none", "zombie"} /\ w <= r + 1 /\ (w = r + 1 => w < Last)
      BY <1>2, <2>1 DEF PipeHolders
    <3>1. /\ stage[w] \notin {"none", "zombie"} /\ w <= r + 1 /\ (w = r + 1 => w < Last)
          /\ w \in Stages
      BY DEF PipeHolders, ShellBase, ShellTypeOK
    <3> QED
      BY <2>1, <2>4, <3>1
  <2>7. HangInv'
    <3> SUFFICES ASSUME shell = "wait", NEW t \in 1 .. Last, Hanging(t)
                 PROVE  /\ stage'[t] # "zombie"
                        /\ \A r \in t + 1 .. Last : stage'[r] \in {"none", "setup", "wait"}
      BY <1>2 DEF HangInv, Hanging, Endless
    <3>1. t \in Stages /\ t \in Nat /\ \A r \in t + 1 .. Last : r \in Stages
      BY <1>2, HangProgram DEF Stages
    <3>2. stage[t] # "zombie" /\ \A r \in t + 1 .. Last : stage[r] \in {"none", "setup", "wait"}
      BY DEF HangInv
    <3>3. s <= t
      <4>1. s - 1 # t /\ ~ (s - 1 \in t + 1 .. Last)
        BY <2>1, <3>2
      <4> QED
        BY <1>2, <2>3, <3>1, <4>1
    <3>4. \A r \in t + 1 .. Last : r # s /\ r # s - 1
      BY <2>3, <3>1, <3>3
    <3>5. stage'[t] # "zombie"
      BY <2>4, <3>1, <3>2
    <3>6. \A r \in t + 1 .. Last : stage'[r] = stage[r]
      BY <2>4, <3>1, <3>4
    <3> QED
      BY <3>2, <3>5, <3>6
  <2> QED
    BY <2>5, <2>6, <2>7
<1>4. CASE ChildProcess(s)
  <2>1. stage[s] = "exec"
    BY <1>4 DEF ChildProcess
  <2>2. s \in Nat /\ s >= 1 /\ s <= Last
    BY <2>1, Turn
  <2>3. opt[s] = cmd[s].redir
    BY <2>1 DEF ShellBase, ShellIInv, OptInv
  <2>4. ASSUME NEW t \in 1 .. Last, Hanging(t) PROVE s <= t /\ t \in Nat /\ shell = "wait"
    <3>1. shell = "wait"
      BY <2>1, ActiveIs DEF ShellBase
    <3>2. ~ (s \in t + 1 .. Last)
      BY <2>1, <2>4, <3>1 DEF HangInv
    <3> QED
      BY <1>2, <2>2, <3>1, <3>2
  <2>5. CASE stage' = [stage EXCEPT ![s] = "zombie"] /\ UNCHANGED todo
             /\ writers' = [r \in Stages |-> writers[r] \ {s}]
             /\ (opt[s] # "none" \/ cmd[s].prog \in {"missing", "cd", "empty"})
    <3>1. ASSUME NEW t \in 1 .. Last, Hanging(t) PROVE s < t
      <4>1. s # t
        BY <2>3, <2>5, <3>1, HangProgram
      <4> QED
        BY <2>2, <2>4, <3>1, <4>1
    <3> QED
      BY <1>2, <2>1, <2>2, <2>5, <3>1, EndPipeline
  <2>6. CASE /\ cmd[s].prog \in {"source", "flood", "filter"}
             /\ stage' = [stage EXCEPT ![s] = "run"]
             /\ todo' = [todo EXCEPT ![s] = Output(cmd[s].prog)]
             /\ UNCHANGED writers
    <3>1. todo'[s] = Output(cmd[s].prog) /\ \A r \in Stages \ {s} : todo'[r] = todo[r]
      BY <2>6 DEF ShellBase, ShellTypeOK
    <3>2. stage'[s] = "run" /\ \A r \in Stages \ {s} : stage'[r] = stage[r]
      BY <1>2, <2>6
    <3>3. FlowInv'
      <4> SUFFICES ASSUME NEW t \in Stages, t < Last PROVE Flow(t)'
        BY <1>2 DEF FlowInv
      <4>1. Flow(t)
        BY DEF FlowInv
      <4>2. ToPipe(t)' = ToPipe(t) /\ FromPipe(t)' = FromPipe(t)
        BY <1>2 DEF ToPipe, FromPipe
      <4>3. CASE t = s
        <5>1. piped'[s] = 1 /\ (s > 1 => s \in writers'[s - 1])
          BY <1>2, <2>1, <2>6, <4>1, <4>3 DEF Flow
        <5>2. Output(cmd[s].prog) \in Nat /\ (cmd[s].prog = "filter" => Output(cmd[s].prog) = 0)
          BY ShellAssumption DEF Output, ShellAssumption
        <5>3. piped'[s] + todo'[s] = Output(cmd[s].prog) + 1
          BY <3>1, <5>1, <5>2
        <5> QED
          BY <1>2, <2>6, <3>1, <3>2, <4>3, <5>1, <5>2, <5>3 DEF Flow
      <4>4. CASE t # s
        BY <1>2, <2>6, <3>1, <3>2, <4>1, <4>2, <4>4 DEF Flow
      <4> QED
        BY <4>3, <4>4
    <3>4. PipeHolders'
      BY <1>2, <2>6, <3>2 DEF PipeHolders
    <3>5. HangInv'
      <4> SUFFICES ASSUME shell = "wait", NEW t \in 1 .. Last, Hanging(t)
                   PROVE  /\ stage'[t] # "zombie"
                          /\ \A r \in t + 1 .. Last : stage'[r] \in {"none", "setup", "wait"}
        BY <1>2 DEF HangInv, Hanging, Endless
      <4>1. t \in Stages /\ t \in Nat /\ \A r \in t + 1 .. Last : r \in Stages /\ r # s
        BY <1>2, <2>2, <2>4, HangProgram DEF Stages
      <4> QED
        BY <3>2, <4>1 DEF HangInv
    <3> QED
      BY <3>3, <3>4, <3>5
  <2> QED
    BY <1>4, <2>5, <2>6 DEF ChildProcess, End
<1> QED
  BY <1>3, <1>4

\* So do reads and writes ...
LEMMA CopyPipeline ==
  ASSUME ShellBase, PipelineInv, NEW s \in Stages, ProgramWrites(s) \/ ProgramReads(s)
  PROVE  PipelineInv'
<1> USE DEF PipelineInv
<1>1. \A t \in Stages : t \in Nat /\ (t > 1 => t - 1 \in Stages)
  BY ShellAssumption DEF Stages, ShellAssumption
<1>2. /\ UNCHANGED <<shell, cmd, opt, stage, writers>> /\ Last' = Last /\ stage[s] = "run"
      /\ piped \in [Stages -> 0 .. PipeCap + 1] /\ todo \in [Stages -> Nat]
  BY DEF ProgramWrites, ProgramReads, ShellBase, ShellTypeOK, Last
<1>3. /\ s \in Nat /\ s >= 1 /\ s <= Last /\ Last \in Nat
      /\ \A r \in Stages : (r < s => stage[r] = "none") /\ (s < r /\ r <= Last => stage[r] = "wait")
  BY <1>2, Turn
<1>4. PipeHolders' /\ HangInv'
  BY <1>2 DEF PipeHolders, HangInv, Hanging, Endless
<1>5. ASSUME NEW t \in Stages, t < Last, t # s, Flow(t)
      PROVE  stage[t] \in {"none", "wait"} /\ (t > 1 => t \in writers'[t - 1] \/ stage[t] = "none")
             /\ (piped'[t] = piped[t] => Flow(t)')
  <2>1. stage[t] \in {"none", "wait"}
    BY <1>1, <1>3, <1>5
  <2>2. t > 1 => t \in writers'[t - 1] \/ stage[t] = "none"
    BY <1>2, <1>5, <2>1 DEF Flow
  <2> QED
    BY <1>2, <1>5, <2>1, <2>2 DEF Flow
<1>6. CASE ProgramWrites(s)
  <2>1. /\ todo[s] > 0 /\ todo'[s] = todo[s] - 1
        /\ ToPipe(s) => piped'[s] = piped[s] + 1
        /\ \A t \in Stages \ {s} : piped'[t] = piped[t]
    BY <1>2, <1>6 DEF ProgramWrites
  <2>2. ASSUME s < Last PROVE Flow(s)'
    <3>1. Flow(s)
      BY <2>2 DEF FlowInv
    <3>2. ToPipe(s)' = ToPipe(s) /\ FromPipe(s)' = FromPipe(s)
      BY <1>2 DEF ToPipe, FromPipe
    <3>3. ToPipe(s) => piped'[s] + todo'[s] = piped[s] + todo[s]
      BY <1>2, <2>1
    <3>4. todo[s] # 0
      BY <2>1
    <3> QED
      BY <1>2, <3>1, <3>2, <3>3, <3>4 DEF Flow
  <2>3. FlowInv'
    BY <1>2, <1>5, <2>1, <2>2 DEF FlowInv
  <2> QED
    BY <1>4, <2>3
<1>7. CASE ProgramReads(s)
  <2>1. /\ cmd[s].prog = "filter" /\ FromPipe(s) /\ s - 1 \in Stages
        /\ \A t \in Stages \ {s - 1} : piped'[t] = piped[t]
    BY <1>1, <1>2, <1>7 DEF ProgramReads, FromPipe
  <2>2. stage[s - 1] = "none"
    BY <1>3, <2>1
  <2>3. Flow(s - 1)'
    BY <1>2, <2>2 DEF Flow
  <2>4. ASSUME s < Last PROVE Flow(s)'
    <3>1. Flow(s)
      BY <2>4 DEF FlowInv
    <3>2. FromPipe(s)'
      BY <1>2, <2>1 DEF FromPipe
    <3> QED
      BY <1>2, <2>1, <3>1, <3>2 DEF Flow
  <2>5. FlowInv'
    BY <1>2, <1>5, <2>1, <2>3, <2>4 DEF FlowInv
  <2> QED
    BY <1>4, <2>5
<1> QED
  BY <1>6, <1>7

\* ... and the end of a program, which an endless one does not reach.
LEMMA EndsPipeline ==
  ASSUME ShellBase, PipelineInv, NEW s \in Stages, ProgramEnds(s)
  PROVE  PipelineInv'
<1> USE DEF PipelineInv
<1>1. /\ stage[s] = "run" /\ todo[s] = 0
      /\ cmd[s].prog = "filter" /\ FromPipe(s) => writers[s - 1] = {}
      /\ stage' = [stage EXCEPT ![s] = "zombie"]
      /\ writers' = [r \in Stages |-> writers[r] \ {s}] /\ UNCHANGED <<shell, cmd, opt, piped, todo>>
  BY DEF ProgramEnds, End
<1>2. s \in Nat /\ s >= 1 /\ s <= Last /\ Last \in Nat
  BY <1>1, Turn
<1>3. ASSUME NEW t \in 1 .. Last, Hanging(t) PROVE s < t
  <2>1. shell = "wait"
    BY <1>1, ActiveIs DEF ShellBase
  <2>2. ~ (s \in t + 1 .. Last) /\ t \in Nat
    BY <1>1, <1>3, <2>1 DEF HangInv
  <2>3. s # t
    <3> SUFFICES ASSUME s = t PROVE FALSE
      OBVIOUS
    <3>1. /\ s < Last /\ cmd[s].redir = "none"
          /\ cmd[s].prog = "flood" \/ (cmd[s].prog = "filter" /\ s > 1)
      BY <1>3, HangProgram
    <3>2. opt[s] = "none" /\ ToPipe(s) /\ (s > 1 => FromPipe(s))
      BY <1>1, <3>1 DEF ShellBase, ShellIInv, OptInv, ToPipe, FromPipe
    <3>3. Flow(s)
      BY <3>1 DEF FlowInv
    <3>4. CASE cmd[s].prog = "flood"
      <4>1. piped[s] + todo[s] = (PipeCap + 1) + 1
        BY <1>1, <3>2, <3>3, <3>4 DEF Flow, Output
      <4>2. piped[s] \in 0 .. PipeCap + 1 /\ PipeCap \in Nat
        BY ShellAssumption DEF ShellBase, ShellTypeOK, ShellAssumption
      <4> QED
        BY <1>1, <4>1, <4>2
    <3>5. CASE cmd[s].prog = "filter" /\ s > 1
      BY <1>1, <3>2, <3>3, <3>5 DEF Flow
    <3> QED
      BY <3>1, <3>4, <3>5
  <2> QED
    BY <1>2, <2>2, <2>3
<1> QED
  BY <1>1, <1>2, <1>3, EndPipeline

\* The pipes are always so.
LEMMA PipelineAlways == ShellSpec => [](ShellBase /\ PipelineInv)
<1>1. ShellInit => PipelineInv
  BY DEF ShellInit, PipelineInv, FlowInv, PipeHolders, HangInv, Flow
<1>2. ShellBase /\ ShellBase' /\ PipelineInv /\ [ShellNext]_shellVars => PipelineInv'
  <2>1. PipelineInv /\ UNCHANGED shellVars => PipelineInv'
    BY DEF shellVars, PipelineInv, FlowInv, PipeHolders, HangInv, Flow, ToPipe, FromPipe, Hanging,
           Endless, Last
  <2> QED
    BY <2>1, MainPipeline, SetupPipeline, ExecPipeline, CopyPipeline, EndsPipeline
       DEF ShellNext, StageStep
<1>3. ShellSpec => []ShellBase
  <2>1. ShellBase <=> ShellIInv /\ ShellTypeOK /\ PipesInv
    BY DEF ShellBase
  <2> QED
    BY <2>1, ShellAlways, ShellTypesAlways, PTL
<1> QED
  BY <1>1, <1>2, <1>3, PTL DEF ShellSpec

\* Whatever the pipes hold and however long the line is: a pipeline with an endless command
\* that gets to run never gives the prompt back (pipe_t/MyShell/myshell.c:262-281).
THEOREM EndlessHangs == ShellSpec => EndlessNeverReturns
<1>1. ASSUME ShellBase, PipelineInv, ShellNext, shell = "wait", shell' = "prompt",
             NEW s \in DOMAIN cmd, Hanging(s)
      PROVE  FALSE
  <2>1. stage[Last] = "zombie"
    <3>1. ~ \E r \in Stages : StageStep(r)
      BY <1>1 DEF StageStep, PipeProcess, Reap, ChildProcess, End, ProgramWrites, ProgramReads, ProgramEnds
    <3> QED
      BY <1>1, <3>1 DEF ShellNext, ShellRun, ReadLine, ShellStep, PlainCommand, RedirCommand,
                        PipeCommand, ShellWait
  <2>2. s \in 1 .. Last /\ Last \in Nat
    BY DEF Last, ShellBase, ShellTypeOK
  <2>3. s < Last /\ s \in Nat
    BY <1>1, <2>2, HangProgram
  <2>4. \A r \in s + 1 .. Last : stage[r] \in {"none", "setup", "wait"}
    BY <1>1, <2>2 DEF PipelineInv, HangInv
  <2> QED
    BY <2>1, <2>2, <2>3, <2>4
<1>2. ShellBase /\ PipelineInv /\ [ShellNext]_shellVars
        => [(\E s \in DOMAIN cmd : Hanging(s)) => ~ (shell = "wait" /\ shell' = "prompt")]_shellVars
  BY <1>1
<1>3. (\E s \in DOMAIN cmd : Hanging(s)) <=>
        \E s \in DOMAIN cmd : /\ Endless(cmd, s) /\ cmd[s].redir = "none"
                              /\ \A r \in s + 1 .. Last : cmd[r].prog # "empty"
  BY DEF Hanging
<1> QED
  BY <1>2, <1>3, PipelineAlways, PTL DEF ShellSpec, EndlessNeverReturns

\* For lines of any length and pipes of any size: without an endless command, and until the
\* last process has ended, some process of the line can go on (:262-281): no two processes
\* wait for each other, and none for a pipe that nobody fills, empties or closes.
THEOREM LinesGoOn == ShellSpec => []LineMoves
<1>1. ShellBase /\ PipelineInv => LineMoves
  <2> SUFFICES ASSUME ShellBase, PipelineInv, shell = "wait", \A s \in DOMAIN cmd : ~ Endless(cmd, s),
                      stage[Last] # "zombie", \A s \in Stages : ~ StageCan(s)
               PROVE  FALSE
    BY DEF LineMoves
  <2>1. PICK a \in Stages : Active(a)
    BY DEF ShellBase, ShellIInv, ChainInv
  <2>2. /\ a \in Nat /\ a >= 1 /\ a <= Last /\ Last \in Nat /\ a \in DOMAIN cmd
        /\ stage[a] \in {"setup", "exec", "run", "zombie"}
        /\ \A r \in Stages : r < a => stage[r] = "none"
        /\ Last <= MaxStages /\ MaxStages \in Nat
    BY <2>1, ShellAssumption
       DEF Active, Last, Stages, ShellBase, ShellIInv, ShapeInv, ShellTypeOK, ShellAssumption
  <2>3. stage[a] # "zombie"
    <3> SUFFICES ASSUME stage[a] = "zombie" PROVE FALSE
      OBVIOUS
    <3>1. a + 1 \in Stages /\ a < a + 1 /\ a + 1 <= Len(cmd) /\ (a + 1) - 1 = a
      BY <2>2 DEF Stages, Last
    <3>2. stage[a + 1] = "wait"
      BY <2>1, <3>1 DEF Active
    <3> QED
      BY <3>1, <3>2 DEF StageCan
  <2>4. stage[a] = "run"
    BY <2>2, <2>3 DEF StageCan
  <2>5. ~ Endless(cmd, a) /\ opt[a] = cmd[a].redir
    BY <2>2, <2>4 DEF ShellBase, ShellIInv, OptInv
  <2>6. todo[a] \in Nat /\ piped[a] \in 0 .. PipeCap + 1 /\ PipeCap \in Nat
    BY ShellAssumption DEF ShellBase, ShellTypeOK, ShellAssumption
  <2>7. CASE todo[a] > 0
    <3>1. ToPipe(a) /\ piped[a] = PipeCap + 1
      BY <2>4, <2>6, <2>7 DEF StageCan
    <3>2. a < Last /\ opt[a] \notin {"out", "append"} /\ Flow(a)
      BY <3>1 DEF ToPipe, PipelineInv, FlowInv
    <3>3. Output(cmd[a].prog) <= PipeCap
      <4>1. Output(cmd[a].prog) \in Nat
        BY <2>6 DEF Output
      <4> QED
        BY <2>5, <2>6, <3>2, <4>1 DEF Endless, Last
    <3>4. CASE cmd[a].prog = "filter"
      <4>1. FromPipe(a)
        BY <2>4, <2>7, <3>1, <3>2, <3>4 DEF Flow
      <4> QED
        BY <2>5, <3>2, <3>4, <4>1 DEF FromPipe, Endless, Last
    <3>5. CASE cmd[a].prog # "filter"
      <4>1. piped[a] + todo[a] = Output(cmd[a].prog) + 1 /\ Output(cmd[a].prog) \in Nat
        BY <2>4, <2>6, <3>1, <3>2, <3>5 DEF Flow, Output
      <4> QED
        BY <2>6, <2>7, <3>1, <3>3, <4>1
    <3> QED
      BY <3>4, <3>5
  <2>8. CASE todo[a] = 0
    <3>1. cmd[a].prog = "filter" /\ FromPipe(a) /\ writers[a - 1] # {}
      BY <2>4, <2>8 DEF StageCan
    <3>2. ~ (a < Last) /\ a > 1
      BY <2>5, <3>1 DEF FromPipe, Endless, Last
    <3>3. a - 1 \in Stages
      BY <2>2, <3>2 DEF Stages
    <3>4. PICK w \in writers[a - 1] : TRUE
      BY <3>1
    <3>5. stage[w] \notin {"none", "zombie"} /\ w <= (a - 1) + 1 /\ (w = (a - 1) + 1 => w < Last)
      BY <3>3 DEF PipelineInv, PipeHolders
    <3>6. w \in Stages /\ w \in Nat
      BY <3>3 DEF ShellBase, ShellTypeOK, Stages
    <3> QED
      BY <2>2, <3>2, <3>5, <3>6
  <2> QED
    BY <2>6, <2>7, <2>8
<1> QED
  BY <1>1, PipelineAlways, PTL

-------------------------------------------------------------------------------
(* Pipes, named pipes and shared memory. *)

\* In a pipe or a FIFO: what is still to be written.
WriterInv == /\ via = "pipe" /\ writer \in {"close", "write"} => cnt < M
             /\ via \in {"pipe", "fifo"} => cnt <= M
             /\ via = "pipe" /\ reader = "off" => writer = "off"
             /\ writer \in {"off", "open"} => cnt = 0 /\ fifo = <<>> /\ notices = 0

\* With shared memory, notice number p says 0 when it is the one after the last message.
NoticeInv == via = "shm" =>
  /\ \A i \in 1 .. Len(fifo) : fifo[i] = IF notices + i > M THEN 0 ELSE 1
  /\ writer \in {"off", "open", "write", "filling"} => cnt = notices + Len(fifo) /\ cnt <= M
  /\ writer = "notify" => cnt = notices + Len(fifo) + 1
  /\ notices + Len(fifo) <= cnt

\* What is in the segment, and what the server has printed of it.
CellInv == via = "shm" =>
  /\ cell = Torn \/ cell = cnt
  /\ Len(heard) = IF reader = "print" THEN notices - 1 ELSE notices

\* The inductive invariant.
ChanIInv == /\ ChanTypeOK /\ WriterInv /\ NoticeInv /\ CellInv
        /\ NothingLost /\ NeverAnOlderMessage /\ UsesItsOwnSegment

-------------------------------------------------------------------------------
(* Sequences. *)

\* The numbers 1 to n in their order.
LEMMA InOrder ==
  ASSUME NEW S, NEW g \in Seq(S), NEW n \in Nat
  PROVE  g = [k \in 1 .. n |-> k] <=> Len(g) = n /\ \A k \in 1 .. n : g[k] = k
<1>1. Len(g) \in Nat /\ g \in [1 .. Len(g) -> S]
  BY LenProperties
<1>2. ASSUME g = [k \in 1 .. n |-> k] PROVE Len(g) = n /\ \A k \in 1 .. n : g[k] = k
  <2>1. 1 .. Len(g) = 1 .. n
    BY <1>1, <1>2
  <2> QED
    BY <1>1, <1>2, <2>1
<1>3. ASSUME Len(g) = n, \A k \in 1 .. n : g[k] = k PROVE g = [k \in 1 .. n |-> k]
  BY <1>1, <1>3
<1> QED
  BY <1>2, <1>3

\* What has been heard and what is still in the pipe; a name that is kept folded.
Stream(a, b) == a \o b

\* Moving the first n elements of b to the end of a.
LEMMA Moved ==
  ASSUME NEW S, NEW Joined, NEW a \in Seq(S), NEW b \in Seq(Joined), Joined \subseteq S, NEW n \in 1 .. Len(b)
  PROVE  /\ SubSeq(b, n + 1, Len(b)) \in Seq(Joined)
         /\ Len(SubSeq(b, n + 1, Len(b))) <= Len(b)
         /\ a \o SubSeq(b, 1, n) \in Seq(S)
         /\ Stream(a \o SubSeq(b, 1, n), SubSeq(b, n + 1, Len(b))) = Stream(a, b)
<1> DEFINE x == SubSeq(b, 1, n)
           y == SubSeq(b, n + 1, Len(b))
<1>1. Len(b) \in Nat /\ n \in Int /\ 1 <= n /\ n <= Len(b) /\ \A i \in 1 .. Len(b) : b[i] \in Joined
  BY LenProperties, ElementOfSeq
<1>2. x \in Seq(Joined)
  BY <1>1, SubSeqProperties
<1>3. y \in Seq(Joined) /\ Len(y) <= Len(b)
  <2>1. \A i \in n + 1 .. Len(b) : b[i] \in Joined
    BY <1>1
  <2>2. n + 1 \in Int /\ Len(b) \in Int
    BY <1>1
  <2>3. y \in Seq(Joined) /\ Len(y) = IF n + 1 <= Len(b) THEN Len(b) - (n + 1) + 1 ELSE 0
    BY <2>1, <2>2, SubSeqProperties
  <2> QED
    BY <1>1, <2>3
<1>4. x \o y = b
  <2>1. 1 \in 1 .. Len(b) + 1 /\ n \in 1 - 1 .. Len(b) /\ Len(b) \in n .. Len(b)
    BY <1>1
  <2>2. x \o y = SubSeq(b, 1, Len(b))
    BY <2>1, ConcatAdjacentSubSeq
  <2> QED
    BY <2>2, SubSeqFull
<1>5. x \in Seq(S) /\ y \in Seq(S)
  BY <1>2, <1>3, SeqMonotonic
<1> HIDE DEF x, y
<1>6. a \o x \in Seq(S)
  BY <1>5, ConcatProperties
<1>7. (a \o x) \o y = a \o (x \o y)
  BY <1>5, ConcatAssociative, SMTT(30)
<1> QED
  BY <1>3, <1>4, <1>6, <1>7 DEF x, y, Stream

\* Appending to the second of two sequences.
LEMMA AppendToBoth ==
  ASSUME NEW S, NEW a \in Seq(S), NEW b \in Seq(S), NEW x \in S
  PROVE  a \o Append(b, x) = Append(a \o b, x)
<1>1. <<x>> \in Seq(S) /\ a \o b \in Seq(S)
  BY ConcatProperties
<1>2. a \o Append(b, x) = a \o (b \o <<x>>)
  BY AppendIsConcat
<1>3. Append(a \o b, x) = (a \o b) \o <<x>>
  BY <1>1, AppendIsConcat
<1> QED
  BY <1>1, <1>2, <1>3, ConcatAssociative

-------------------------------------------------------------------------------
\* The inductive invariant holds before a program is started.
LEMMA ChanInitIInv == ChanInit => ChanIInv
<1> SUFFICES ASSUME ChanInit PROVE ChanIInv
  OBVIOUS
<1> USE ChannelsAssumption DEF ChannelsAssumption, ChanInit
<1>1. heard \o fifo = <<>> /\ <<>> \in Seq(Nat) /\ Len(<<>>) = 0 /\ cnt = 0
  OBVIOUS
<1>2. NothingLost
  BY <1>1, InOrder DEF NothingLost
<1>3. NoticeInv /\ CellInv /\ NeverAnOlderMessage /\ UsesItsOwnSegment /\ WriterInv
  BY DEF WriterInv, NoticeInv, CellInv, NeverAnOlderMessage, UsesItsOwnSegment
<1>4. ChanTypeOK
  <2>1. fifo \in Seq(0 .. M + 1) /\ Len(fifo) = 0 /\ heard \in Seq(0 .. M + 1 \cup {Torn})
    BY EmptySeq
  <2>2. fifoThere \in BOOLEAN
    OBVIOUS
  <2>3. FifoCap \in Nat /\ 0 \in 0 .. M + 1 /\ 0 \in 0 .. M
    OBVIOUS
  <2> QED
    BY <2>1, <2>2, <2>3 DEF ChanTypeOK
<1> QED
  BY <1>2, <1>3, <1>4 DEF ChanIInv

\* A step of the two programs that share a byte stream and write and read nothing.
PipeStep == \/ PipeFork \/ PipeParentCloses \/ PipeChildCloses \/ PipeExit \/ PipeWait
            \/ FifoCreate \/ FifoOpen \/ FifoKill \/ FifoRemove

\* It preserves the invariant.
LEMMA PipeIInv == ASSUME ChanIInv, PipeStep PROVE ChanIInv'
<1> USE ChannelsAssumption DEF ChannelsAssumption, ChanIInv, Gone
<1>1. via \in {"pipe", "fifo"} /\ UNCHANGED <<via, fifo, segment, cell, cnt, notices, heard>>
  BY DEF PipeStep, PipeFork, PipeParentCloses, PipeChildCloses, PipeExit, PipeWait,
         FifoCreate, FifoOpen, FifoKill, FifoRemove
<1>2. NothingLost'
  BY <1>1 DEF NothingLost
<1>3. NeverAnOlderMessage' /\ UsesItsOwnSegment' /\ NoticeInv' /\ CellInv'
  BY <1>1 DEF NeverAnOlderMessage, UsesItsOwnSegment, NoticeInv, CellInv
<1>4. WriterInv'
  <2> USE <1>1 DEF ChanTypeOK, WriterInv
  <2>1. CASE PipeFork \/ PipeParentCloses \/ PipeChildCloses \/ PipeExit \/ PipeWait
    BY <2>1 DEF PipeFork, PipeParentCloses, PipeChildCloses, PipeExit, PipeWait
  <2>2. CASE FifoCreate \/ FifoOpen \/ FifoKill \/ FifoRemove
    BY <2>2 DEF FifoCreate, FifoOpen, FifoKill, FifoRemove
  <2> QED
    BY <2>1, <2>2 DEF PipeStep
<1>5. ChanTypeOK'
  <2> USE <1>1 DEF ChanTypeOK
  <2>1. CASE PipeFork
    BY <2>1 DEF PipeFork
  <2>2. CASE PipeParentCloses
    BY <2>2 DEF PipeParentCloses
  <2>3. CASE PipeChildCloses
    BY <2>3 DEF PipeChildCloses
  <2>4. CASE PipeExit
    BY <2>4 DEF PipeExit
  <2>5. CASE PipeWait
    BY <2>5 DEF PipeWait
  <2>6. CASE FifoCreate \/ FifoOpen \/ FifoKill \/ FifoRemove
    BY <2>6 DEF FifoCreate, FifoOpen, FifoKill, FifoRemove
  <2> QED
    BY <2>1, <2>2, <2>3, <2>4, <2>5, <2>6 DEF PipeStep
<1> QED
  BY <1>2, <1>3, <1>4, <1>5

\* A step that writes the next message to a byte stream preserves it.
LEMMA WriteIInv == ASSUME ChanIInv, PipeWrite \/ FifoWrite PROVE ChanIInv'
<1> USE ChannelsAssumption DEF ChannelsAssumption, ChanIInv, Gone
<1> DEFINE Joined == 0 .. M + 1
           S == 0 .. M + 1 \cup {Torn}
<1>1. /\ via \in {"pipe", "fifo"} /\ cnt \in Nat /\ cnt < M /\ writer = "write"
      /\ UNCHANGED <<via, reader, fifoThere, segment, cell, notices, heard>>
      /\ fifo' = Append(fifo, cnt + 1) /\ cnt' = cnt + 1 /\ Len(fifo) < FifoCap
  BY DEF PipeWrite, FifoWrite, WriterInv, ChanTypeOK
<1>2. fifo \in Seq(Joined) /\ heard \in Seq(S) /\ cnt + 1 \in Joined /\ Joined \subseteq S /\ Len(fifo) \in Nat
  BY <1>1 DEF ChanTypeOK
<1>3. fifo' \in Seq(Joined) /\ Len(fifo') = Len(fifo) + 1
  <2> HIDE DEF Joined
  <2> QED
    BY <1>1, <1>2, AppendProperties
<1>4. NothingLost'
  <2> DEFINE g == heard \o fifo
  <2>1. g \in Seq(S) /\ cnt + 1 \in S /\ heard' \o fifo' = Append(g, cnt + 1)
    <3> HIDE DEF S, Joined
    <3>1. fifo \in Seq(S)
      BY <1>2, SeqMonotonic
    <3> QED
      BY <1>1, <1>2, <3>1, AppendToBoth, ConcatProperties
  <2>2. Len(g) = cnt /\ \A k \in 1 .. cnt : g[k] = k
    <3>1. g = [k \in 1 .. cnt |-> k]
      BY <1>1 DEF NothingLost
    <3> HIDE DEF g, S
    <3> QED
      BY <1>1, <2>1, <3>1, InOrder
  <2>3. /\ Append(g, cnt + 1) \in Seq(S) /\ Len(Append(g, cnt + 1)) = cnt + 1
        /\ \A k \in 1 .. cnt + 1 : Append(g, cnt + 1)[k] = k
    <3> HIDE DEF g, S
    <3>1. /\ Append(g, cnt + 1) \in Seq(S) /\ Len(Append(g, cnt + 1)) = cnt + 1
          /\ \A k \in 1 .. cnt : Append(g, cnt + 1)[k] = g[k]
          /\ Append(g, cnt + 1)[cnt + 1] = cnt + 1
      BY <2>1, <2>2, AppendProperties
    <3> QED
      BY <1>1, <2>2, <3>1
  <2>4. Append(g, cnt + 1) = [k \in 1 .. cnt + 1 |-> k]
    <3> HIDE DEF g, S
    <3> QED
      BY <1>1, <2>3, InOrder
  <2> QED
    BY <1>1, <2>1, <2>4 DEF NothingLost
<1>5. NeverAnOlderMessage' /\ UsesItsOwnSegment' /\ NoticeInv' /\ CellInv'
  BY <1>1 DEF NeverAnOlderMessage, UsesItsOwnSegment, NoticeInv, CellInv
<1>6. WriterInv'
  BY <1>1 DEF PipeWrite, FifoWrite, WriterInv, ChanTypeOK
<1>7. ChanTypeOK'
  <2>1. writer' \in {"write", "sleep"} /\ holds' \subseteq holds
    BY <1>1 DEF PipeWrite, FifoWrite
  <2> QED
    BY <1>1, <1>2, <1>3, <2>1 DEF ChanTypeOK
<1> QED
  BY <1>4, <1>5, <1>6, <1>7

\* A step that reads what there is preserves it.
LEMMA ReadIInv == ASSUME ChanIInv, ReadBytes PROVE ChanIInv'
<1> USE ChannelsAssumption DEF ChannelsAssumption, ChanIInv
<1> DEFINE Joined == 0 .. M + 1
           S == 0 .. M + 1 \cup {Torn}
<1>1. /\ via \in {"pipe", "fifo"} /\ reader' \in {"read", "cleanup"}
      /\ UNCHANGED <<via, writer, holds, fifoThere, segment, cell, cnt, notices>>
  BY DEF ReadBytes
<1>2. fifo \in Seq(Joined) /\ heard \in Seq(S) /\ Joined \subseteq S /\ Len(fifo) \in Nat
  BY DEF ChanTypeOK
<1>3. /\ heard' \o fifo' = heard \o fifo /\ fifo' \in Seq(Joined) /\ heard' \in Seq(S)
      /\ Len(fifo') <= Len(fifo) /\ Len(fifo') \in Nat
  <2> HIDE DEF S, Joined
  <2>1. CASE \E n \in 1 .. Len(fifo) : /\ heard' = heard \o SubSeq(fifo, 1, n)
                                       /\ fifo' = SubSeq(fifo, n + 1, Len(fifo))
    <3>1. PICK n \in 1 .. Len(fifo) : /\ heard' = heard \o SubSeq(fifo, 1, n)
                                      /\ fifo' = SubSeq(fifo, n + 1, Len(fifo))
      BY <2>1
    <3>2. /\ SubSeq(fifo, n + 1, Len(fifo)) \in Seq(Joined)
          /\ Len(SubSeq(fifo, n + 1, Len(fifo))) <= Len(fifo)
          /\ heard \o SubSeq(fifo, 1, n) \in Seq(S)
          /\ Stream(heard \o SubSeq(fifo, 1, n), SubSeq(fifo, n + 1, Len(fifo))) = Stream(heard, fifo)
      BY <1>2, Moved
    <3>3. fifo' \in Seq(Joined)
      BY <3>1, <3>2
    <3>4. Len(fifo') \in Nat
      BY <3>3, LenProperties
    <3>5. Stream(heard', fifo') = Stream(heard, fifo)
      BY <3>1, <3>2
    <3> QED
      BY <3>1, <3>2, <3>4, <3>5 DEF Stream
  <2>2. CASE UNCHANGED <<fifo, heard>>
    BY <1>2, <2>2
  <2> QED
    BY <2>1, <2>2 DEF ReadBytes
<1>4. NothingLost'
  BY <1>1, <1>3 DEF NothingLost
<1>5. NeverAnOlderMessage' /\ UsesItsOwnSegment' /\ NoticeInv' /\ CellInv'
  BY <1>1 DEF NeverAnOlderMessage, UsesItsOwnSegment, NoticeInv, CellInv
<1>6. WriterInv'
  <2>1. fifo = <<>> => fifo' = <<>>
    BY <1>2 DEF ReadBytes
  <2> QED
    BY <1>1, <2>1 DEF WriterInv
<1>7. ChanTypeOK'
  BY <1>1, <1>2, <1>3 DEF ChanTypeOK
<1> QED
  BY <1>4, <1>5, <1>6, <1>7

-------------------------------------------------------------------------------
\* A step of the two programs that share memory.
ShmStep == \/ ShmCreate \/ ShmMkfifo \/ ShmGet \/ ShmOpen \/ ShmTear \/ ShmFill
           \/ ShmNotify \/ ShmKill \/ ShmReadNotice \/ ShmPrint \/ ShmCleanup

\* It keeps what is said about byte streams, and the segment.
LEMMA ShmKeeps == ASSUME ChanIInv, ShmStep PROVE via = "shm" /\ via' = via /\ NothingLost' /\ UsesItsOwnSegment'
<1> USE DEF ShmStep, ShmCreate, ShmMkfifo, ShmGet, ShmOpen, ShmTear, ShmFill, ShmNotify, ShmKill,
            ShmReadNotice, ShmPrint, ShmCleanup
<1>1. via = "shm" /\ via' = via
  OBVIOUS
<1>2. UsesItsOwnSegment'
  BY <1>1 DEF ChanIInv, UsesItsOwnSegment, ChanTypeOK
<1> QED
  BY <1>1, <1>2 DEF NothingLost

\* A step that neither writes nor reads the FIFO preserves the invariant.
LEMMA SegmentIInv ==
  ASSUME ChanIInv, ShmCreate \/ ShmMkfifo \/ ShmGet \/ ShmOpen \/ ShmTear \/ ShmFill \/ ShmKill \/ ShmCleanup
  PROVE  ChanIInv'
<1> USE ChannelsAssumption DEF ChannelsAssumption, ChanIInv, Gone
<1>1. /\ via = "shm" /\ via' = via /\ NothingLost' /\ UsesItsOwnSegment'
      /\ UNCHANGED <<fifo, notices, heard>>
      /\ (reader' # "print" /\ reader # "print") \/ reader' = reader
  BY ShmKeeps DEF ShmStep, ShmCreate, ShmMkfifo, ShmGet, ShmOpen, ShmTear, ShmFill, ShmKill, ShmCleanup
<1>2. NeverAnOlderMessage'
  BY <1>1 DEF NeverAnOlderMessage
<1>3. CASE ShmCreate \/ ShmMkfifo \/ ShmGet \/ ShmKill \/ ShmCleanup
  <2>1. /\ UNCHANGED <<cell, cnt>> /\ holds' \subseteq holds
        /\ \/ writer' = writer
           \/ writer = "off" /\ writer' \in {"open", "failed"}
           \/ writer' = "done"
    BY <1>3 DEF ShmCreate, ShmMkfifo, ShmGet, ShmKill, ShmCleanup
  <2>2. WriterInv' /\ NoticeInv' /\ CellInv'
    BY <1>1, <2>1 DEF WriterInv, NoticeInv, CellInv
  <2>3. /\ reader' \in {reader, "mkfifo", "failed", "open", "done"}
        /\ fifoThere' \in BOOLEAN /\ segment' \in {segment, "made", "bare", "none"}
    BY <1>3 DEF ChanTypeOK, ShmCreate, ShmMkfifo, ShmGet, ShmKill, ShmCleanup
  <2>4. ChanTypeOK'
    BY <1>1, <2>1, <2>3 DEF ChanTypeOK
  <2> QED
    BY <1>1, <1>2, <2>2, <2>4
<1>4. CASE ShmOpen
  <2>1. \/ writer' = "write" /\ UNCHANGED <<cell, cnt>>
        \/ writer' = "failed" /\ cell' = 1 /\ cnt' = 1 /\ UNCHANGED <<reader, holds>>
    BY <1>4 DEF ShmOpen
  <2>2. writer = "open" /\ cnt = 0 /\ fifo = <<>> /\ notices = 0
    BY <1>1, <1>4 DEF ShmOpen, WriterInv
  <2>3. WriterInv' /\ CellInv'
    BY <1>1, <2>1, <2>2 DEF WriterInv, CellInv
  <2>4. ChanTypeOK'
    <3>1. reader' \in {reader, "read"} /\ holds' \in {holds, {"writer"}} /\ UNCHANGED <<fifoThere, segment>>
      BY <1>4 DEF ShmOpen
    <3>2. cell' \in 0 .. M + 1 \cup {Torn} /\ cnt' \in 0 .. M + 1
      BY <2>1 DEF ChanTypeOK
    <3> QED
      BY <1>1, <2>1, <3>1, <3>2 DEF ChanTypeOK
  <2>5. NoticeInv'
    BY <1>1, <2>1, <2>2 DEF NoticeInv
  <2> QED
    BY <1>1, <1>2, <2>3, <2>4, <2>5
<1>5. CASE ShmTear \/ ShmFill
  <2>1. \/ writer = "write" /\ writer' = "filling" /\ cell' = Torn /\ cnt' = cnt
        \/ writer = "filling" /\ writer' = "notify" /\ cell' = cnt + 1 /\ cnt' = cnt + 1
    BY <1>5 DEF ShmTear, ShmFill
  <2>2. cnt \in Nat /\ notices + Len(fifo) = cnt /\ cnt <= M /\ Len(fifo) \in Nat /\ notices \in Nat
    BY <1>1, <2>1 DEF NoticeInv, ChanTypeOK
  <2>3. WriterInv' /\ CellInv'
    BY <1>1, <2>1, <2>2 DEF WriterInv, CellInv
  <2>4. ChanTypeOK'
    <3>1. UNCHANGED <<reader, holds, fifoThere, segment>>
      BY <1>5 DEF ShmTear, ShmFill
    <3>2. cell' \in 0 .. M + 1 \cup {Torn} /\ cnt' \in 0 .. M + 1
      BY <2>1, <2>2 DEF ChanTypeOK
    <3> QED
      BY <1>1, <2>1, <3>1, <3>2 DEF ChanTypeOK
  <2>5. NoticeInv'
    BY <1>1, <2>1, <2>2 DEF NoticeInv
  <2> QED
    BY <1>1, <1>2, <2>3, <2>4, <2>5
<1> QED
  BY <1>3, <1>4, <1>5

\* So does a notice.
LEMMA NotifyIInv == ASSUME ChanIInv, ShmNotify PROVE ChanIInv'
<1> USE ChannelsAssumption DEF ChannelsAssumption, ChanIInv, Gone
<1> DEFINE x == IF cnt > M THEN 0 ELSE 1
<1>1. /\ via = "shm" /\ via' = via /\ NothingLost' /\ UsesItsOwnSegment'
      /\ UNCHANGED <<reader, fifoThere, segment, cell, cnt, notices, heard>>
      /\ writer = "notify" /\ writer' = IF cnt > M THEN "done" ELSE "write"
      /\ fifo' = Append(fifo, x) /\ holds' \subseteq holds /\ Len(fifo) < FifoCap
  BY ShmKeeps DEF ShmStep, ShmNotify
<1>2. /\ cnt \in Nat /\ notices \in Nat /\ Len(fifo) \in Nat /\ cnt = notices + Len(fifo) + 1
      /\ fifo \in Seq(0 .. M + 1) /\ x \in 0 .. M + 1
  BY <1>1 DEF NoticeInv, ChanTypeOK
<1>3. /\ fifo' \in Seq(0 .. M + 1) /\ Len(fifo') = Len(fifo) + 1
      /\ \A i \in 1 .. Len(fifo) : fifo'[i] = fifo[i]
      /\ fifo'[Len(fifo) + 1] = x
  <2> HIDE DEF x
  <2> QED
    BY <1>1, <1>2, AppendProperties
<1>4. NoticeInv'
  <2>1. \A i \in 1 .. Len(fifo') : fifo'[i] = IF notices + i > M THEN 0 ELSE 1
    <3> TAKE i \in 1 .. Len(fifo')
    <3>1. CASE i \in 1 .. Len(fifo)
      BY <1>1, <1>3, <3>1 DEF NoticeInv
    <3>2. CASE i = Len(fifo) + 1
      BY <1>2, <1>3, <3>2
    <3> QED
      BY <1>2, <1>3, <3>1, <3>2
  <2> QED
    BY <1>1, <1>2, <1>3, <2>1 DEF NoticeInv
<1>5. ChanTypeOK'
  BY <1>1, <1>2, <1>3 DEF ChanTypeOK
<1>6. WriterInv' /\ CellInv' /\ NeverAnOlderMessage'
  BY <1>1 DEF WriterInv, CellInv, NeverAnOlderMessage
<1> QED
  BY <1>1, <1>4, <1>5, <1>6

\* So does the reading of a notice.
LEMMA NoticeIInv == ASSUME ChanIInv, ShmReadNotice PROVE ChanIInv'
<1> USE ChannelsAssumption DEF ChannelsAssumption, ChanIInv, Gone
<1>1. /\ via = "shm" /\ via' = via /\ NothingLost' /\ UsesItsOwnSegment' /\ reader = "read"
      /\ UNCHANGED <<writer, holds, fifoThere, segment, cell, cnt, heard>>
  BY ShmKeeps DEF ShmStep, ShmReadNotice
<1>2. /\ cnt \in Nat /\ cnt <= M + 1 /\ notices \in Nat /\ Len(fifo) \in Nat
      /\ fifo \in Seq(0 .. M + 1) /\ notices + Len(fifo) <= cnt
  BY <1>1 DEF NoticeInv, ChanTypeOK
<1>3. NeverAnOlderMessage'
  BY <1>1 DEF NeverAnOlderMessage
<1>4. CASE fifo # <<>>
  <2>1. /\ fifo' = Tail(fifo)
        /\ \/ Head(fifo) = 0 /\ reader' = "cleanup" /\ notices' = notices
           \/ Head(fifo) # 0 /\ reader' = "print" /\ notices' = notices + 1
    BY <1>4 DEF ShmReadNotice
  <2>2. /\ fifo' \in Seq(0 .. M + 1) /\ Len(fifo') = Len(fifo) - 1 /\ Len(fifo) \in Nat \ {0}
        /\ \A i \in 1 .. Len(fifo) - 1 : fifo'[i] = fifo[i + 1]
        /\ Head(fifo) = fifo[1]
    BY <1>2, <1>4, <2>1, HeadTailProperties, EmptySeq
  <2>3. fifo[1] = IF notices + 1 > M THEN 0 ELSE 1
    BY <1>1, <2>2 DEF NoticeInv
  <2>4. CASE Head(fifo) = 0
    <3>1. notices + 1 > M /\ Len(fifo) = 1 /\ Len(fifo') = 0 /\ notices' = notices /\ reader' = "cleanup"
      BY <1>2, <2>1, <2>2, <2>3, <2>4
    <3>2. NoticeInv' /\ WriterInv'
      BY <1>1, <1>2, <3>1 DEF NoticeInv, WriterInv
    <3>3. CellInv' /\ ChanTypeOK'
      BY <1>1, <2>2, <3>1 DEF CellInv, ChanTypeOK
    <3> QED
      BY <1>1, <1>3, <3>2, <3>3
  <2>5. CASE Head(fifo) # 0
    <3>1. notices + 1 <= M /\ notices' = notices + 1 /\ reader' = "print"
      BY <1>2, <2>1, <2>2, <2>3, <2>5
    <3>2. \A i \in 1 .. Len(fifo) - 1 : fifo'[i] = IF notices' + i > M THEN 0 ELSE 1
      <4> TAKE i \in 1 .. Len(fifo) - 1
      <4>1. i + 1 \in 1 .. Len(fifo) /\ fifo'[i] = fifo[i + 1]
        BY <2>2
      <4>2. fifo[i + 1] = IF notices + (i + 1) > M THEN 0 ELSE 1
        BY <1>1, <4>1 DEF NoticeInv
      <4> QED
        BY <1>2, <2>2, <3>1, <4>1, <4>2
    <3>3. NoticeInv'
      <4>1. notices' + Len(fifo') = notices + Len(fifo) /\ 1 .. Len(fifo') = 1 .. Len(fifo) - 1
        BY <1>2, <2>2, <3>1
      <4> QED
        BY <1>1, <3>2, <4>1 DEF NoticeInv
    <3>4. WriterInv'
      BY <1>1, <1>4, <3>1 DEF WriterInv
    <3>5. CellInv' /\ ChanTypeOK'
      BY <1>1, <1>2, <2>2, <3>1 DEF CellInv, ChanTypeOK
    <3> QED
      BY <1>1, <1>3, <3>3, <3>4, <3>5
  <2> QED
    BY <2>4, <2>5
<1>5. CASE fifo = <<>>
  <2>1. reader' = "cleanup" /\ UNCHANGED <<fifo, notices>>
    BY <1>5 DEF ShmReadNotice
  <2> QED
    BY <1>1, <1>3, <2>1 DEF NoticeInv, WriterInv, CellInv, ChanTypeOK
<1> QED
  BY <1>4, <1>5

\* So does the printing of the segment: there are at least as many messages as notices.
LEMMA PrintIInv == ASSUME ChanIInv, ShmPrint PROVE ChanIInv'
<1> USE ChannelsAssumption DEF ChannelsAssumption, ChanIInv
<1>1. /\ via = "shm" /\ via' = via /\ NothingLost' /\ UsesItsOwnSegment'
      /\ UNCHANGED <<writer, fifo, holds, fifoThere, segment, cell, cnt, notices>>
      /\ heard' = Append(heard, cell) /\ reader = "print" /\ reader' = "read"
  BY ShmKeeps DEF ShmStep, ShmPrint
<1> DEFINE S == 0 .. M + 1 \cup {Torn}
<1>2. /\ heard \in Seq(S) /\ cell \in S /\ Len(heard) \in Nat /\ Len(heard) = notices - 1
      /\ cnt \in Nat /\ notices \in Nat /\ notices <= cnt /\ (cell = Torn \/ cell = cnt)
  BY <1>1 DEF NoticeInv, CellInv, ChanTypeOK
<1>3. /\ heard' \in Seq(S) /\ Len(heard') = Len(heard) + 1
      /\ \A i \in 1 .. Len(heard) : heard'[i] = heard[i]
      /\ heard'[Len(heard) + 1] = cell
  <2> HIDE DEF S
  <2> QED
    BY <1>1, <1>2, AppendProperties
<1>4. NeverAnOlderMessage'
  <2> SUFFICES ASSUME NEW k \in 1 .. Len(heard') PROVE heard'[k] = Torn \/ heard'[k] >= k
    BY DEF NeverAnOlderMessage
  <2>1. CASE k \in 1 .. Len(heard)
    BY <1>1, <1>3, <2>1 DEF NeverAnOlderMessage
  <2>2. CASE k = Len(heard) + 1
    BY <1>2, <1>3, <2>2
  <2> QED
    BY <1>2, <1>3, <2>1, <2>2
<1>5. CellInv' /\ WriterInv' /\ NoticeInv'
  BY <1>1, <1>2, <1>3 DEF CellInv, WriterInv, NoticeInv
<1>6. ChanTypeOK'
  BY <1>1, <1>3 DEF ChanTypeOK
<1> QED
  BY <1>1, <1>4, <1>5, <1>6

-------------------------------------------------------------------------------
\* The inductive invariant holds in every execution.
LEMMA ChanAlways == ChanSpec => []ChanIInv
<1>1. ChanInit => ChanIInv
  BY ChanInitIInv
<1>2. ChanIInv /\ [ChanNext]_chanVars => ChanIInv'
  <2> SUFFICES ASSUME ChanIInv, [ChanNext]_chanVars PROVE ChanIInv'
    OBVIOUS
  <2>1. CASE ChanNext
    BY <2>1, PipeIInv, WriteIInv, ReadIInv, SegmentIInv, NotifyIInv, NoticeIInv, PrintIInv
       DEF ChanNext, ReaderStep, WriterStep, Opening, Start, PipeStep
  <2>2. CASE UNCHANGED chanVars
    BY <2>2 DEF chanVars, ChanIInv, ChanTypeOK, WriterInv, NoticeInv, CellInv, NothingLost,
                NeverAnOlderMessage, UsesItsOwnSegment
  <2> QED
    BY <2>1, <2>2
<1> QED
  BY <1>1, <1>2, PTL DEF ChanSpec

\* For any number of messages and any size of the pipe: the numbers of messages and
\* notices stay within their bounds, the notice that ends the server among them.
THEOREM ChannelTypes == ChanSpec => []ChanTypeOK
<1>1. ChanIInv => ChanTypeOK
  BY DEF ChanIInv
<1> QED
  BY <1>1, ChanAlways, PTL

\* For any number of messages and any size of the pipe: what the readers of mypipe.cc:66-81
\* and named_pipe/server.cc:15-26 have read and what is in the pipe is all that was written.
THEOREM PipesLoseNothing == ChanSpec => []NothingLost
<1>1. ChanIInv => NothingLost
  BY DEF ChanIInv
<1> QED
  BY <1>1, ChanAlways, PTL

\* For any number of messages: the k-th text the shm server prints is being overwritten, or
\* is that of message k or a later one (shm_server.cc:25-33, shm_client.cc:24-30).
THEOREM NoticeAfterMessage == ChanSpec => []NeverAnOlderMessage
<1>1. ChanIInv => NeverAnOlderMessage
  BY DEF ChanIInv
<1> QED
  BY <1>1, ChanAlways, PTL

\* Whenever clients are started, the server goes on only with a segment it made itself
\* (shm_t/common.hpp:20-40).
THEOREM OwnSegment == ChanSpec => []UsesItsOwnSegment
<1>1. ChanIInv => UsesItsOwnSegment
  BY DEF ChanIInv
<1> QED
  BY <1>1, ChanAlways, PTL

\* The four together, what the run checks for three messages and a pipe of two.
THEOREM ChannelSafety == ChanSpec => []ChanSafe
  BY ChannelTypes, PipesLoseNothing, NoticeAfterMessage, OwnSegment, PTL DEF ChanSafe

-------------------------------------------------------------------------------
(***************************************************************************)
(* A connected reader is never stuck: either side can go on, or the reader *)
(* waits for what a user types.                                            *)
(***************************************************************************)
\* The reader, or a writer that does not wait for its user, can do its next statement.
ReaderCan == \/ reader \in {"close", "print"}
             \/ reader = "read" /\ (fifo # <<>> \/ holds = {})
             \/ reader = "cleanup" /\ (via = "pipe" => writer = "zombie")
WriterCan == \/ via = "pipe" /\ writer \in {"close", "sleep"}
             \/ via = "shm" /\ writer \in {"write", "filling"}
             \/ /\ Len(fifo) < FifoCap
                /\ \/ via = "pipe" /\ writer = "write"
                   \/ via = "shm" /\ writer = "notify"
AwaitsUser == via = "fifo" /\ writer = "write" /\ reader = "read" /\ fifo = <<>>

\* The reader that is connected reaches its end, which leaves neither FIFO nor segment.
ChanMoves == /\ reader \in {"close", "read", "print", "cleanup"} => ReaderCan \/ WriterCan \/ AwaitsUser
             /\ reader = "done" => ~ fifoThere /\ segment # "made"

\* A pipe's write end is held by a process that will write or close it, never by the
\* reader that waits for its end.
EndsInv == /\ holds \subseteq {"reader", "writer"}
           /\ "reader" \in holds => reader = "close"
           /\ "writer" \in holds => writer \in {"close", "write", "filling", "notify"}
           /\ reader = "close" => via = "pipe"
           /\ reader = "print" => via = "shm"
           /\ writer \in {"close", "sleep", "zombie"} => via = "pipe"
           /\ writer \in {"filling", "notify"} => via = "shm"
           /\ via = "pipe" =>
                /\ reader \in {"off", "close", "read", "cleanup", "done"}
                /\ reader \in {"close", "read", "cleanup"} =>
                     writer \in {"close", "write", "sleep", "zombie"}
                /\ writer \in {"close", "write"} => "writer" \in holds
                /\ reader = "cleanup" => holds = {}
                /\ ~ fifoThere /\ segment = "none"
           /\ via = "fifo" => segment = "none"
           /\ via # "pipe" /\ reader = "done" => ~ fifoThere /\ segment # "made"

\* A step of one of the two processes preserves it.
LEMMA EndsStep == ASSUME ChanIInv, EndsInv, ChanNext PROVE EndsInv'
<1> USE DEF EndsInv
<1>1. CASE ReaderStep
  <2>1. CASE PipeParentCloses
    BY <2>1 DEF PipeParentCloses, Gone
  <2>2. CASE ReadBytes
    BY <2>2 DEF ReadBytes
  <2>3. CASE PipeWait
    BY <2>3 DEF PipeWait
  <2>4. CASE FifoRemove
    BY <2>4 DEF FifoRemove
  <2>5. CASE ShmReadNotice
    BY <2>5 DEF ShmReadNotice
  <2>6. CASE ShmPrint
    BY <2>6 DEF ShmPrint
  <2>7. CASE ShmCleanup
    BY <2>7 DEF ShmCleanup
  <2> QED
    BY <1>1, <2>1, <2>2, <2>3, <2>4, <2>5, <2>6, <2>7 DEF ReaderStep
<1>2. CASE WriterStep
  <2>1. CASE PipeChildCloses
    BY <2>1 DEF PipeChildCloses
  <2>2. CASE PipeWrite
    BY <2>2 DEF PipeWrite, Gone
  <2>3. CASE PipeExit
    BY <2>3 DEF PipeExit
  <2>4. CASE ShmTear
    BY <2>4 DEF ShmTear
  <2>5. CASE ShmFill
    BY <2>5 DEF ShmFill
  <2>6. CASE ShmNotify
    BY <2>6 DEF ShmNotify, Gone
  <2> QED
    BY <1>2, <2>1, <2>2, <2>3, <2>4, <2>5, <2>6 DEF WriterStep
<1>3. CASE Opening
  <2>1. CASE FifoOpen
    BY <2>1 DEF FifoOpen
  <2>2. CASE ShmMkfifo
    BY <2>2 DEF ShmMkfifo
  <2>3. CASE ShmOpen
    BY <2>3 DEF ShmOpen
  <2> QED
    BY <1>3, <2>1, <2>2, <2>3 DEF Opening
<1>4. CASE Start
  <2>1. CASE PipeFork
    BY <2>1 DEF PipeFork
  <2>2. CASE FifoCreate
    BY <2>2 DEF FifoCreate
  <2>3. CASE ShmCreate
    BY <2>3 DEF ShmCreate
  <2>4. CASE ShmGet
    BY <2>4 DEF ShmGet
  <2> QED
    BY <1>4, <2>1, <2>2, <2>3, <2>4 DEF Start
<1>5. CASE FifoWrite
  BY <1>5 DEF FifoWrite
<1>6. CASE FifoKill
  BY <1>6 DEF FifoKill, Gone
<1>7. CASE ShmKill
  BY <1>7 DEF ShmKill, Gone
<1> QED
  BY <1>1, <1>2, <1>3, <1>4, <1>5, <1>6, <1>7 DEF ChanNext

\* For any number of messages and any size of the pipe, whenever a writer is killed: once
\* both sides are connected, one of them can go on, or a user has to type, until the reader
\* is done and has removed what it made (mypipe.cc:39-84, named_pipe/server.cc:15-26,
\* shm_server.cc:25-38).
THEOREM ReaderNeverStuck == ChanSpec => []ChanMoves
<1>1. ChanInit => EndsInv
  BY DEF ChanInit, EndsInv
<1>2. ChanIInv /\ EndsInv /\ [ChanNext]_chanVars => EndsInv'
  <2>1. EndsInv /\ UNCHANGED chanVars => EndsInv'
    BY DEF chanVars, EndsInv
  <2> QED
    BY <2>1, EndsStep
<1>3. ChanIInv /\ EndsInv => ChanMoves
  <2> SUFFICES ASSUME ChanIInv, EndsInv PROVE ChanMoves
    OBVIOUS
  <2>1. /\ via \in {"pipe", "fifo", "shm"} /\ FifoCap \in Nat \ {0}
        /\ fifo = <<>> => Len(fifo) < FifoCap
    BY ChannelsAssumption DEF ChannelsAssumption, ChanIInv, ChanTypeOK
  <2>2. CASE reader = "read" /\ fifo = <<>> /\ holds # {}
    <3>1. writer \in {"close", "write", "filling", "notify"}
      BY <2>2 DEF EndsInv
    <3> QED
      BY <2>1, <2>2, <3>1 DEF ChanMoves, WriterCan, AwaitsUser, EndsInv
  <2>3. CASE reader = "cleanup"
    BY <2>3 DEF ChanMoves, ReaderCan, WriterCan, EndsInv
  <2>4. CASE reader # "cleanup" /\ ~ (reader = "read" /\ fifo = <<>> /\ holds # {})
    BY <2>1, <2>4 DEF ChanMoves, ReaderCan, EndsInv
  <2> QED
    BY <2>2, <2>3, <2>4
<1> QED
  BY <1>1, <1>2, <1>3, ChanAlways, PTL DEF ChanSpec

-------------------------------------------------------------------------------
(* The exercises with threads and signals. *)

\* A seller that sells or is about to release the mutex holds it.
HolderInv == \A s \in Sellers : at[s] \in {"sell", "unlock"} => mtx = {s}

\* No seller has sold more seats than are missing.
SoldInv == \A s \in Sellers : sold[s] + seat <= Seats

\* Every time the handler ran a signal had been sent, and another one if it is pending.
CaughtInv == \A g \in Signals : caught[g] + (IF g \in pending THEN 1 ELSE 0) <= raised[g]

\* The handlers are installed before the signals are blocked for the first time, and
\* nothing is before that process runs.
InstallInv == /\ main \in {"block", "loop", "again"} => catches = Signals
              /\ lesson # "signals" => main = "install"

\* A round goes on only while it has seconds left.
RoundInv == /\ main = "loop" => secs < Rounds
            /\ main \in {"install", "block"} => secs = 0

\* The inductive invariant.
LessonsIInv == LessonsTypeOK /\ HolderInv /\ SoldInv /\ CaughtInv /\ InstallInv /\ RoundInv

-------------------------------------------------------------------------------
\* The inductive invariant holds before a program is started.
LEMMA LessonsInitIInv == LessonsInit => LessonsIInv
  BY LessonsAssumption
     DEF LessonsAssumption, LessonsInit, LessonsIInv, LessonsTypeOK, HolderInv, SoldInv, CaughtInv, InstallInv, RoundInv

\* A step of a seller keeps the seats in order.
LEMMA SellerIInv == ASSUME LessonsIInv, NEW s \in Sellers, SellerStep(s) PROVE LessonsIInv'
<1> USE LessonsAssumption
    DEF LessonsAssumption, LessonsIInv, LessonsTypeOK, HolderInv, SoldInv, CaughtInv, InstallInv,
        RoundInv, SellerStep, signalVars, Goes
<1>1. CASE TestSeat(s)
  BY <1>1 DEF TestSeat
<1>2. CASE TakeLock(s)
  BY <1>2 DEF TakeLock
<1>3. CASE Sell(s)
  BY <1>3 DEF Sell
<1>4. CASE ReleaseLock(s)
  BY <1>4 DEF ReleaseLock
<1> QED
  BY <1>1, <1>2, <1>3, <1>4

\* So does a step of the process with the signals.
LEMMA SignalIInv == ASSUME LessonsIInv, SignalStep PROVE LessonsIInv'
<1> USE LessonsAssumption
    DEF LessonsAssumption, LessonsIInv, LessonsTypeOK, HolderInv, SoldInv, CaughtInv, InstallInv,
        RoundInv, SignalStep, ticketVars
<1>1. CASE Install
  BY <1>1 DEF Install
<1>2. CASE BlockThem
  BY <1>2 DEF BlockThem, BlockSignal
<1>3. CASE Round
  BY <1>3 DEF Round, CancelBlock
<1>4. CASE Again
  BY <1>4 DEF Again, BlockSignal
<1> QED
  BY <1>1, <1>2, <1>3, <1>4

\* Each step preserves the inductive invariant.
LEMMA LessonsStepIInv == LessonsIInv /\ [LessonsNext]_lessonVars => LessonsIInv'
<1> SUFFICES ASSUME LessonsIInv, [LessonsNext]_lessonVars PROVE LessonsIInv'
  OBVIOUS
<1>1. ASSUME LessonsRun PROVE LessonsIInv'
  BY <1>1 DEF LessonsRun, LessonsIInv, LessonsTypeOK, HolderInv, SoldInv, CaughtInv, InstallInv,
              RoundInv, ticketVars, signalVars
<1>2. ASSUME NEW g \in Signals, Raise(g) PROVE LessonsIInv'
  BY <1>2, LessonsAssumption
     DEF LessonsAssumption, Raise, LessonsIInv, LessonsTypeOK, HolderInv, SoldInv, CaughtInv, InstallInv, RoundInv, ticketVars
<1>3. ASSUME NEW g \in Signals, DeliverSignal(g) PROVE LessonsIInv'
  <2> USE LessonsAssumption DEF LessonsAssumption, LessonsIInv
  <2>1. CaughtInv' /\ LessonsTypeOK'
    BY <1>3 DEF DeliverSignal, Deliverable, LessonsTypeOK, CaughtInv, ticketVars
  <2>2. HolderInv' /\ SoldInv' /\ InstallInv' /\ RoundInv'
    BY <1>3 DEF DeliverSignal, HolderInv, SoldInv, InstallInv, RoundInv, ticketVars
  <2> QED
    BY <2>1, <2>2
<1>4. CASE UNCHANGED lessonVars
  BY <1>4 DEF lessonVars, ticketVars, signalVars, LessonsIInv, LessonsTypeOK, HolderInv, SoldInv,
              CaughtInv, InstallInv, RoundInv
<1> QED
  BY <1>1, <1>2, <1>3, <1>4, SellerIInv, SignalIInv DEF LessonsNext

\* The inductive invariant holds in every execution.
LEMMA LessonsAlways == LessonsSpec => []LessonsIInv
<1>1. LessonsInit => LessonsIInv
  BY LessonsInitIInv
<1>2. LessonsIInv /\ [LessonsNext]_lessonVars => LessonsIInv'
  BY LessonsStepIInv
<1> QED
  BY <1>1, <1>2, PTL DEF LessonsSpec

\* For any number of sellers and seats, seat never goes below zero and nobody sells more
\* seats than there were, though the loop looks at seat without the lock
\* (mutex_t/test.cc:20-30); and the types of the process with the signals.
THEOREM SeatsAndSignals == LessonsSpec => []LessonsTypeOK
<1>1. LessonsIInv => LessonsTypeOK
  BY DEF LessonsIInv
<1> QED
  BY <1>1, LessonsAlways, PTL

\* Whatever signals there are and whenever they come, none kills the process once its
\* handlers are installed (signal_t.cc:104-108).
THEOREM SignalsSurvived == LessonsSpec => SurvivesItsSignals
<1>1. LessonsIInv /\ [LessonsNext]_lessonVars => [main' = "killed" => main = "install"]_lessonVars
  <2> SUFFICES ASSUME LessonsIInv, LessonsNext, main' = "killed", main # "install", ~ UNCHANGED lessonVars
               PROVE  FALSE
    OBVIOUS
  <2>1. PICK g \in Signals : DeliverSignal(g)
    BY DEF LessonsIInv, InstallInv, LessonsNext, LessonsRun, SignalStep, Install, BlockThem, Round,
           Again, SellerStep, Raise, signalVars
  <2>2. g \notin catches /\ main \in {"install", "block", "loop", "again"}
    BY <2>1 DEF DeliverSignal, LessonsIInv, LessonsTypeOK
  <2> QED
    BY <2>2 DEF LessonsIInv, InstallInv
<1> QED
  BY <1>1, LessonsAlways, PTL DEF LessonsSpec, SurvivesItsSignals

\* Both together, what the run checks for three sellers, three seats and two signals.
THEOREM LessonsSafety == LessonsSpec => LessonsSafe
  BY SeatsAndSignals, SignalsSurvived DEF LessonsSafe

-------------------------------------------------------------------------------
(* The page server. *)

Bytes == Urls \X (1 .. 3)
Response == {Get(url) : url \in Urls}

\* The client's requests that are not answered, as they are under way when none was cut.
Uncut == /\ Len(stream) = 3 * (Len(asked) - Len(answers))
         /\ \A k \in Len(answers) + 1 .. Len(asked) : \A p \in 1 .. 3 :
              stream[3 * (k - Len(answers) - 1) + p] = <<asked[k], p>>

Named(k) == File[IF asked[k] = "missing" THEN "notfound" ELSE asked[k]]

HttpIInv == /\ HttpTypeOK /\ answers \in Seq(Response)
            /\ \A k \in 1 .. Len(answers) : answers[k].length = Len(answers[k].body)
            /\ whole => Uncut /\ \A k \in 1 .. Len(answers) : answers[k].body = Named(k)

\* Every answer is a file or the 404 page, with its length.
LEMMA GetAnswers ==
  ASSUME NEW url \in Urls
  PROVE  /\ Get(url) \in Response /\ Get(url).length = Len(Get(url).body)
         /\ Get(url).body = File[IF url = "missing" THEN "notfound" ELSE url]
<1>1. DOMAIN File = {"home", "page", "picture", "directory", "notfound"}
  BY DEF File
<1> DEFINE path == IF url \in DOMAIN File THEN url ELSE "notfound"
<1>2. path = IF url = "missing" THEN "notfound" ELSE url
  BY <1>1 DEF Urls
<1>3. Get(url) = [type |-> SuffToDesc(Suffix(url)), body |-> File[path], length |-> Len(File[path])]
  BY DEF Get, LoadSource
<1> HIDE DEF path
<1> QED
  BY <1>2, <1>3 DEF Response

\* A set of natural numbers that is not empty has a least element.
LEMMA LeastOf == ASSUME NEW S \in SUBSET Nat, S # {} PROVE \E x \in S : \A y \in S : x <= y
<1> DEFINE R == OpToRel(<, Nat)
<1>1. IsWellFoundedOn(R, Nat)
  BY NatLessThanWellFounded, Zenon
<1>2. \A x, y \in Nat : y < x => <<y, x>> \in R
  BY DEF OpToRel
<1> HIDE DEF R
<1>3. PICK x \in S : \A y \in S : ~ (<<y, x>> \in R)
  BY <1>1, WFMin
<1>4. ASSUME NEW y \in S PROVE x <= y
  <2>1. x \in Nat /\ y \in Nat /\ ~ (y < x)
    BY <1>2, <1>3
  <2> QED
    BY <2>1
<1> QED
  BY <1>4

\* What is read of a first line begins where the read began; there is one if a line ends.
LEMMA FirstLine ==
  ASSUME NEW in \in Seq(Bytes)
  PROVE  /\ GetOneLine(in) # <<>> => in # <<>> /\ GetOneLine(in)[1] = in[1]
         /\ (\E i \in 1 .. Len(in) : in[i][2] >= 2) => GetOneLine(in) # <<>>
<1> DEFINE ends == {i \in DOMAIN in : in[i][2] >= 2}
<1>0. DOMAIN in = 1 .. Len(in) /\ Len(in) \in Nat /\ \A i \in 1 .. Len(in) : in[i] \in Bytes
  BY LenProperties
<1>1. GetOneLine(in) = IF ends = {} THEN <<>> ELSE SubSeq(in, 1, CHOOSE i \in ends : \A j \in ends : i <= j)
  BY DEF GetOneLine
<1>4. ends = {i \in 1 .. Len(in) : in[i][2] >= 2}
  BY <1>0
<1>2. CASE ends = {}
  BY <1>1, <1>2, <1>4
<1>3. CASE ends # {}
  <2>1. ends \in SUBSET Nat
    BY <1>0
  <2>2. PICK n \in ends : n = CHOOSE i \in ends : \A j \in ends : i <= j
    <3> HIDE DEF ends
    <3> QED
      BY <1>3, <2>1, LeastOf
  <2>3. n \in 1 .. Len(in)
    BY <1>0
  <2>4. GetOneLine(in) = SubSeq(in, 1, n)
    BY <1>1, <1>3, <2>2
  <2>5. /\ Len(SubSeq(in, 1, n)) = IF 1 <= n THEN n - 1 + 1 ELSE 0
        /\ \A i \in 1 .. n - 1 + 1 : SubSeq(in, 1, n)[i] = in[1 + i - 1]
    <3>1. 1 \in Int /\ n \in Int /\ \A i \in 1 .. n : in[i] \in Bytes
      BY <1>0, <2>3
    <3> QED
      BY <3>1, SubSeqProperties
  <2>6. Len(SubSeq(in, 1, n)) >= 1 /\ SubSeq(in, 1, n)[1] = in[1]
    BY <1>0, <2>3, <2>5
  <2>7. Len(<<>>) = 0 /\ ~ (0 >= 1)
    OBVIOUS
  <2>8. SubSeq(in, 1, n) # <<>> /\ in # <<>>
    <3>1. Len(in) # 0
      BY <1>0, <2>3
    <3> QED
      BY <2>6, <2>7, <3>1
  <2> QED
    BY <2>4, <2>6, <2>8
<1> QED
  BY <1>2, <1>3

\* A request is for one of the urls, whatever part of it was read, and for the one it names
\* when it was read whole.
LEMMA ParseNames ==
  ASSUME NEW in \in Seq(Bytes), in # <<>>
  PROVE  /\ Parse(in) \in Urls
         /\ \A u \in Urls : Len(in) = 3 /\ (\A p \in 1 .. 3 : in[p] = <<u, p>>) => Parse(in) = u
<1>1. Len(in) \in Nat \ {0} /\ in[1] \in Bytes
  BY EmptySeq
<1> DEFINE line == GetOneLine(in)
           first == IF line = <<>> THEN 2 ELSE line[1][2]
<1>2. Parse(in) = CASE first = 1 -> line[1][1] [] first = 2 -> "directory" [] first = 3 -> "missing"
  BY DEF Parse
<1>3. line # <<>> => line[1] = in[1]
  BY FirstLine
<1>4. first \in 1 .. 3 /\ (first = 1 => line[1][1] \in Urls)
  <2>1. in[1][1] \in Urls /\ in[1][2] \in 1 .. 3
    BY <1>1 DEF Bytes
  <2> HIDE DEF line
  <2> QED
    BY <1>3, <2>1
<1>5. Parse(in) \in Urls
  <2> HIDE DEF line, first
  <2> QED
    BY <1>2, <1>4 DEF Urls
<1>6. ASSUME NEW u \in Urls, Len(in) = 3, \A p \in 1 .. 3 : in[p] = <<u, p>> PROVE Parse(in) = u
  <2>1. in[2][2] >= 2 /\ 2 \in 1 .. Len(in) /\ in[1] = <<u, 1>>
    BY <1>6
  <2>2. line # <<>>
    BY <2>1, FirstLine
  <2>3. first = 1 /\ line[1][1] = u
    <3> HIDE DEF line
    <3> QED
      BY <1>3, <2>1, <2>2
  <2> HIDE DEF line, first
  <2> QED
    BY <1>2, <2>3
<1> QED
  BY <1>5, <1>6

\* The invariant holds before the client connects.
LEMMA HttpInitIInv == HttpInit => HttpIInv
<1> SUFFICES ASSUME HttpInit PROVE HttpIInv
  OBVIOUS
<1>1. /\ asked = <<>> /\ stream = <<>> /\ answers = <<>> /\ link = "off" /\ whole = TRUE
      /\ Len(<<>>) = 0 /\ 0 <= MaxRequests
  BY HttpAssumption DEF HttpInit, HttpAssumption
<1>2. <<>> \in Seq(Urls) /\ <<>> \in Seq(Urls \X (1 .. 3)) /\ <<>> \in Seq(Response)
  OBVIOUS
<1> QED
  BY <1>1, <1>2 DEF HttpIInv, HttpTypeOK, Uncut

\* A request is sent in three parts.
LEMMA AskIInv == ASSUME HttpIInv, NEW url \in Urls, HttpAsk(url) PROVE HttpIInv'
<1> DEFINE r == << <<url, 1>>, <<url, 2>>, <<url, 3>> >>
<1>1. /\ asked \in Seq(Urls) /\ stream \in Seq(Bytes) /\ answers \in Seq(Response) /\ whole \in BOOLEAN
      /\ Len(asked) < MaxRequests /\ asked' = Append(asked, url) /\ stream' = stream \o r
      /\ UNCHANGED <<link, whole, answers>> /\ MaxRequests \in Nat /\ link \in {"off", "open", "closed"}
      /\ Len(stream) + Len(answers) <= 3 * Len(asked)
  BY HttpAssumption DEF HttpAsk, HttpIInv, HttpTypeOK, Bytes, HttpAssumption
<1>2. /\ asked' \in Seq(Urls) /\ Len(asked') = Len(asked) + 1 /\ Len(asked) \in Nat
      /\ asked'[Len(asked) + 1] = url /\ \A i \in 1 .. Len(asked) : asked'[i] = asked[i]
  BY <1>1
<1>3. r \in Seq(Bytes) /\ Len(r) = 3 /\ \A p \in 1 .. 3 : r[p] = <<url, p>>
  BY DEF Bytes
<1>4. /\ stream' \in Seq(Bytes) /\ Len(stream') = Len(stream) + 3 /\ Len(stream) \in Nat /\ Len(answers) \in Nat
      /\ \A i \in 1 .. Len(stream) + 3 : stream'[i] = IF i <= Len(stream) THEN stream[i] ELSE r[i - Len(stream)]
  <2> HIDE DEF r
  <2>1. Len(stream) \in Nat /\ Len(answers) \in Nat
    BY <1>1
  <2>2. /\ stream' \in Seq(Bytes) /\ Len(stream') = Len(stream) + Len(r)
        /\ \A i \in 1 .. Len(stream) + Len(r) : stream'[i] = IF i <= Len(stream) THEN stream[i] ELSE r[i - Len(stream)]
    BY <1>1, <1>3, ConcatProperties
  <2> QED
    BY <1>3, <2>1, <2>2
<1> HIDE DEF r
<1>5. HttpTypeOK'
  <2>1. Len(stream') + Len(answers') <= 3 * Len(asked') /\ Len(asked') <= MaxRequests
    BY <1>1, <1>2, <1>4
  <2> QED
    BY <1>1, <1>2, <1>4, <2>1 DEF HttpTypeOK, Bytes
<1>6. whole' => Uncut'
  <2> SUFFICES ASSUME whole PROVE Uncut'
    BY <1>1
  <2>0. /\ Len(stream) = 3 * (Len(asked) - Len(answers))
        /\ \A k \in Len(answers) + 1 .. Len(asked) : \A p \in 1 .. 3 :
             stream[3 * (k - Len(answers) - 1) + p] = <<asked[k], p>>
    BY DEF HttpIInv, Uncut
  <2>1. Len(stream') = 3 * (Len(asked') - Len(answers))
    BY <1>2, <1>4, <2>0
  <2>2. ASSUME NEW k \in Len(answers) + 1 .. Len(asked'), NEW p \in 1 .. 3
        PROVE  stream'[3 * (k - Len(answers) - 1) + p] = <<asked'[k], p>>
    <3>1. CASE k <= Len(asked)
      <4>1. k \in Len(answers) + 1 .. Len(asked) /\ asked'[k] = asked[k]
        BY <1>2, <1>4, <3>1
      <4>2. 3 * (k - Len(answers) - 1) + p \in 1 .. Len(stream)
        BY <1>2, <1>4, <2>0, <4>1
      <4>3. \A i \in 1 .. Len(stream) : stream'[i] = stream[i]
        BY <1>4
      <4> QED
        BY <2>0, <4>1, <4>2, <4>3
    <3>2. CASE k = Len(asked) + 1
      <4>1. 3 * (k - Len(answers) - 1) + p = Len(stream) + p /\ asked'[k] = url
        BY <1>2, <1>4, <2>0, <3>2
      <4>2. Len(stream) + p \in 1 .. Len(stream) + 3 /\ ~ (Len(stream) + p <= Len(stream)) /\ Len(stream) + p - Len(stream) = p
        BY <1>4
      <4> QED
        BY <1>3, <1>4, <4>1, <4>2
    <3> QED
      BY <1>2, <3>1, <3>2
  <2> QED
    BY <1>1, <2>1, <2>2 DEF Uncut
<1>7. whole' => \A k \in 1 .. Len(answers) : answers'[k].body = Named(k)'
  <2> SUFFICES ASSUME whole, NEW k \in 1 .. Len(answers) PROVE answers'[k].body = Named(k)'
    BY <1>1
  <2>1. Len(stream) = 3 * (Len(asked) - Len(answers)) /\ answers[k].body = Named(k)
    BY DEF HttpIInv, Uncut
  <2>2. k \in 1 .. Len(asked)
    BY <1>2, <1>4, <2>1
  <2> QED
    BY <1>1, <1>2, <2>1, <2>2 DEF Named
<1> QED
  BY <1>1, <1>5, <1>6, <1>7 DEF HttpIInv

\* A read is answered, and when all reads returned one request each, by what it named.
LEMMA ServiceIInv == ASSUME HttpIInv, ServiceIO PROVE HttpIInv'
<1>1. /\ asked \in Seq(Urls) /\ stream \in Seq(Bytes) /\ answers \in Seq(Response) /\ whole \in BOOLEAN
      /\ UNCHANGED <<link, asked>> /\ link \in {"off", "open", "closed"}
      /\ Len(stream) + Len(answers) <= 3 * Len(asked) /\ Len(asked) <= MaxRequests
      /\ Len(asked) \in Nat /\ Len(stream) \in Nat /\ Len(answers) \in Nat
      /\ \A i \in 1 .. Len(stream) : stream[i] \in Bytes
  BY DEF ServiceIO, HttpIInv, HttpTypeOK, Bytes
<1> DEFINE in(m) == SubSeq(stream, 1, m)
<1>2. PICK n \in 1 .. Len(stream) :
        /\ answers' = Append(answers, Get(Parse(in(n))))
        /\ stream' = SubSeq(stream, n + 1, Len(stream))
        /\ whole' = (whole /\ n = 3)
  BY DEF ServiceIO
<1>3. /\ in(n) \in Seq(Bytes) /\ Len(in(n)) = n /\ \A i \in 1 .. n : in(n)[i] = stream[i]
      /\ stream' \in Seq(Bytes) /\ Len(stream') = Len(stream) - n
      /\ \A i \in 1 .. Len(stream) - n : stream'[i] = stream[n + i]
  <2>1. 1 \in Int /\ n \in Int /\ n + 1 \in Int /\ Len(stream) \in Int /\ \A i \in 1 .. n : stream[i] \in Bytes
    BY <1>1
  <2>2. \A i \in n + 1 .. Len(stream) : stream[i] \in Bytes
    BY <1>1
  <2>3. /\ in(n) \in Seq(Bytes) /\ Len(in(n)) = IF 1 <= n THEN n - 1 + 1 ELSE 0
        /\ \A i \in 1 .. n - 1 + 1 : in(n)[i] = stream[1 + i - 1]
    BY <2>1, SubSeqProperties
  <2>4. /\ stream' \in Seq(Bytes) /\ Len(stream') = IF n + 1 <= Len(stream) THEN Len(stream) - (n + 1) + 1 ELSE 0
        /\ \A i \in 1 .. Len(stream) - (n + 1) + 1 : stream'[i] = stream[n + 1 + i - 1]
    BY <1>2, <2>1, <2>2, SubSeqProperties
  <2> HIDE DEF in
  <2>5. Len(in(n)) = n /\ Len(stream') = Len(stream) - n
    BY <1>1, <2>3, <2>4
  <2>6. \A i \in 1 .. n : in(n)[i] = stream[i]
    BY <1>1, <2>3
  <2>7. \A i \in 1 .. Len(stream) - n : stream'[i] = stream[n + i]
    <3> SUFFICES ASSUME NEW i \in 1 .. Len(stream) - n PROVE stream'[i] = stream[n + i]
      OBVIOUS
    <3>1. i \in 1 .. Len(stream) - (n + 1) + 1 /\ n + 1 + i - 1 = n + i
      BY <1>1
    <3>2. stream'[i] = stream[n + 1 + i - 1]
      BY <2>4, <3>1
    <3> QED
      BY <3>1, <3>2
  <2> QED
    BY <2>3, <2>4, <2>5, <2>6, <2>7
<1> DEFINE url == Parse(in(n))
<1>4. url \in Urls /\ \A u \in Urls : n = 3 /\ (\A p \in 1 .. 3 : stream[p] = <<u, p>>) => url = u
  <2> HIDE DEF in
  <2>1. in(n) # <<>>
    <3>1. Len(<<>>) = 0 /\ Len(in(n)) # 0
      BY <1>1, <1>3
    <3> QED
      BY <3>1
  <2>2. \A u \in Urls : Len(in(n)) = 3 /\ (\A p \in 1 .. 3 : in(n)[p] = <<u, p>>) => url = u
    BY <1>3, <2>1, ParseNames
  <2>3. url \in Urls
    BY <1>3, <2>1, ParseNames
  <2>4. n = 3 => \A p \in 1 .. 3 : in(n)[p] = stream[p]
    BY <1>3
  <2> HIDE DEF url
  <2> QED
    BY <1>3, <2>2, <2>3, <2>4
<1>5. answers' = Append(answers, Get(url))
  BY <1>2
<1> HIDE DEF url, in
<1>6. /\ Get(url) \in Response /\ Get(url).length = Len(Get(url).body)
      /\ Get(url).body = File[IF url = "missing" THEN "notfound" ELSE url]
  BY <1>4, GetAnswers
<1>7. /\ answers' \in Seq(Response) /\ Len(answers') = Len(answers) + 1
      /\ answers'[Len(answers) + 1] = Get(url) /\ \A k \in 1 .. Len(answers) : answers'[k] = answers[k]
  BY <1>1, <1>5, <1>6
<1>8. HttpTypeOK'
  <2>1. whole' \in BOOLEAN
    BY <1>1, <1>2, Zenon
  <2>2. Len(stream') + Len(answers') <= 3 * Len(asked)
    BY <1>1, <1>3, <1>7
  <2> QED
    BY <1>1, <1>3, <2>1, <2>2 DEF HttpTypeOK, Bytes
<1>9. \A k \in 1 .. Len(answers') : answers'[k].length = Len(answers'[k].body)
  <2>1. \A k \in 1 .. Len(answers) : answers[k].length = Len(answers[k].body)
    BY DEF HttpIInv
  <2>2. ASSUME NEW k \in 1 .. Len(answers') PROVE answers'[k].length = Len(answers'[k].body)
    <3>1. CASE k = Len(answers) + 1
      BY <1>6, <1>7, <3>1
    <3>2. CASE k # Len(answers) + 1
      <4>1. k \in 1 .. Len(answers)
        BY <1>1, <1>7, <3>2
      <4> QED
        BY <1>7, <2>1, <4>1
    <3> QED
      BY <3>1, <3>2
  <2> QED
    BY <2>2
<1>10. whole' => Uncut' /\ \A k \in 1 .. Len(answers') : answers'[k].body = Named(k)'
  <2> SUFFICES ASSUME whole, n = 3 PROVE Uncut' /\ \A k \in 1 .. Len(answers') : answers'[k].body = Named(k)'
    BY <1>2
  <2>1. /\ Len(stream) = 3 * (Len(asked) - Len(answers))
        /\ \A k \in Len(answers) + 1 .. Len(asked) : \A p \in 1 .. 3 :
             stream[3 * (k - Len(answers) - 1) + p] = <<asked[k], p>>
        /\ \A k \in 1 .. Len(answers) : answers[k].body = Named(k)
    BY DEF HttpIInv, Uncut
  <2>2. Len(answers) + 1 \in Len(answers) + 1 .. Len(asked)
    BY <1>1, <2>1
  <2>3. asked[Len(answers) + 1] \in Urls
    BY <1>1, <2>2
  <2>4. \A p \in 1 .. 3 : stream[p] = <<asked[Len(answers) + 1], p>>
    <3>1. \A p \in 1 .. 3 : stream[3 * (Len(answers) + 1 - Len(answers) - 1) + p] = <<asked[Len(answers) + 1], p>>
      BY <2>1, <2>2
    <3>2. \A p \in 1 .. 3 : 3 * (Len(answers) + 1 - Len(answers) - 1) + p = p
      BY <1>1
    <3> QED
      BY <3>1, <3>2
  <2>5. url = asked[Len(answers) + 1]
    BY <1>4, <2>3, <2>4
  <2>6. \A k : Named(k)' = Named(k)
    BY <1>1 DEF Named
  <2>7. \A k \in 1 .. Len(answers') : answers'[k].body = Named(k)'
    BY <1>1, <1>6, <1>7, <2>1, <2>5, <2>6, SMTT(30) DEF Named
  <2>8. Len(stream') = 3 * (Len(asked') - Len(answers'))
    BY <1>1, <1>3, <1>7, <2>1
  <2>9. ASSUME NEW k \in Len(answers') + 1 .. Len(asked), NEW p \in 1 .. 3
        PROVE  stream'[3 * (k - Len(answers') - 1) + p] = <<asked[k], p>>
    <3>1. k \in Len(answers) + 1 .. Len(asked) /\ Len(answers') = Len(answers) + 1
      BY <1>1, <1>7
    <3>2. stream[3 * (k - Len(answers) - 1) + p] = <<asked[k], p>>
      BY <2>1, <3>1
    <3>3. 3 * (k - Len(answers') - 1) + p \in 1 .. Len(stream) - 3
      BY <1>1, <2>1, <3>1
    <3>4. 3 + (3 * (k - Len(answers') - 1) + p) = 3 * (k - Len(answers) - 1) + p
      BY <1>1, <3>1
    <3> QED
      BY <1>3, <3>2, <3>3, <3>4
  <2> QED
    BY <1>1, <2>7, <2>8, <2>9 DEF Uncut
<1> QED
  BY <1>7, <1>8, <1>9, <1>10 DEF HttpIInv

\* The page server answers each request that is not cut with the file it names, and says
\* the length of every answer, for any number of requests.
THEOREM HttpSafety == HttpSpec => []HttpSafe
<1>1. HttpIInv /\ [HttpNext]_httpVars => HttpIInv'
  <2> SUFFICES ASSUME HttpIInv, [HttpNext]_httpVars PROVE HttpIInv'
    OBVIOUS
  <2>1. CASE ServiceIO
    BY <2>1, ServiceIInv
  <2>2. ASSUME NEW url \in Urls, HttpAsk(url) PROVE HttpIInv'
    BY <2>2, AskIInv
  <2>3. CASE HttpConnect \/ HttpQuit \/ UNCHANGED httpVars
    <3>1. UNCHANGED <<asked, stream, whole, answers>> /\ link' \in {link, "open", "closed"}
      BY <2>3 DEF HttpConnect, HttpQuit, httpVars
    <3>2. HttpTypeOK'
      BY <3>1 DEF HttpIInv, HttpTypeOK
    <3>3. (Uncut' <=> Uncut) /\ \A k : Named(k)' = Named(k)
      BY <3>1 DEF Uncut, Named
    <3> QED
      BY <3>1, <3>2, <3>3 DEF HttpIInv
  <2> QED
    BY <2>1, <2>2, <2>3 DEF HttpNext
<1>2. HttpIInv => HttpSafe
  <2> SUFFICES ASSUME HttpIInv PROVE AnswersEachRequest
    BY DEF HttpIInv, HttpSafe
  <2>1. DOMAIN answers = 1 .. Len(answers)
    BY LenProperties DEF HttpIInv
  <2> QED
    BY <2>1 DEF HttpIInv, AnswersEachRequest, Named
<1> QED
  BY <1>1, <1>2, HttpInitIInv, PTL DEF HttpSpec

-------------------------------------------------------------------------------
(* The UDP services. *)

Numbered(n) == [to : Clients, from : Clients, k : 1 .. n, body : Bodies]
Received == [to : Clients, from : Clients, k : Nat, body : Bodies]

\* The types, and that only what was said is under way.
UdpShape == /\ UdpTypeOK /\ handled \in Seq(Clients \X Words)
            /\ \A m \in toServer : m[2] \in 1 .. Len(said[m[1]])
            /\ service = "chat" => \A c \in Clients : said[c] \in Seq(ChatWords)

\* Before a service is started nothing was said.
QuietInv == service = "off" =>
              /\ said = [c \in Clients |-> <<>>] /\ got = [c \in Clients |-> <<>>] /\ awaits = {}
              /\ toServer = {} /\ toClient = {} /\ online = {} /\ handled = <<>>

\* A user is in the room after the first a of what it said.
SaidIn(c, a) == \E i \in 1 .. a : /\ said[c][i] = "online"
                                  /\ \A j \in i + 1 .. a : said[c][j] # "offline"

\* What is under way from a user whose datagrams met no fault is the end of what it said,
\* and it is in the room as the beginning had it.
SaidInv == service = "chat" =>
             \A c \in Clients : ~ Hit(faults, Faults, c) =>
               \E a \in 0 .. Len(said[c]) :
                 /\ \A i \in 1 .. Len(said[c]) : <<c, i>> \in toServer <=> a < i
                 /\ c \in online <=> SaidIn(c, a)

\* A client that waits has its last question or the answer to it under way, or neither,
\* and one that does not has nothing.
AskOf(c) == /\ Len(said[c]) = Len(got[c]) + (IF c \in awaits THEN 1 ELSE 0)
            /\ \A m \in toServer : m[1] = c => /\ c \in awaits /\ m[2] = Len(said[c])
                                              /\ \A d \in toClient : d.to # c
            /\ \A d \in toClient : d.to = c => /\ c \in awaits
                                              /\ d.body = Answer(said[c][Len(said[c])])
            /\ \A d, e \in toClient : d.to = c /\ e.to = c => d = e
            /\ \A k \in 1 .. Len(got[c]) : got[c][k].body = Answer(said[c][k])

\* So it is for each of whose datagrams none was repeated.
AskInv == service # "chat" =>
            \A c \in Clients : ~ Hit(faults, {"repeated"}, c) => AskOf(c)

UdpIInv == UdpShape /\ QuietInv /\ OnlyTheRoomHears /\ SaidInv /\ AskInv

\* A fault more, of one client.
LEMMA FaultsGrow ==
  ASSUME NEW q \in Seq(Faults \X Clients), NEW f \in Faults, NEW c \in Clients
  PROVE  /\ Append(q, <<f, c>>) \in Seq(Faults \X Clients) /\ Len(Append(q, <<f, c>>)) = Len(q) + 1
         /\ \A kinds, u : Hit(q, kinds, u) => Hit(Append(q, <<f, c>>), kinds, u)
         /\ \A kinds : f \in kinds => Hit(Append(q, <<f, c>>), kinds, c)
<1> DEFINE g == <<f, c>>
           r == Append(q, g)
<1>1. /\ r \in Seq(Faults \X Clients) /\ Len(r) = Len(q) + 1 /\ Len(q) \in Nat
      /\ r[Len(q) + 1] = g /\ \A i \in 1 .. Len(q) : r[i] = q[i]
  <2>1. g \in Faults \X Clients
    OBVIOUS
  <2> HIDE DEF g
  <2> QED
    BY <2>1
<1>2. g[1] = f /\ g[2] = c
  OBVIOUS
<1> HIDE DEF r, g
<1>3. DOMAIN q = 1 .. Len(q) /\ DOMAIN r = 1 .. Len(q) + 1
  BY <1>1, LenProperties
<1>4. \A kinds, u : Hit(q, kinds, u) => Hit(r, kinds, u)
  BY <1>1, <1>3 DEF Hit
<1>5. \A kinds : f \in kinds => Hit(r, kinds, c)
  <2>1. Len(q) + 1 \in DOMAIN r
    BY <1>1, <1>3
  <2> QED
    BY <1>1, <1>2, <2>1 DEF Hit
<1> QED
  BY <1>1, <1>4, <1>5 DEF r, g

\* What a step leaves alone for a client stays as it was.
LEMMA AskKept ==
  ASSUME NEW c, AskOf(c), service' = service, said'[c] = said[c], got'[c] = got[c],
         c \in awaits' <=> c \in awaits,
         \A m \in toServer' : m[1] = c => m \in toServer,
         \A d \in toClient' : d.to = c => d \in toClient
  PROVE  AskOf(c)'
<1>1. \A x : Answer(x)' = Answer(x)
  BY DEF Answer, Find, CommandOutput
<1>2. Answer(said[c][Len(said[c])])' = Answer(said[c][Len(said[c])])
  BY DEF Answer, Find, CommandOutput
<1>3. \A k \in 1 .. Len(got[c]) : Answer(said[c][k])' = Answer(said[c][k])
  BY DEF Answer, Find, CommandOutput
<1> QED
  BY <1>1, <1>2, <1>3 DEF AskOf

\* Nobody says more than all may.
LEMMA SaidBound ==
  ASSUME said \in [Clients -> Seq(Words)], NEW c \in Clients,
         Cardinality({q \in Clients \X (1 .. MaxSend) : q[2] <= Len(said[q[1]])}) < MaxSend
  PROVE  Len(said[c]) < MaxSend
<1> DEFINE all == Clients \X (1 .. MaxSend)
           mine == {q \in all : q[2] <= Len(said[q[1]])}
           own == [i \in 1 .. MaxSend |-> <<c, i>>]
<1>1. MaxSend \in Nat /\ IsFiniteSet(Clients) /\ Len(said[c]) \in Nat
  BY UdpAssumption, LenProperties DEF UdpAssumption
<1>2. IsFiniteSet(1 .. MaxSend) /\ Cardinality(1 .. MaxSend) = MaxSend
  <2>1. 1 \in Int /\ MaxSend \in Int
    BY <1>1
  <2>2. /\ IsFiniteSet(1 .. MaxSend)
        /\ Cardinality(1 .. MaxSend) = IF 1 > MaxSend THEN 0 ELSE MaxSend - 1 + 1
    BY <2>1, FS_Interval
  <2> QED
    BY <1>1, <2>2
<1>3. IsFiniteSet(mine) /\ Cardinality(mine) \in Nat
  <2>1. IsFiniteSet(all)
    BY <1>1, <1>2, FS_Product
  <2>2. mine \in SUBSET all
    OBVIOUS
  <2> HIDE DEF mine, all
  <2>3. IsFiniteSet(mine)
    BY <2>1, <2>2, FS_Subset
  <2> QED
    BY <2>3, FS_CardinalityType
<1>4. CASE MaxSend <= Len(said[c])
  <2>1. own \in [1 .. MaxSend -> mine]
    BY <1>1, <1>4
  <2>2. \A i, j \in 1 .. MaxSend : own[i] = own[j] => i = j
    OBVIOUS
  <2> HIDE DEF own, mine
  <2>3. own \in Injection(1 .. MaxSend, mine)
    BY <2>1, <2>2 DEF Injection, IsInjective
  <2>4. MaxSend <= Cardinality(mine)
    BY <1>2, <1>3, <2>3, FS_Injection
  <2>5. Cardinality(mine) < MaxSend
    BY DEF mine
  <2> QED
    BY <1>1, <1>3, <2>4, <2>5
<1> QED
  BY <1>1, <1>4

\* The room after one datagram more.
LEMMA RoomAfter ==
  ASSUME handled \in Seq(Clients \X Words), NEW c \in Clients, NEW w \in Words,
         handled' = Append(handled, <<c, w>>), NEW z \in Nat, z = Len(handled)
  PROVE  /\ handled' \in Seq(Clients \X Words) /\ Len(handled') = z + 1
         /\ \A u \in Clients, k \in 0 .. z : InRoom(u, k)' <=> InRoom(u, k)
         /\ \A u \in Clients : InRoom(u, z + 1)' <=>
              \/ u = c /\ w = "online"
              \/ (u # c \/ w # "offline") /\ InRoom(u, z)
<1>1. /\ handled' \in Seq(Clients \X Words) /\ Len(handled') = z + 1
      /\ handled'[z + 1] = <<c, w>> /\ \A i \in 1 .. z : handled'[i] = handled[i]
  OBVIOUS
<1>3. ASSUME NEW u \in Clients, NEW k \in 0 .. z PROVE InRoom(u, k)' <=> InRoom(u, k)
  <2>1. \A i \in 1 .. k : handled'[i] = handled[i] /\ \A j \in i + 1 .. k : handled'[j] = handled[j]
    BY <1>1
  <2> QED
    BY <2>1 DEF InRoom
<1>4. ASSUME NEW u \in Clients
      PROVE  InRoom(u, z + 1)' <=> \/ u = c /\ w = "online"
                                   \/ (u # c \/ w # "offline") /\ InRoom(u, z)
  <2>1. InRoom(u, z + 1)' <=> \E i \in 1 .. z + 1 : /\ handled'[i] = <<u, "online">>
                                                    /\ \A j \in i + 1 .. z + 1 : handled'[j] # <<u, "offline">>
    BY DEF InRoom
  <2>2. InRoom(u, z) <=> \E i \in 1 .. z : /\ handled[i] = <<u, "online">>
                                           /\ \A j \in i + 1 .. z : handled[j] # <<u, "offline">>
    BY DEF InRoom
  <2>3. ASSUME u = c /\ w = "online" PROVE InRoom(u, z + 1)'
    <3>1. z + 1 \in 1 .. z + 1 /\ handled'[z + 1] = <<u, "online">> /\ \A j \in (z + 1) + 1 .. z + 1 : FALSE
      BY <1>1, <2>3
    <3> QED
      BY <2>1, <3>1
  <2>4. ASSUME u # c \/ w # "offline", InRoom(u, z) PROVE InRoom(u, z + 1)'
    <3>1. PICK i \in 1 .. z : /\ handled[i] = <<u, "online">>
                              /\ \A j \in i + 1 .. z : handled[j] # <<u, "offline">>
      BY <2>2, <2>4
    <3>2. i \in 1 .. z + 1 /\ handled'[i] = <<u, "online">>
      BY <1>1, <3>1
    <3>3. \A j \in i + 1 .. z + 1 : j = z + 1 \/ (j \in i + 1 .. z /\ handled'[j] = handled[j])
      <4>1. \A j \in i + 1 .. z + 1 : j = z + 1 \/ (j \in i + 1 .. z /\ j \in 1 .. z)
        BY <3>1
      <4> QED
        BY <1>1, <4>1
    <3>4. handled'[z + 1] # <<u, "offline">>
      BY <1>1, <2>4
    <3> QED
      BY <2>1, <3>1, <3>2, <3>3, <3>4
  <2>5. ASSUME InRoom(u, z + 1)', ~ (u = c /\ w = "online")
        PROVE  (u # c \/ w # "offline") /\ InRoom(u, z)
    <3>1. PICK i \in 1 .. z + 1 : /\ handled'[i] = <<u, "online">>
                                  /\ \A j \in i + 1 .. z + 1 : handled'[j] # <<u, "offline">>
      BY <2>1, <2>5
    <3>2. i # z + 1
      BY <1>1, <2>5, <3>1
    <3>3. i \in 1 .. z /\ z + 1 \in i + 1 .. z + 1 /\ handled[i] = <<u, "online">>
      BY <1>1, <3>1, <3>2
    <3>4. handled'[z + 1] # <<u, "offline">>
      BY <3>1, <3>3
    <3>5. \A j \in i + 1 .. z : j \in i + 1 .. z + 1 /\ handled'[j] = handled[j]
      BY <1>1, <3>3
    <3> QED
      BY <1>1, <2>2, <3>1, <3>3, <3>4, <3>5
  <2> QED
    BY <2>3, <2>4, <2>5
<1> QED
  BY <1>1, <1>3, <1>4

\* What a user has said after one thing more.
LEMMA SaidAfter ==
  ASSUME NEW c \in Clients, NEW a \in Nat
  PROVE  SaidIn(c, a + 1) <=> \/ said[c][a + 1] = "online"
                              \/ said[c][a + 1] # "offline" /\ SaidIn(c, a)
<1>1. ASSUME said[c][a + 1] = "online" PROVE SaidIn(c, a + 1)
  <2>1. a + 1 \in 1 .. a + 1 /\ \A j \in (a + 1) + 1 .. a + 1 : FALSE
    OBVIOUS
  <2> QED
    BY <1>1, <2>1 DEF SaidIn
<1>2. ASSUME said[c][a + 1] # "offline", SaidIn(c, a) PROVE SaidIn(c, a + 1)
  <2>1. PICK i \in 1 .. a : said[c][i] = "online" /\ \A j \in i + 1 .. a : said[c][j] # "offline"
    BY <1>2 DEF SaidIn
  <2>2. i \in 1 .. a + 1 /\ \A j \in i + 1 .. a + 1 : j = a + 1 \/ j \in i + 1 .. a
    OBVIOUS
  <2> QED
    BY <1>2, <2>1, <2>2 DEF SaidIn
<1>3. ASSUME SaidIn(c, a + 1), said[c][a + 1] # "online" PROVE said[c][a + 1] # "offline" /\ SaidIn(c, a)
  <2>1. PICK i \in 1 .. a + 1 : said[c][i] = "online" /\ \A j \in i + 1 .. a + 1 : said[c][j] # "offline"
    BY <1>3 DEF SaidIn
  <2>2. i \in 1 .. a /\ a + 1 \in i + 1 .. a + 1 /\ \A j \in i + 1 .. a : j \in i + 1 .. a + 1
    BY <1>3, <2>1
  <2> QED
    BY <2>1, <2>2 DEF SaidIn
<1> QED
  BY <1>1, <1>2, <1>3

\* What the network hands the server.
LEMMA Arrived ==
  ASSUME UdpIInv, NEW m \in toServer, Arrives(m), NEW z \in Nat, z = Len(handled), UNCHANGED <<said, got, service>>
  PROVE  /\ m[1] \in Clients /\ m[2] \in 1 .. Len(said[m[1]]) /\ m = <<m[1], m[2]>> /\ m[2] \in Nat
         /\ said[m[1]][m[2]] \in Words /\ (service = "chat" => said[m[1]][m[2]] \in ChatWords)
         /\ service # "off" /\ faults' \in Seq(Faults \X Clients) /\ Len(faults') <= MaxFaults
         /\ toServer' \in {toServer, toServer \ {m}}
         /\ handled' = Append(handled, <<m[1], said[m[1]][m[2]]>>)
         /\ \A kinds, u : Hit(faults, kinds, u) => Hit(faults', kinds, u)
         /\ ~ Hit(faults', Faults, m[1]) => /\ toServer' = toServer \ {m}
                                            /\ \A e \in toServer : e[1] = m[1] => ~ (e[2] < m[2])
         /\ ~ Hit(faults', {"repeated"}, m[1]) => toServer' = toServer \ {m}
<1>0. /\ faults \in Seq(Faults \X Clients) /\ toServer \subseteq Clients \X (1 .. MaxSend) /\ m[2] \in 1 .. Len(said[m[1]])
      /\ said \in [Clients -> Seq(Words)] /\ (service = "chat" => \A c \in Clients : said[c] \in Seq(ChatWords))
      /\ MaxSend \in Nat
  BY UdpAssumption DEF UdpIInv, UdpShape, UdpTypeOK, UdpAssumption
<1>1. m[1] \in Clients /\ m = <<m[1], m[2]>> /\ m[2] \in Nat
  BY <1>0
<1>2. said[m[1]][m[2]] \in Words /\ (service = "chat" => said[m[1]][m[2]] \in ChatWords)
  <2>1. said[m[1]] \in Seq(Words) /\ (service = "chat" => said[m[1]] \in Seq(ChatWords))
    BY <1>0, <1>1
  <2> QED
    BY <1>0, <2>1
<1>3. service # "off"
  BY DEF UdpIInv, QuietInv
<1> DEFINE late == \E e \in toServer : e[1] = m[1] /\ e[2] < m[2]
           f == IF late THEN Append(faults, <<"overtaken", m[1]>>) ELSE faults
<1>4. /\ Len(faults') <= MaxFaults /\ handled' = Append(handled, <<m[1], said[m[1]][m[2]]>>)
      /\ \/ faults' = f /\ toServer' = toServer \ {m}
         \/ faults' = Append(f, <<"repeated", m[1]>>) /\ toServer' = toServer
  BY DEF Arrives
<1>5. /\ f \in Seq(Faults \X Clients) /\ (\A kinds, u : Hit(faults, kinds, u) => Hit(f, kinds, u))
      /\ late => Hit(f, Faults, m[1])
  <2>1. "overtaken" \in Faults
    BY DEF Faults
  <2>2. CASE late
    BY <1>0, <1>1, <2>1, <2>2, FaultsGrow
  <2>3. CASE ~ late
    BY <1>0, <2>3
  <2> QED
    BY <2>2, <2>3
<1>8. ~ late => \A e \in toServer : e[1] = m[1] => ~ (e[2] < m[2])
  OBVIOUS
<1> HIDE DEF f, late
<1>6. CASE faults' = f /\ toServer' = toServer \ {m}
  BY <1>0, <1>1, <1>2, <1>3, <1>4, <1>5, <1>6, <1>8
<1>7. CASE faults' = Append(f, <<"repeated", m[1]>>) /\ toServer' = toServer
  <2>1. "repeated" \in Faults /\ "repeated" \in {"repeated"}
    BY DEF Faults
  <2>2. /\ faults' \in Seq(Faults \X Clients) /\ (\A kinds, u : Hit(f, kinds, u) => Hit(faults', kinds, u))
        /\ Hit(faults', Faults, m[1]) /\ Hit(faults', {"repeated"}, m[1])
    BY <1>1, <1>5, <1>7, <2>1, FaultsGrow
  <2> QED
    BY <1>0, <1>1, <1>2, <1>3, <1>4, <1>5, <1>7, <2>2
<1> QED
  BY <1>4, <1>6, <1>7

\* The chat room's answer to a datagram: what it does to the room, and to whom it sends.
LEMMA RoomServes ==
  ASSUME NEW c \in Clients, NEW w \in ChatWords, ShellServer(c, w)
  PROVE  \/ w = "offline" /\ online' = online \ {c} /\ toClient' = toClient
         \/ /\ w # "offline" /\ c \in online /\ online' = online
            /\ toClient' = toClient \cup Datagrams(online, c, w)
         \/ w = "online" /\ c \notin online /\ online' = online \cup {c} /\ toClient' = toClient
         \/ /\ w = "text" /\ c \notin online /\ online' = online
            /\ toClient' = toClient \cup Datagrams({c}, c, "hint")
<1>1. CASE w = "offline"
  BY <1>1 DEF ShellServer
<1>2. CASE w # "offline" /\ c \in online
  BY <1>2 DEF ShellServer
<1>3. CASE w = "online" /\ c \notin online
  BY <1>3 DEF ShellServer
<1>4. CASE w = "text" /\ c \notin online
  BY <1>4 DEF ShellServer
<1> QED
  BY <1>1, <1>2, <1>3, <1>4 DEF ChatWords

\* A datagram changes the room as it says, and what is sent on account of it comes from
\* the room and goes to the room, or is a hint for somebody outside.
LEMMA ChatIInv == ASSUME UdpIInv, NEW m \in toServer, Chat(m) PROVE UdpIInv'
<1> DEFINE c == m[1]
           w == said[m[1]][m[2]]
<1>0. /\ UdpShape /\ UdpTypeOK /\ OnlyTheRoomHears /\ SaidInv /\ handled \in Seq(Clients \X Words)
      /\ Len(handled) \in Nat
  BY LenProperties DEF UdpIInv, UdpShape
<1>1. /\ service = "chat" /\ Arrives(m) /\ UNCHANGED <<service, said, awaits, got>>
      /\ \/ ShellServer(c, w) /\ server' = server
         \/ SendFails(c, w)
  BY DEF Chat
<1>2. PICK z \in Nat : z = Len(handled)
  BY <1>0
<1>3. /\ c \in Clients /\ m[2] \in 1 .. Len(said[c]) /\ m = <<c, m[2]>> /\ m[2] \in Nat /\ w \in Words /\ w \in ChatWords
      /\ faults' \in Seq(Faults \X Clients) /\ Len(faults') <= MaxFaults
      /\ toServer' \in {toServer, toServer \ {m}} /\ handled' = Append(handled, <<c, w>>)
      /\ \A kinds, u : Hit(faults, kinds, u) => Hit(faults', kinds, u)
      /\ ~ Hit(faults', Faults, c) => /\ toServer' = toServer \ {m}
                                      /\ \A e \in toServer : e[1] = m[1] => ~ (e[2] < m[2])
  BY <1>1, <1>2, Arrived
<1> HIDE DEF c, w
<1>4. /\ handled' \in Seq(Clients \X Words) /\ Len(handled') = z + 1
      /\ \A u \in Clients, k \in 0 .. z : InRoom(u, k)' <=> InRoom(u, k)
      /\ \A u \in Clients : InRoom(u, z + 1)' <=> \/ u = c /\ w = "online"
                                                  \/ (u # c \/ w # "offline") /\ InRoom(u, z)
  BY <1>0, <1>2, <1>3, RoomAfter
<1>5. \A u \in Clients : u \in online <=> InRoom(u, z)
  BY <1>0, <1>1, <1>2 DEF OnlyTheRoomHears
<1>6. /\ online' \subseteq Clients
      /\ \A u \in Clients : u \in online' <=> \/ u = c /\ w = "online"
                                              \/ (u # c \/ w # "offline") /\ u \in online
      /\ \A d \in toClient' : \/ d \in toClient
                              \/ /\ d \in Numbered(z + 1) /\ d.k = z + 1 /\ d.to \in online /\ d.from = c /\ c \in online
                                 /\ d.body # "hint"
                              \/ /\ d \in Numbered(z + 1) /\ d.k = z + 1 /\ d.to = c /\ d.from = c /\ c \notin online
                                 /\ d.body = "hint"
  <2>0. online \subseteq Clients /\ ChatWords \subseteq Bodies /\ "hint" \in Bodies /\ "hint" \notin ChatWords
    BY <1>0 DEF UdpTypeOK, Bodies, ChatWords
  <2>1. ASSUME NEW some \in SUBSET online, NEW x \in ChatWords, c \in online, NEW d \in Datagrams(some, c, x)
        PROVE  d \in Numbered(z + 1) /\ d.k = z + 1 /\ d.to \in online /\ d.from = c /\ d.body # "hint"
    BY <1>2, <1>3, <2>0, <2>1 DEF Datagrams, Numbered
  <2>2. ASSUME NEW d \in Datagrams({c}, c, "hint")
        PROVE  d \in Numbered(z + 1) /\ d.k = z + 1 /\ d.to = c /\ d.from = c /\ d.body = "hint"
    BY <1>2, <1>3, <2>0, <2>2 DEF Datagrams, Numbered
  <2>3. CASE w = "offline" /\ online' = online \ {c} /\ toClient' = toClient
    BY <2>0, <2>3
  <2>4. CASE /\ w # "offline" /\ c \in online /\ online' = online
             /\ toClient' = toClient \cup Datagrams(online, c, w)
    BY <1>3, <2>0, <2>1, <2>4
  <2>5. CASE w = "online" /\ c \notin online /\ online' = online \cup {c} /\ toClient' = toClient
    BY <1>3, <2>0, <2>5
  <2>6. CASE /\ w = "text" /\ c \notin online /\ online' = online
             /\ toClient' = toClient \cup Datagrams({c}, c, "hint")
    BY <2>0, <2>2, <2>6
  <2>7. CASE SendFails(c, w)
    <3>1. /\ w # "offline" /\ online' = online
          /\ \/ c \in online /\ \E some \in SUBSET online : toClient' = toClient \cup Datagrams(some, c, w)
             \/ c \notin online /\ w = "text" /\ toClient' = toClient
      BY <2>7 DEF SendFails
    <3>2. CASE c \in online
      <4>1. PICK some \in SUBSET online : toClient' = toClient \cup Datagrams(some, c, w)
        BY <3>1, <3>2
      <4>2. \A d \in toClient' : d \in toClient \/ d \in Datagrams(some, c, w)
        BY <4>1
      <4> QED
        BY <1>3, <2>0, <2>1, <3>1, <3>2, <4>2
    <3>3. CASE c \notin online
      BY <2>0, <3>1, <3>3
    <3> QED
      BY <3>2, <3>3
  <2> QED
    BY <1>1, <1>3, <2>3, <2>4, <2>5, <2>6, <2>7, RoomServes
<1>7. UdpShape'
  <2>1. toClient' \subseteq Numbered(Len(handled'))
    <3>1. toClient \subseteq Numbered(z)
      BY <1>0, <1>2 DEF UdpTypeOK, Numbered
    <3>2. Numbered(z) \subseteq Numbered(z + 1)
      BY <1>2 DEF Numbered
    <3> QED
      BY <1>4, <1>6, <3>1, <3>2
  <2>2. server' \in {"recv", "busy", "exited", "crashed"}
    BY <1>0, <1>1 DEF UdpTypeOK, SendFails
  <2>3. UdpTypeOK'
    BY <1>0, <1>1, <1>3, <1>6, <2>1, <2>2 DEF UdpTypeOK, Numbered
  <2> QED
    BY <1>0, <1>1, <1>3, <1>4, <2>3 DEF UdpShape
<1>8. OnlyTheRoomHears'
  <2>1. online' = {u \in Clients : InRoom(u, z + 1)'}
    BY <1>4, <1>5, <1>6
  <2>2. ASSUME NEW d \in toClient'
        PROVE  IF d.body = "hint" THEN d.to = d.from /\ ~ InRoom(d.to, d.k - 1)'
               ELSE InRoom(d.to, d.k - 1)' /\ InRoom(d.from, d.k - 1)'
    <3>1. CASE d \in toClient
      <4>1. d.to \in Clients /\ d.from \in Clients /\ d.k - 1 \in 0 .. z
        <5>1. d.to \in Clients /\ d.from \in Clients /\ d.k \in 1 .. Len(handled)
          BY <1>0, <3>1 DEF UdpTypeOK
        <5> QED
          BY <1>2, <5>1
      <4>2. IF d.body = "hint" THEN d.to = d.from /\ ~ InRoom(d.to, d.k - 1)
            ELSE InRoom(d.to, d.k - 1) /\ InRoom(d.from, d.k - 1)
        BY <1>0, <1>1, <3>1 DEF OnlyTheRoomHears
      <4> QED
        BY <1>4, <4>1, <4>2
    <3>2. CASE d \notin toClient
      <4>1. /\ d.k = z + 1
            /\ \/ d.to \in online /\ d.from = c /\ c \in online /\ d.body # "hint"
               \/ d.to = c /\ d.from = c /\ c \notin online /\ d.body = "hint"
        BY <1>6, <3>2
      <4>2. d.k - 1 = z /\ online \subseteq Clients
        BY <1>0, <1>2, <4>1 DEF UdpTypeOK
      <4>3. \A u \in Clients : InRoom(u, d.k - 1)' <=> u \in online
        BY <1>4, <1>5, <4>2
      <4> QED
        BY <1>3, <4>1, <4>2, <4>3
    <3> QED
      BY <3>1, <3>2
  <2> QED
    BY <1>1, <1>4, <2>1, <2>2 DEF OnlyTheRoomHears
<1>9. SaidInv'
  <2> SUFFICES ASSUME NEW u \in Clients, ~ Hit(faults', Faults, u)
               PROVE  \E a \in 0 .. Len(said[u]) :
                        /\ \A i \in 1 .. Len(said[u]) : <<u, i>> \in toServer' <=> a < i
                        /\ u \in online' <=> SaidIn(u, a)
    BY <1>1 DEF SaidInv, SaidIn
  <2>1. PICK a \in 0 .. Len(said[u]) : /\ \A i \in 1 .. Len(said[u]) : <<u, i>> \in toServer <=> a < i
                                       /\ u \in online <=> SaidIn(u, a)
    BY <1>1, <1>3 DEF UdpIInv, SaidInv
  <2>2. Len(said[u]) \in Nat
    <3>1. said[u] \in Seq(Words)
      BY <1>0 DEF UdpTypeOK
    <3> QED
      BY <3>1, LenProperties
  <2>3. CASE u = c
    <3>1. m[2] = a + 1
      <4>1. a < m[2]
        BY <1>3, <2>1, <2>3
      <4>2. a + 1 \in 1 .. Len(said[u]) /\ <<u, a + 1>> \in toServer
        BY <1>3, <2>1, <2>2, <2>3, <4>1
      <4>3. ~ (a + 1 < m[2])
        <5>1. \A e \in toServer : e[1] = m[1] => ~ (e[2] < m[2])
          BY <1>3, <2>3
        <5>2. <<u, a + 1>>[1] = m[1] /\ <<u, a + 1>>[2] = a + 1
          BY <2>3 DEF c
        <5> QED
          BY <4>2, <5>1, <5>2
      <4> QED
        BY <1>3, <2>1, <4>1, <4>3
    <3>2. a + 1 \in 0 .. Len(said[u]) /\ w = said[u][a + 1]
      BY <1>3, <2>3, <3>1 DEF w, c
    <3>3. \A i \in 1 .. Len(said[u]) : <<u, i>> \in toServer' <=> a + 1 < i
      <4>1. toServer' = toServer \ {m} /\ m = <<u, a + 1>>
        BY <1>3, <2>3, <3>1
      <4>2. \A i : <<u, i>> \in toServer' <=> <<u, i>> \in toServer /\ i # a + 1
        BY <4>1
      <4> QED
        BY <2>1, <2>2, <4>2
    <3>4. u \in online' <=> SaidIn(u, a + 1)
      <4>1. a \in Nat
        BY <2>1
      <4> QED
        BY <1>6, <2>1, <2>3, <3>2, <4>1, SaidAfter
    <3> QED
      BY <3>2, <3>3, <3>4
  <2>4. CASE u # c
    <3>1. \A i \in 1 .. Len(said[u]) : <<u, i>> \in toServer' <=> a < i
      BY <1>3, <2>1, <2>4
    <3>2. u \in online' <=> SaidIn(u, a)
      BY <1>6, <2>1, <2>4
    <3> QED
      BY <3>1, <3>2
  <2> QED
    BY <2>3, <2>4
<1>10. QuietInv' /\ AskInv'
  BY <1>1 DEF QuietInv, AskInv
<1> QED
  BY <1>7, <1>8, <1>9, <1>10 DEF UdpIInv

\* An answer of the dictionary or the shell goes to the client that asked, for its last
\* question if nothing was repeated.
LEMMA ServeIInv == ASSUME UdpIInv, NEW m \in toServer, Serve(m) PROVE UdpIInv'
<1> DEFINE c == m[1]
           w == said[m[1]][m[2]]
<1>0. /\ UdpShape /\ UdpTypeOK /\ AskInv /\ handled \in Seq(Clients \X Words) /\ Len(handled) \in Nat
  BY LenProperties DEF UdpIInv, UdpShape
<1>1. /\ service \in {"dict", "shell"} /\ Arrives(m) /\ UNCHANGED <<service, said, awaits, got, online>>
      /\ server' \in {server, "exited", "busy", "crashed"}
      /\ toClient' = toClient \/ toClient' = toClient \cup Datagrams({c}, c, Answer(w))
  BY DEF Serve
<1>2. PICK z \in Nat : z = Len(handled)
  BY <1>0
<1>3. /\ c \in Clients /\ m[2] \in 1 .. Len(said[c]) /\ w \in Words
      /\ faults' \in Seq(Faults \X Clients) /\ Len(faults') <= MaxFaults
      /\ toServer' \in {toServer, toServer \ {m}} /\ handled' = Append(handled, <<c, w>>)
      /\ \A kinds, u : Hit(faults, kinds, u) => Hit(faults', kinds, u)
      /\ ~ Hit(faults', {"repeated"}, c) => toServer' = toServer \ {m}
  BY <1>1, <1>2, Arrived
<1>4. w = said[c][m[2]]
  OBVIOUS
<1> HIDE DEF c, w
<1>5. handled' \in Seq(Clients \X Words) /\ Len(handled') = z + 1
  BY <1>0, <1>2, <1>3, RoomAfter
<1>6. \A d \in toClient' : d \in toClient \/ (d \in Numbered(z + 1) /\ d.to = c /\ d.body = Answer(w))
  <2>1. Answer(w) \in Bodies
    BY DEF Answer, Find, CommandOutput, Bodies
  <2>2. \A d \in Datagrams({c}, c, Answer(w)) : d \in Numbered(z + 1) /\ d.to = c /\ d.body = Answer(w)
    BY <1>2, <1>3, <2>1 DEF Datagrams, Numbered
  <2> QED
    BY <1>1, <2>2
<1>7. UdpShape'
  <2>1. toClient' \subseteq Numbered(Len(handled'))
    <3>1. toClient \subseteq Numbered(z)
      BY <1>0, <1>2 DEF UdpTypeOK, Numbered
    <3>2. Numbered(z) \subseteq Numbered(z + 1)
      BY <1>2 DEF Numbered
    <3> QED
      BY <1>5, <1>6, <3>1, <3>2
  <2>2. server' \in {"recv", "busy", "exited", "crashed"}
    BY <1>0, <1>1 DEF UdpTypeOK
  <2>3. UdpTypeOK'
    BY <1>0, <1>1, <1>3, <2>1, <2>2 DEF UdpTypeOK, Numbered
  <2> QED
    BY <1>0, <1>1, <1>3, <1>5, <2>3 DEF UdpShape
<1>8. AskInv'
  <2> SUFFICES ASSUME NEW u \in Clients, ~ Hit(faults', {"repeated"}, u) PROVE AskOf(u)'
    BY <1>1 DEF AskInv
  <2>1. AskOf(u)
    BY <1>0, <1>1, <1>3 DEF AskInv
  <2>2. CASE u # c
    <3>1. \A d \in toClient' : d.to = u => d \in toClient
      BY <1>6, <2>2
    <3>2. \A e \in toServer' : e \in toServer
      BY <1>3
    <3> QED
      BY <1>1, <2>1, <3>1, <3>2, AskKept
  <2>3. CASE u = c
    <3>1. toServer' = toServer \ {m} /\ toServer \subseteq Clients \X (1 .. MaxSend)
      BY <1>0, <1>3, <2>3 DEF UdpTypeOK
    <3>2. c \in awaits /\ m[2] = Len(said[c]) /\ \A d \in toClient : d.to # c
      BY <2>1, <2>3 DEF AskOf, c
    <3>3. \A e \in toServer' : e[1] # c
      <4>1. \A e \in toServer : e = <<e[1], e[2]>>
        BY <3>1
      <4> QED
        BY <2>1, <2>3, <3>1, <3>2, <4>1 DEF AskOf, c
    <3>4. \A d \in toClient' : d \in toClient \/ d = [to |-> c, from |-> c, k |-> z + 1, body |-> Answer(w)]
      BY <1>1, <1>2 DEF Datagrams
    <3>5. \A d \in toClient' : d.to = c => d.body = Answer(said[c][Len(said[c])])
      BY <1>4, <1>6, <3>2
    <3>6. \A d, e \in toClient' : d.to = c /\ e.to = c => d = e
      BY <3>2, <3>4
    <3>7. \A x : Answer(x)' = Answer(x)
      BY <1>1 DEF Answer, Find, CommandOutput
    <3>8. UNCHANGED <<said, got, awaits>>
      BY <1>1
    <3> QED
      BY <2>1, <2>3, <3>2, <3>3, <3>5, <3>6, <3>7, <3>8 DEF AskOf
  <2> QED
    BY <2>2, <2>3
<1>9. QuietInv' /\ OnlyTheRoomHears' /\ SaidInv'
  BY <1>1 DEF QuietInv, OnlyTheRoomHears, SaidInv
<1> QED
  BY <1>7, <1>8, <1>9 DEF UdpIInv

\* A client takes a datagram; an answer is to its last question.
LEMMA HearIInv == ASSUME UdpIInv, NEW c \in Clients, NEW d \in toClient, Hear(c, d) PROVE UdpIInv'
<1>0. /\ UdpShape /\ UdpTypeOK /\ OnlyTheRoomHears /\ SaidInv /\ AskInv /\ faults \in Seq(Faults \X Clients)
      /\ toClient \subseteq Received
  <2>1. toClient \subseteq Numbered(Len(handled)) /\ handled \in Seq(Clients \X Words)
    BY DEF UdpIInv, UdpShape, UdpTypeOK, Numbered
  <2>2. PICK z \in Nat : z = Len(handled)
    BY <2>1, LenProperties
  <2>3. Numbered(z) \subseteq Received
    BY DEF Numbered, Received
  <2>4. toClient \subseteq Received
    BY <2>1, <2>2, <2>3
  <2> QED
    BY <2>4 DEF UdpIInv, UdpShape, UdpTypeOK
<1>1. /\ d.to = c /\ (service # "chat" => c \in awaits) /\ awaits' = awaits \ {c}
      /\ got' = IF service = "chat" THEN got ELSE [got EXCEPT ![c] = Append(got[c], d)]
      /\ \/ toClient' = toClient \ {d} /\ faults' = faults
         \/ /\ Len(faults) < MaxFaults /\ service # "chat"
            /\ faults' = Append(faults, <<"repeated", c>>) /\ toClient' = toClient
      /\ UNCHANGED <<service, server, said, toServer, online, handled>>
  BY DEF Hear
<1>2. /\ faults' \in Seq(Faults \X Clients) /\ Len(faults') <= MaxFaults /\ toClient' \subseteq toClient
      /\ \A kinds, u : Hit(faults, kinds, u) => Hit(faults', kinds, u)
      /\ ~ Hit(faults', {"repeated"}, c) => toClient' = toClient \ {d}
      /\ service = "chat" => faults' = faults
  <2>1. CASE toClient' = toClient \ {d} /\ faults' = faults
    BY <1>0, <2>1 DEF UdpTypeOK
  <2>2. CASE /\ Len(faults) < MaxFaults /\ service # "chat"
             /\ faults' = Append(faults, <<"repeated", c>>) /\ toClient' = toClient
    <3>1. "repeated" \in Faults /\ "repeated" \in {"repeated"} /\ MaxFaults \in Nat
      BY UdpAssumption DEF Faults, UdpAssumption
    <3>2. /\ faults' \in Seq(Faults \X Clients) /\ Len(faults') = Len(faults) + 1
          /\ Hit(faults', {"repeated"}, c) /\ \A kinds, u : Hit(faults, kinds, u) => Hit(faults', kinds, u)
      BY <1>0, <2>2, <3>1, FaultsGrow
    <3>3. Len(faults) \in Nat
      BY <1>0, LenProperties
    <3>4. Len(faults') <= MaxFaults
      BY <2>2, <3>1, <3>2, <3>3
    <3> QED
      BY <2>2, <3>2, <3>4, Zenon
  <2> QED
    BY <1>1, <2>1, <2>2
<1>3. service # "chat" =>
        /\ got' \in [Clients -> Seq(Received)] /\ Len(got'[c]) = Len(got[c]) + 1 /\ Len(got[c]) \in Nat
        /\ got'[c][Len(got[c]) + 1] = d /\ (\A k \in 1 .. Len(got[c]) : got'[c][k] = got[c][k])
        /\ \A u \in Clients \ {c} : got'[u] = got[u]
  <2> SUFFICES ASSUME service # "chat"
               PROVE  /\ got' \in [Clients -> Seq(Received)] /\ Len(got'[c]) = Len(got[c]) + 1 /\ Len(got[c]) \in Nat
                      /\ got'[c][Len(got[c]) + 1] = d /\ (\A k \in 1 .. Len(got[c]) : got'[c][k] = got[c][k])
                      /\ \A u \in Clients \ {c} : got'[u] = got[u]
    OBVIOUS
  <2>1. got \in [Clients -> Seq(Received)] /\ d \in Received /\ got[c] \in Seq(Received)
    BY <1>0 DEF UdpTypeOK, Received
  <2>2. got'[c] = Append(got[c], d) /\ \A u \in Clients \ {c} : got'[u] = got[u]
    BY <1>1, <2>1
  <2>3. /\ Append(got[c], d) \in Seq(Received) /\ Len(Append(got[c], d)) = Len(got[c]) + 1 /\ Len(got[c]) \in Nat
        /\ Append(got[c], d)[Len(got[c]) + 1] = d /\ \A k \in 1 .. Len(got[c]) : Append(got[c], d)[k] = got[c][k]
    BY <2>1
  <2>4. got' \in [Clients -> Seq(Received)]
    BY <1>1, <2>1, <2>3
  <2> QED
    BY <2>2, <2>3, <2>4
<1>4. UdpShape'
  <2>1. awaits' \subseteq Clients /\ (service = "chat" => awaits' = {} /\ got' = got)
    BY <1>0, <1>1 DEF UdpTypeOK
  <2>2. got' \in [Clients -> Seq(Received)]
    BY <1>0, <1>3, <2>1 DEF UdpTypeOK, Received
  <2>3. UdpTypeOK'
    BY <1>0, <1>1, <1>2, <2>1, <2>2 DEF UdpTypeOK, Received
  <2> QED
    BY <1>0, <1>1, <1>2, <2>3 DEF UdpShape
<1>5. OnlyTheRoomHears'
  <2>1. \A u, k : InRoom(u, k)' <=> InRoom(u, k)
    BY <1>1 DEF InRoom
  <2>2. service = "chat" => online = {u \in Clients : InRoom(u, Len(handled))}
    BY <1>0 DEF OnlyTheRoomHears
  <2>3. service = "chat" => online' = {u \in Clients : InRoom(u, Len(handled))'}
    BY <1>1, <2>2 DEF InRoom
  <2> QED
    BY <1>0, <1>1, <1>2, <2>1, <2>3 DEF OnlyTheRoomHears
<1>6. SaidInv'
  <2>1. \A u, a : SaidIn(u, a)' <=> SaidIn(u, a)
    BY <1>1 DEF SaidIn
  <2> QED
    BY <1>0, <1>1, <1>2, <2>1 DEF SaidInv
<1>7. AskInv'
  <2> SUFFICES ASSUME service # "chat", NEW u \in Clients, ~ Hit(faults', {"repeated"}, u) PROVE AskOf(u)'
    BY <1>1 DEF AskInv
  <2>1. AskOf(u)
    BY <1>0, <1>2 DEF AskInv
  <2>2. CASE u # c
    <3>1. said'[u] = said[u] /\ got'[u] = got[u] /\ (u \in awaits' <=> u \in awaits)
      BY <1>1, <1>3, <2>2
    <3>2. toServer' = toServer /\ toClient' \subseteq toClient
      BY <1>1, <1>2
    <3> QED
      BY <1>1, <2>1, <3>1, <3>2, AskKept
  <2>3. CASE u = c
    <3>1. c \in awaits /\ c \notin awaits' /\ toClient' = toClient \ {d} /\ Len(said[c]) = Len(got[c]) + 1
      BY <1>1, <1>2, <2>1, <2>3 DEF AskOf
    <3>2. \A x \in toClient' : x.to # c
      BY <1>1, <2>1, <2>3, <3>1 DEF AskOf
    <3>3. \A e \in toServer : e[1] # c
      BY <1>1, <2>1, <2>3 DEF AskOf
    <3>4. ASSUME NEW k \in 1 .. Len(got'[c]) PROVE got'[c][k].body = Answer(said[c][k])
      <4>1. CASE k = Len(got[c]) + 1
        <5>1. got'[c][k] = d /\ k = Len(said[c])
          BY <1>3, <3>1, <4>1
        <5>2. d.body = Answer(said[c][Len(said[c])])
          BY <1>1, <2>1, <2>3 DEF AskOf
        <5> QED
          BY <5>1, <5>2
      <4>2. CASE k # Len(got[c]) + 1
        <5>1. k \in 1 .. Len(got[c]) /\ got'[c][k] = got[c][k]
          BY <1>3, <4>2
        <5> QED
          BY <2>1, <2>3, <5>1 DEF AskOf
      <4> QED
        BY <4>1, <4>2
    <3>5. \A x : Answer(x)' = Answer(x)
      BY <1>1 DEF Answer, Find, CommandOutput
    <3>6. UNCHANGED <<said, toServer>> /\ Len(said[c]) = Len(got'[c])
      BY <1>1, <1>3, <3>1
    <3>7. Len(got'[c]) \in Nat
      BY <1>3
    <3> QED
      BY <2>3, <3>1, <3>2, <3>3, <3>4, <3>5, <3>6, <3>7 DEF AskOf
  <2> QED
    BY <2>2, <2>3
<1>8. QuietInv'
  BY <1>1 DEF QuietInv, UdpIInv
<1> QED
  BY <1>4, <1>5, <1>6, <1>7, <1>8 DEF UdpIInv

\* A user says one thing more; one that asks has nothing under way.
LEMMA SayIInv == ASSUME UdpIInv, NEW c \in Clients, NEW w \in Words, Say(c, w) PROVE UdpIInv'
<1>0. /\ UdpShape /\ UdpTypeOK /\ OnlyTheRoomHears /\ SaidInv /\ AskInv /\ said \in [Clients -> Seq(Words)]
      /\ MaxSend \in Nat
  BY UdpAssumption DEF UdpIInv, UdpShape, UdpTypeOK, UdpAssumption
<1>1. /\ \/ service = "chat" /\ w \in ChatWords /\ awaits' = awaits
         \/ service \in {"dict", "shell"} /\ c \notin awaits /\ awaits' = awaits \cup {c}
      /\ said' = [said EXCEPT ![c] = Append(said[c], w)]
      /\ toServer' = toServer \cup {<<c, Len(said'[c])>>}
      /\ UNCHANGED <<service, server, got, toClient, online, handled, faults>>
  BY DEF Say
<1>2. PICK n \in Nat : n = Len(said[c])
  BY <1>0, LenProperties
<1>3. n + 1 <= MaxSend
  <2>1. Len(said[c]) < MaxSend
    BY <1>0, SaidBound DEF Say
  <2> QED
    BY <1>0, <1>2, <2>1
<1>4. /\ said' \in [Clients -> Seq(Words)] /\ Len(said'[c]) = n + 1 /\ said'[c][n + 1] = w
      /\ (\A i \in 1 .. n : said'[c][i] = said[c][i]) /\ \A u \in Clients \ {c} : said'[u] = said[u]
  <2>1. said[c] \in Seq(Words) /\ said'[c] = Append(said[c], w) /\ \A u \in Clients \ {c} : said'[u] = said[u]
    BY <1>0, <1>1
  <2>2. /\ Append(said[c], w) \in Seq(Words) /\ Len(Append(said[c], w)) = n + 1
        /\ Append(said[c], w)[n + 1] = w /\ \A i \in 1 .. n : Append(said[c], w)[i] = said[c][i]
    BY <1>2, <2>1
  <2>3. said' \in [Clients -> Seq(Words)]
    BY <1>0, <1>1, <2>2
  <2> QED
    BY <2>1, <2>2, <2>3
<1>5. toServer' = toServer \cup {<<c, n + 1>>}
  BY <1>1, <1>4
<1>6. UdpShape'
  <2>1. toServer' \subseteq Clients \X (1 .. MaxSend)
    BY <1>0, <1>3, <1>5 DEF UdpTypeOK
  <2>2. awaits' \subseteq Clients /\ (service = "chat" => awaits' = awaits)
    BY <1>0, <1>1 DEF UdpTypeOK
  <2>3. UdpTypeOK'
    BY <1>0, <1>1, <1>4, <2>1, <2>2 DEF UdpTypeOK
  <2>4. ASSUME NEW m \in toServer' PROVE m[2] \in 1 .. Len(said'[m[1]])
    <3>1. CASE m = <<c, n + 1>>
      BY <1>4, <3>1
    <3>2. CASE m \in toServer
      <4>1. m[1] \in Clients /\ m[2] \in 1 .. Len(said[m[1]])
        BY <1>0, <3>2 DEF UdpShape, UdpTypeOK
      <4>2. CASE m[1] = c
        <5>1. m[2] \in 1 .. n /\ Len(said'[m[1]]) = n + 1
          BY <1>2, <1>4, <4>1, <4>2
        <5> QED
          BY <5>1
      <4>3. CASE m[1] # c
        BY <1>4, <4>1, <4>3
      <4> QED
        BY <4>2, <4>3
    <3> QED
      BY <1>5, <3>1, <3>2
  <2>5. ASSUME service = "chat", NEW u \in Clients PROVE said'[u] \in Seq(ChatWords)
    <3>1. said[u] \in Seq(ChatWords) /\ w \in ChatWords
      BY <1>0, <1>1, <2>5 DEF UdpShape
    <3>2. CASE u = c
      <4>1. said'[u] = Append(said[u], w)
        BY <1>0, <1>1, <3>2
      <4> QED
        BY <3>1, <4>1
    <3>3. CASE u # c
      BY <1>4, <3>1, <3>3
    <3> QED
      BY <3>2, <3>3
  <2> QED
    BY <1>0, <1>1, <2>3, <2>4, <2>5 DEF UdpShape
<1>7. OnlyTheRoomHears'
  <2>1. \A u, k : InRoom(u, k)' <=> InRoom(u, k)
    BY <1>1 DEF InRoom
  <2>2. service = "chat" => online = {u \in Clients : InRoom(u, Len(handled))}
    BY <1>0 DEF OnlyTheRoomHears
  <2>3. service = "chat" => online' = {u \in Clients : InRoom(u, Len(handled))'}
    BY <1>1, <2>2 DEF InRoom
  <2> QED
    BY <1>0, <1>1, <2>1, <2>3 DEF OnlyTheRoomHears
<1>8. SaidInv'
  <2> SUFFICES ASSUME service = "chat", NEW u \in Clients, ~ Hit(faults, Faults, u)
               PROVE  \E a \in 0 .. Len(said'[u]) :
                        /\ \A i \in 1 .. Len(said'[u]) : <<u, i>> \in toServer' <=> a < i
                        /\ u \in online <=> SaidIn(u, a)'
    BY <1>1 DEF SaidInv
  <2>1. PICK a \in 0 .. Len(said[u]) : /\ \A i \in 1 .. Len(said[u]) : <<u, i>> \in toServer <=> a < i
                                       /\ u \in online <=> SaidIn(u, a)
    BY <1>0 DEF SaidInv
  <2>2. CASE u = c
    <3>1. a \in 0 .. n + 1 /\ a <= n
      BY <1>2, <2>1, <2>2
    <3>2. \A i \in 1 .. n + 1 : <<u, i>> \in toServer' <=> a < i
      <4>1. \A i \in 1 .. n : <<u, i>> \in toServer' <=> a < i
        BY <1>2, <1>5, <2>1, <2>2
      <4>2. <<u, n + 1>> \in toServer' /\ a < n + 1
        BY <1>5, <2>2, <3>1
      <4>3. \A i \in 1 .. n + 1 : i \in 1 .. n \/ i = n + 1
        OBVIOUS
      <4> QED
        BY <4>1, <4>2, <4>3
    <3>3. SaidIn(u, a)' <=> SaidIn(u, a)
      <4>1. \A i \in 1 .. a : said'[u][i] = said[u][i] /\ \A j \in i + 1 .. a : said'[u][j] = said[u][j]
        BY <1>4, <2>2, <3>1
      <4> QED
        BY <4>1 DEF SaidIn
    <3> QED
      BY <1>4, <2>1, <2>2, <3>1, <3>2, <3>3
  <2>3. CASE u # c
    <3>1. said'[u] = said[u]
      BY <1>4, <2>3
    <3>2. SaidIn(u, a)' <=> SaidIn(u, a)
      BY <3>1 DEF SaidIn
    <3>3. \A i \in 1 .. Len(said[u]) : <<u, i>> \in toServer' <=> a < i
      BY <1>5, <2>1, <2>3
    <3> QED
      BY <2>1, <3>1, <3>2, <3>3
  <2> QED
    BY <2>2, <2>3
<1>9. AskInv'
  <2> SUFFICES ASSUME service # "chat", NEW u \in Clients, ~ Hit(faults, {"repeated"}, u) PROVE AskOf(u)'
    BY <1>1 DEF AskInv
  <2>1. AskOf(u)
    BY <1>0 DEF AskInv
  <2>2. c \notin awaits /\ awaits' = awaits \cup {c} /\ awaits \subseteq Clients
    BY <1>0, <1>1 DEF UdpTypeOK
  <2>3. CASE u # c
    <3>1. said'[u] = said[u] /\ got'[u] = got[u] /\ (u \in awaits' <=> u \in awaits)
      BY <1>1, <1>4, <2>2, <2>3
    <3>2. (\A e \in toServer' : e[1] = u => e \in toServer) /\ toClient' = toClient
      BY <1>1, <1>5, <2>3
    <3> QED
      BY <1>1, <2>1, <3>1, <3>2, AskKept
  <2>4. CASE u = c
    <3>1. (\A x \in toClient : x.to # c) /\ \A e \in toServer : e[1] # c
      BY <2>1, <2>2, <2>4 DEF AskOf
    <3>2. \A e \in toServer' : e[1] = c => e[2] = n + 1
      BY <1>5, <3>1
    <3>3. n = Len(got[c]) /\ Len(got[c]) \in Nat
      <4>1. got[c] \in Seq([to : Clients, from : Clients, k : Nat, body : Bodies])
        BY <1>0 DEF UdpTypeOK
      <4>2. Len(got[c]) \in Nat
        BY <4>1, LenProperties
      <4>3. Len(said[c]) = Len(got[c]) + 0
        BY <2>1, <2>2, <2>4 DEF AskOf
      <4> QED
        BY <1>2, <4>2, <4>3
    <3>4. \A k \in 1 .. Len(got[c]) : got[c][k].body = Answer(said'[c][k])
      BY <1>4, <2>1, <2>4, <3>3 DEF AskOf
    <3>5. \A x : Answer(x)' = Answer(x)
      BY <1>1 DEF Answer, Find, CommandOutput
    <3>6. UNCHANGED <<got, toClient>> /\ c \in awaits'
      BY <1>1, <2>2
    <3> QED
      BY <1>4, <2>4, <3>1, <3>2, <3>3, <3>4, <3>5, <3>6 DEF AskOf
  <2> QED
    BY <2>3, <2>4
<1>10. QuietInv'
  BY <1>1 DEF QuietInv
<1> QED
  BY <1>6, <1>7, <1>8, <1>9, <1>10 DEF UdpIInv

\* The network loses one: a fault, and no promise is made that it breaks.
LEMMA LoseIInv == ASSUME UdpIInv, Lose PROVE UdpIInv'
<1>0. /\ UdpShape /\ UdpTypeOK /\ OnlyTheRoomHears /\ SaidInv /\ AskInv /\ QuietInv
      /\ faults \in Seq(Faults \X Clients)
  BY DEF UdpIInv, UdpShape, UdpTypeOK
<1>1. PICK c \in Clients :
        /\ Len(faults) < MaxFaults /\ faults' = Append(faults, <<"lost", c>>)
        /\ toServer' \subseteq toServer /\ toClient' \subseteq toClient
        /\ \A m \in toServer : m[1] # c => m \in toServer'
        /\ UNCHANGED <<service, server, said, awaits, got, online, handled>>
  BY <1>0 DEF Lose, UdpTypeOK
<1>2. /\ faults' \in Seq(Faults \X Clients) /\ Len(faults') <= MaxFaults
      /\ \A kinds, u : Hit(faults, kinds, u) => Hit(faults', kinds, u)
      /\ Hit(faults', Faults, c)
  <2>1. "lost" \in Faults /\ MaxFaults \in Nat /\ Len(faults) \in Nat
    BY <1>0, UdpAssumption, LenProperties DEF Faults, UdpAssumption
  <2>2. Len(faults') = Len(faults) + 1
    BY <1>0, <1>1, <2>1
  <2> QED
    BY <1>0, <1>1, <2>1, <2>2, FaultsGrow
<1>3. UdpShape'
  <2>1. UdpTypeOK'
    BY <1>0, <1>1, <1>2 DEF UdpTypeOK
  <2> QED
    BY <1>0, <1>1, <1>2, <2>1 DEF UdpShape
<1>4. OnlyTheRoomHears'
  <2>1. \A u, k : InRoom(u, k)' <=> InRoom(u, k)
    BY <1>1 DEF InRoom
  <2>2. service = "chat" => online = {u \in Clients : InRoom(u, Len(handled))}
    BY <1>0 DEF OnlyTheRoomHears
  <2>3. service = "chat" => online' = {u \in Clients : InRoom(u, Len(handled))'}
    BY <1>1, <2>2 DEF InRoom
  <2> QED
    BY <1>0, <1>1, <2>1, <2>3 DEF OnlyTheRoomHears
<1>5. AskInv'
  <2> SUFFICES ASSUME service # "chat", NEW u \in Clients, ~ Hit(faults', {"repeated"}, u) PROVE AskOf(u)'
    BY <1>1 DEF AskInv
  <2>1. AskOf(u)
    BY <1>0, <1>2 DEF AskInv
  <2> QED
    BY <1>1, <2>1, AskKept
<1>6. SaidInv'
  <2> SUFFICES ASSUME service = "chat", NEW u \in Clients, ~ Hit(faults', Faults, u)
               PROVE  \E a \in 0 .. Len(said[u]) :
                        /\ \A i \in 1 .. Len(said[u]) : <<u, i>> \in toServer' <=> a < i
                        /\ u \in online <=> SaidIn(u, a)
    BY <1>1 DEF SaidInv, SaidIn
  <2>1. u # c /\ ~ Hit(faults, Faults, u)
    BY <1>2
  <2>2. \A i : <<u, i>> \in toServer' <=> <<u, i>> \in toServer
    <3>1. \A i : <<u, i>>[1] = u
      OBVIOUS
    <3> QED
      BY <1>1, <2>1, <3>1
  <2>3. PICK a \in 0 .. Len(said[u]) : /\ \A i \in 1 .. Len(said[u]) : <<u, i>> \in toServer <=> a < i
                                       /\ u \in online <=> SaidIn(u, a)
    BY <1>0, <2>1 DEF SaidInv
  <2> QED
    BY <2>2, <2>3
<1>7. QuietInv'
  BY <1>0, <1>1 DEF QuietInv
<1> QED
  BY <1>3, <1>4, <1>5, <1>6, <1>7 DEF UdpIInv

\* A service starts when nothing was said: the room is empty and nobody waits.
LEMMA RunIInv == ASSUME UdpIInv, UdpRun PROVE UdpIInv'
<1>1. /\ UdpShape /\ UdpTypeOK
      /\ said = [c \in Clients |-> <<>>] /\ got = [c \in Clients |-> <<>>] /\ awaits = {}
      /\ toServer = {} /\ toClient = {} /\ online = {} /\ handled = <<>> /\ service' \in {"chat", "dict", "shell"}
      /\ UNCHANGED <<server, said, awaits, got, toServer, toClient, online, handled, faults>>
  BY DEF UdpIInv, UdpShape, UdpRun, QuietInv
<1>2. Len(<<>>) = 0 /\ 1 .. 0 = {} /\ \A S : <<>> \in Seq(S)
  BY EmptySeq
<1>3. UdpShape'
  <2>1. \A c \in Clients : said[c] = <<>> /\ got[c] = <<>>
    BY <1>1
  <2>2. UdpTypeOK'
    BY <1>1, <2>1 DEF UdpTypeOK
  <2> QED
    BY <1>1, <1>2, <2>1, <2>2 DEF UdpShape
<1>4. OnlyTheRoomHears'
  <2>1. \A u : ~ InRoom(u, 0)'
    BY DEF InRoom
  <2>2. Len(handled') = 0 /\ online' = {} /\ toClient' = {}
    BY <1>1, <1>2
  <2> QED
    BY <2>1, <2>2 DEF OnlyTheRoomHears
<1>5. SaidInv'
  <2>1. \A u : ~ SaidIn(u, 0)'
    BY DEF SaidIn
  <2>2. \A u \in Clients : said'[u] = <<>> /\ Len(said'[u]) = 0
    BY <1>1, <1>2
  <2>3. toServer' = {} /\ online' = {}
    BY <1>1
  <2>4. \A u \in Clients : 0 \in 0 .. Len(said'[u]) /\ \A i \in 1 .. Len(said'[u]) : FALSE
    BY <1>2, <2>2
  <2>5. \A u \in Clients : /\ \A i \in 1 .. Len(said'[u]) : <<u, i>> \in toServer' <=> 0 < i
                           /\ u \in online' <=> SaidIn(u, 0)'
    BY <2>1, <2>3, <2>4
  <2> QED
    BY <2>4, <2>5 DEF SaidInv
<1>6. AskInv'
  <2>1. \A u \in Clients : Len(said'[u]) = 0 /\ Len(got'[u]) = 0
    BY <1>1, <1>2
  <2>2. toServer' = {} /\ toClient' = {} /\ awaits' = {}
    BY <1>1
  <2> QED
    BY <1>2, <2>1, <2>2 DEF AskInv, AskOf
<1>7. QuietInv'
  BY <1>1 DEF QuietInv
<1> QED
  BY <1>3, <1>4, <1>5, <1>6, <1>7 DEF UdpIInv

\* The invariant is inductive.
LEMMA UdpInductive == UdpInit => UdpIInv
<1> SUFFICES ASSUME UdpInit PROVE UdpIInv
  OBVIOUS
<1>1. \A c \in Clients : said[c] = <<>> /\ got[c] = <<>>
  BY DEF UdpInit
<1>2. Len(<<>>) = 0 /\ \A S : <<>> \in Seq(S)
  BY EmptySeq
<1>3. UdpShape
  <2>1. MaxFaults \in Nat
    BY UdpAssumption DEF UdpAssumption
  <2> QED
    BY <1>1, <1>2, <2>1 DEF UdpInit, UdpShape, UdpTypeOK
<1>4. QuietInv /\ OnlyTheRoomHears /\ SaidInv
  BY DEF UdpInit, QuietInv, OnlyTheRoomHears, SaidInv
<1>5. AskInv
  <2>1. \A u \in Clients : Len(said[u]) = 0 /\ Len(got[u]) = 0
    BY <1>1, <1>2
  <2>2. toServer = {} /\ toClient = {} /\ awaits = {}
    BY DEF UdpInit
  <2> QED
    BY <2>1, <2>2 DEF AskInv, AskOf
<1> QED
  BY <1>3, <1>4, <1>5 DEF UdpIInv

\* A step keeps it.
LEMMA UdpStep == UdpIInv /\ [UdpNext]_udpVars => UdpIInv'
<1> SUFFICES ASSUME UdpIInv, [UdpNext]_udpVars PROVE UdpIInv'
  OBVIOUS
<1>1. CASE UdpRun
  BY <1>1, RunIInv
<1>2. CASE Lose
  BY <1>2, LoseIInv
<1>3. CASE Deliver
  BY <1>3, ChatIInv, ServeIInv DEF Deliver
<1>4. ASSUME NEW c \in Clients, Receive(c) PROVE UdpIInv'
  BY <1>4, HearIInv DEF Receive
<1>5. ASSUME NEW c \in Clients, NEW w \in Words, Say(c, w) PROVE UdpIInv'
  BY <1>5, SayIInv
<1>6. CASE UNCHANGED udpVars
  <2>1. \A u, k : (InRoom(u, k)' <=> InRoom(u, k)) /\ (SaidIn(u, k)' <=> SaidIn(u, k))
    BY <1>6 DEF udpVars, InRoom, SaidIn
  <2>2. {u \in Clients : InRoom(u, Len(handled))}' = {u \in Clients : InRoom(u, Len(handled))}
    BY <1>6 DEF udpVars, InRoom
  <2>3. \A x : Answer(x)' = Answer(x)
    BY <1>6 DEF udpVars, Answer, Find, CommandOutput
  <2>4. UdpShape' /\ QuietInv'
    BY <1>6 DEF UdpIInv, udpVars, UdpShape, UdpTypeOK, QuietInv
  <2>5. OnlyTheRoomHears'
    BY <1>6, <2>1, <2>2 DEF UdpIInv, udpVars, OnlyTheRoomHears
  <2>6. SaidInv' /\ AskInv'
    BY <1>6, <2>1, <2>3 DEF UdpIInv, udpVars, SaidInv, AskInv, AskOf
  <2> QED
    BY <2>4, <2>5, <2>6 DEF UdpIInv
<1> QED
  BY <1>1, <1>2, <1>3, <1>4, <1>5, <1>6 DEF UdpNext, Words

\* The table of users and the answers say what the users said.
LEMMA UdpIsSafe == UdpIInv => UdpSafe
<1> SUFFICES ASSUME UdpIInv PROVE UdpSafe
  OBVIOUS
<1>1. UdpTypeOK /\ OnlyTheRoomHears
  BY DEF UdpIInv, UdpShape
<1>2. RoomIsWhatUsersSaid
  <2> SUFFICES ASSUME service = "chat", NEW c \in Clients, ~ Hit(faults, Faults, c), \A m \in toServer : m[1] # c
               PROVE  c \in online <=> \E i \in DOMAIN said[c] :
                                         /\ said[c][i] = "online"
                                         /\ \A j \in i + 1 .. Len(said[c]) : said[c][j] # "offline"
    BY DEF RoomIsWhatUsersSaid
  <2>1. PICK a \in 0 .. Len(said[c]) : /\ \A i \in 1 .. Len(said[c]) : <<c, i>> \in toServer <=> a < i
                                       /\ c \in online <=> SaidIn(c, a)
    BY DEF UdpIInv, SaidInv
  <2>2. Len(said[c]) \in Nat /\ DOMAIN said[c] = 1 .. Len(said[c])
    <3>1. said[c] \in Seq(Words)
      BY <1>1 DEF UdpTypeOK
    <3> QED
      BY <3>1, LenProperties
  <2>3. a = Len(said[c])
    <3>1. ASSUME a < Len(said[c]) PROVE FALSE
      <4>1. <<c, Len(said[c])>> \in toServer
        BY <2>1, <2>2, <3>1
      <4> QED
        BY <4>1
    <3> QED
      BY <2>1, <2>2, <3>1
  <2> QED
    BY <2>1, <2>2, <2>3 DEF SaidIn
<1>3. AnswersItsQuestion
  <2> SUFFICES ASSUME NEW c \in Clients, ~ Hit(faults, {"repeated"}, c), NEW k \in DOMAIN got[c]
               PROVE  got[c][k].body = Answer(said[c][k])
    BY DEF AnswersItsQuestion
  <2>1. got[c] \in Seq([to : Clients, from : Clients, k : Nat, body : Bodies])
    BY <1>1 DEF UdpTypeOK
  <2>2. DOMAIN got[c] = 1 .. Len(got[c])
    BY <2>1, LenProperties
  <2>3. CASE service = "chat"
    <3>1. got[c] = <<>>
      BY <1>1, <2>3 DEF UdpTypeOK
    <3> QED
      BY <2>2, <3>1
  <2>4. CASE service # "chat"
    BY <2>2, <2>4 DEF UdpIInv, AskInv, AskOf
  <2> QED
    BY <2>3, <2>4
<1> QED
  BY <1>1, <1>2, <1>3 DEF UdpSafe

\* The safety of the UDP services, whatever the network loses, repeats or reorders
\* (chatroom_udp/udpServer.cc:21-38, dict_udp/udpClient.hpp:48-64, shell_udp/udpServer.hpp:63-75).
THEOREM UdpSafety == UdpSpec => []UdpSafe
<1>1. UdpInit => UdpIInv
  BY UdpInductive
<1>2. UdpIInv /\ [UdpNext]_udpVars => UdpIInv'
  BY UdpStep
<1>3. UdpIInv => UdpSafe
  BY UdpIsSafe
<1> QED
  BY <1>1, <1>2, <1>3, PTL DEF UdpSpec

-------------------------------------------------------------------------------
(* The calculator's arithmetic. *)

\* The range of an int.
LEMMA IntRange ==
  /\ MaxInt \in Int /\ MaxInt >= 1 /\ MinInt = -MaxInt - 1
  /\ \A n \in Int : n \in Ints <=> MinInt <= n /\ n <= MaxInt
  /\ Ints \subseteq Int /\ Ints \subseteq Numbers
<1>1. MaxInt \in Nat \ {0}
  BY ProtocolAssumption DEF ProtocolAssumption
<1>2. MaxInt \in Int /\ MaxInt >= 1 /\ MinInt = -MaxInt - 1 /\ MinInt \in Int
  BY <1>1 DEF MinInt
<1> QED
  BY <1>2 DEF Ints, Numbers

\* What is wrapped fits, and what fits is not changed.
LEMMA WrapFits == ASSUME NEW n \in Int
                  PROVE  Wrap(n) \in Ints /\ (n \in Ints => Wrap(n) = n)
<1> DEFINE H == 2 * (MaxInt + 1)
           k == n - MinInt
<1>1. H \in Int /\ H > 0 /\ k \in Int /\ H = MaxInt - MinInt + 1 /\ MaxInt \in Int /\ MinInt \in Int
  BY IntRange
<1>2. k % H \in 0 .. H - 1
  <2> HIDE DEF H, k
  <2> QED
    BY <1>1, SMTT(30)
<1>3. ASSUME 0 <= k, k < H PROVE k % H = k
  <2> HIDE DEF H, k
  <2> QED
    BY <1>1, <1>3, SMTT(30)
<1>4. Wrap(n) = (k % H) + MinInt
  BY DEF Wrap
<1>5. Wrap(n) \in Ints
  <2>1. Wrap(n) \in Int /\ MinInt <= Wrap(n) /\ Wrap(n) <= MaxInt
    <3> HIDE DEF H, k
    <3> QED
      BY <1>1, <1>2, <1>4
  <2> QED
    BY <2>1, IntRange
<1>6. ASSUME n \in Ints PROVE Wrap(n) = n
  <2>1. 0 <= k /\ k < H
    BY <1>1, <1>6, IntRange
  <2> QED
    BY <1>1, <1>3, <1>4, <2>1
<1> QED
  BY <1>5, <1>6

\* Division with remainder, of two absolute values.
LEMMA DivideAbs ==
  ASSUME NEW a \in Nat, NEW b \in Nat, b > 0
  PROVE  /\ a \div b \in Nat /\ b * (a \div b) \in Nat /\ b * (a \div b) <= a /\ a < b * (a \div b) + b
         /\ a \div b <= a
         /\ b > 1 => 2 * (a \div b) <= a
<1> DEFINE q == a \div b
<1>1. q \in Nat
  BY SMTT(30)
<1>2. b * q <= a /\ a < b * q + b
  BY SMTT(30)
<1>3. b * q \in Nat
  <2> HIDE DEF q
  <2> QED
    BY <1>1, SMTT(30)
<1>4. q <= b * q
  <2> HIDE DEF q
  <2> QED
    BY <1>1, SMTT(30)
<1>5. b > 1 => 2 * q <= b * q
  <2> HIDE DEF q
  <2> QED
    BY <1>1, SMTT(30)
<1>6. q <= a /\ (b > 1 => 2 * q <= a)
  <2> DEFINE p == b * q
  <2>1. p \in Nat /\ p <= a /\ q <= p /\ (b > 1 => 2 * q <= p)
    BY <1>2, <1>3, <1>4, <1>5
  <2> HIDE DEF q, p
  <2> QED
    BY <1>1, <2>1
<1> QED
  BY <1>1, <1>2, <1>3, <1>6

\* The quotient is cut towards zero, and the remainder has the sign of what is divided.
LEMMA Divided ==
  ASSUME NEW x \in Ints, NEW y \in Ints, y # 0
  PROVE  /\ Quotient(x, y) \in Int /\ Remainder(x, y) \in Ints
         /\ x = y * Quotient(x, y) + Remainder(x, y)
         /\ Abs(Remainder(x, y)) < Abs(y)
         /\ Remainder(x, y) = 0 \/ ((Remainder(x, y) < 0) = (x < 0))
         /\ ~ (x = MinInt /\ y = -1) => Quotient(x, y) \in Ints
<1> DEFINE a == Abs(x)
           b == Abs(y)
           q == a \div b
           p == b * q
           d == Quotient(x, y)
           r == Remainder(x, y)
<1>1. x \in Int /\ y \in Int /\ MaxInt \in Int /\ MaxInt >= 1 /\ MinInt = -MaxInt - 1
      /\ MinInt <= x /\ x <= MaxInt /\ MinInt <= y /\ y <= MaxInt
  BY IntRange
<1>2. a \in Nat /\ b \in Nat /\ b > 0 /\ a = (IF x < 0 THEN -x ELSE x) /\ b = (IF y < 0 THEN -y ELSE y)
  BY <1>1 DEF Abs
<1>3. q \in Nat /\ p \in Nat /\ p <= a /\ a < p + b /\ q <= a /\ (b > 1 => 2 * q <= a)
  BY <1>2, DivideAbs
<1>4. d = IF (x < 0) = (y < 0) THEN q ELSE -q
  BY DEF Quotient
<1>5. d \in Int /\ y * d = IF x < 0 THEN -p ELSE p
  <2> HIDE DEF a, b, q, d
  <2>1. d \in Int
    BY <1>3, <1>4
  <2>2. CASE x < 0 /\ y < 0
    BY <1>1, <1>2, <1>3, <1>4, <2>2, SMTT(30)
  <2>3. CASE x < 0 /\ ~ y < 0
    BY <1>1, <1>2, <1>3, <1>4, <2>3, SMTT(30)
  <2>4. CASE ~ x < 0 /\ y < 0
    BY <1>1, <1>2, <1>3, <1>4, <2>4, SMTT(30)
  <2>5. CASE ~ x < 0 /\ ~ y < 0
    BY <1>1, <1>2, <1>3, <1>4, <2>5, SMTT(30)
  <2> QED
    BY <2>1, <2>2, <2>3, <2>4, <2>5
<1>6. r = x - y * d
  BY DEF Remainder
<1>7. r \in Int /\ r = (IF x < 0 THEN p - a ELSE a - p) /\ x = y * d + r
  <2> DEFINE z == y * d
  <2>1. z \in Int /\ z = (IF x < 0 THEN -p ELSE p) /\ r = x - z
    <3> HIDE DEF a, b, q, p, d, r
    <3> QED
      BY <1>1, <1>3, <1>5, <1>6
  <2>2. r \in Int /\ r = (IF x < 0 THEN p - a ELSE a - p) /\ x = z + r
    <3> HIDE DEF a, b, q, p, d, r, z
    <3> QED
      BY <1>1, <1>2, <1>3, <2>1
  <2> QED
    BY <2>2
<1>8. /\ MinInt <= r /\ r <= MaxInt
      /\ (IF r < 0 THEN -r ELSE r) < b
      /\ r = 0 \/ ((r < 0) = (x < 0))
      /\ ~ (x = MinInt /\ y = -1) => MinInt <= d /\ d <= MaxInt
  <2> HIDE DEF a, b, q, p, d, r
  <2>1. MinInt <= r /\ r <= MaxInt /\ (IF r < 0 THEN -r ELSE r) < b
    BY <1>1, <1>2, <1>3, <1>7
  <2>2. r = 0 \/ ((r < 0) = (x < 0))
    BY <1>1, <1>2, <1>3, <1>7
  <2>3. ~ (x = MinInt /\ y = -1) => MinInt <= d /\ d <= MaxInt
    BY <1>1, <1>2, <1>3, <1>4
  <2> QED
    BY <2>1, <2>2, <2>3
<1>9. r \in Ints /\ (~ (x = MinInt /\ y = -1) => d \in Ints)
  BY <1>5, <1>7, <1>8, IntRange
<1> QED
  BY <1>5, <1>7, <1>8, <1>9 DEF Abs

\* What is computed is an int with a code that a text can hold, and what is said of it is true.
LEMMA Calculated ==
  ASSUME NEW e \in Equations, ~ Traps(e)
  PROVE  /\ Calculator(e).num \in Ints /\ Calculator(e).code \in 0 .. 4
         /\ Calculator(e) = [num |-> Calculator(e).num, code |-> Calculator(e).code]
         /\ Calculator(e).num = CalcTask(e)
<1>1. e.x \in Ints /\ e.y \in Ints /\ e.op \in Ops \cup {"?"}
  BY DEF Equations
<1>2. \A c \in DOMAIN Codes : Codes[c] \in 0 .. 4
  BY DEF Codes
<1>3. 0 \in Ints
  BY IntRange
<1>4. ASSUME NEW n \in Ints, NEW c \in DOMAIN Codes
      PROVE  /\ Result(n, c).num = n /\ Result(n, c).code \in 0 .. 4
             /\ Result(n, c) = [num |-> Result(n, c).num, code |-> Result(n, c).code]
  BY <1>2, <1>4 DEF Result
<1>5. DOMAIN Codes = {"NORMOL", "DEVZERO", "MODZERO", "OPWRONG", "UNKNOWN"}
  BY DEF Codes
<1>6. CASE e.op \in {"+", "-", "*"}
  <2> DEFINE n == CASE e.op = "+" -> e.x + e.y [] e.op = "-" -> e.x - e.y [] e.op = "*" -> e.x * e.y
  <2>1. n \in Int
    BY <1>1, <1>6, IntRange
  <2>2. Wrap(n) \in Ints
    BY <2>1, WrapFits
  <2>3. Calculator(e) = Result(Wrap(n), "NORMOL")
    BY <1>6 DEF Calculator
  <2>4. CalcTask(e) = Wrap(n)
    BY <1>6 DEF CalcTask
  <2> HIDE DEF n
  <2>5. Calculator(e).num = Wrap(n) /\ Calculator(e).code \in 0 .. 4
        /\ Calculator(e) = [num |-> Calculator(e).num, code |-> Calculator(e).code]
    BY <1>4, <1>5, <2>2, <2>3
  <2> QED
    BY <2>2, <2>4, <2>5
<1>7. CASE e.op \in {"/", "%"} /\ e.y = 0
  <2>1. CalcTask(e) = 0 /\ \E c \in DOMAIN Codes : Calculator(e) = Result(0, c)
    BY <1>5, <1>7 DEF CalcTask, Calculator
  <2> QED
    BY <1>3, <1>4, <2>1
<1>8. CASE e.op \in {"/", "%"} /\ e.y # 0
  <2>1. /\ Quotient(e.x, e.y) \in Ints /\ Remainder(e.x, e.y) \in Ints
    BY <1>1, <1>8, Divided DEF Traps
  <2>2. CASE e.op = "/"
    BY <1>4, <1>5, <1>8, <2>1, <2>2 DEF CalcTask, Calculator
  <2>3. CASE e.op = "%"
    BY <1>4, <1>5, <1>8, <2>1, <2>3 DEF CalcTask, Calculator
  <2> QED
    BY <1>8, <2>2, <2>3
<1>9. CASE e.op = "?"
  <2>1. CalcTask(e) = 0 /\ Calculator(e) = Result(0, "OPWRONG")
    BY <1>9 DEF CalcTask, Calculator
  <2> QED
    BY <1>3, <1>4, <1>5, <2>1
<1> QED
  BY <1>1, <1>6, <1>7, <1>8, <1>9 DEF Ops

\* What ArithmeticIsSound says of one equation.
Sound(e) ==
  LET r == Calculator(e)
      q == Calculator([e EXCEPT !.op = "/"])
      m == Calculator([e EXCEPT !.op = "%"])
      exact == CASE e.op = "+" -> e.x + e.y [] e.op = "-" -> e.x - e.y [] OTHER -> e.x * e.y
  IN  /\ r.num = CalcTask(e) /\ r.num \in Ints
      /\ e.op \in {"+", "-", "*"} /\ exact \in Ints => r = Result(exact, "NORMOL")
      /\ e.op = "%" /\ e.y # 0 =>
           /\ e.x = e.y * q.num + m.num
           /\ Abs(m.num) < Abs(e.y) /\ (m.num = 0 \/ ((m.num < 0) = (e.x < 0)))

\* It is true of every equation that does not trap.
LEMMA EquationSound == ASSUME NEW e \in Equations, ~ Traps(e) PROVE Sound(e)
<1> DEFINE r == Calculator(e)
           q == Calculator([e EXCEPT !.op = "/"])
           m == Calculator([e EXCEPT !.op = "%"])
           exact == CASE e.op = "+" -> e.x + e.y [] e.op = "-" -> e.x - e.y [] OTHER -> e.x * e.y
<1>1. e.x \in Ints /\ e.y \in Ints /\ e.op \in Ops \cup {"?"}
  BY DEF Equations
<1>2. r.num = CalcTask(e) /\ r.num \in Ints
  BY Calculated
<1>3. ASSUME e.op \in {"+", "-", "*"}, exact \in Ints PROVE r = Result(exact, "NORMOL")
  <2>1. Wrap(exact) = exact
    BY <1>3, IntRange, WrapFits
  <2>2. r = Result(Wrap(exact), "NORMOL")
    BY <1>3 DEF Calculator
  <2> QED
    BY <2>1, <2>2
<1>4. ASSUME e.op = "%", e.y # 0
      PROVE  /\ e.x = e.y * q.num + m.num
             /\ Abs(m.num) < Abs(e.y) /\ (m.num = 0 \/ ((m.num < 0) = (e.x < 0)))
  <2> DEFINE f == [e EXCEPT !.op = "/"]
             g == [e EXCEPT !.op = "%"]
  <2>1. f.x = e.x /\ f.y = e.y /\ f.op = "/" /\ g.x = e.x /\ g.y = e.y /\ g.op = "%"
    BY DEF Equations
  <2>2. q = Result(Quotient(e.x, e.y), "NORMOL") /\ m = Result(Remainder(e.x, e.y), "NORMOL")
    <3> HIDE DEF f, g
    <3>1. Calculator(f) = Result(Quotient(e.x, e.y), "NORMOL")
      BY <1>4, <2>1 DEF Calculator
    <3>2. Calculator(g) = Result(Remainder(e.x, e.y), "NORMOL")
      BY <1>4, <2>1 DEF Calculator
    <3> QED
      BY <3>1, <3>2 DEF f, g
  <2>3. q.num = Quotient(e.x, e.y) /\ m.num = Remainder(e.x, e.y)
    BY <2>2 DEF Result
  <2> QED
    BY <1>1, <1>4, <2>3, Divided
<1> QED
  BY <1>2, <1>3, <1>4 DEF Sound

-------------------------------------------------------------------------------
(* Texts. *)

\* What a text of the protocol is made of.
Symbols == {Numeral[n] : n \in Numbers} \cup Ops \cup {"?", "SEP", "\r", "\n", "op", "x", "y", "exitcode", "num"}

Texts == Seq(Symbols)
Glue(s, t) == s \o t

\* A text is glued behind another.
LEMMA Glued ==
  ASSUME NEW s \in Texts, NEW t \in Texts
  PROVE  /\ Glue(s, t) \in Texts /\ Len(Glue(s, t)) = Len(s) + Len(t)
         /\ \A i \in 1 .. Len(s) : Glue(s, t)[i] = s[i]
         /\ \A i \in 1 .. Len(t) : Glue(s, t)[Len(s) + i] = t[i]
         /\ Len(s) \in Nat /\ Len(t) \in Nat
  BY SMTT(30) DEF Texts, Glue

\* Texts with the same characters are the same.
LEMMA SameText ==
  ASSUME NEW s \in Texts, NEW t \in Texts, Len(s) = Len(t), \A i \in 1 .. Len(s) : s[i] = t[i]
  PROVE  s = t
  BY SeqEqual DEF Texts

\* The empty text.
LEMMA GlueEmpty ==
  /\ <<>> \in Texts
  /\ \A s \in Texts : Glue(s, <<>>) = s /\ Glue(<<>>, s) = s /\ (Len(s) = 0 <=> s = <<>>)
  /\ \A s, t \in Texts : Glue(s, t) = <<>> => s = <<>> /\ t = <<>>
<1>1. <<>> \in Texts /\ \A s \in Texts : Glue(s, <<>>) = s /\ Glue(<<>>, s) = s /\ (Len(s) = 0 <=> s = <<>>)
  BY DEF Texts, Glue
<1>2. ASSUME NEW s \in Texts, NEW t \in Texts, Glue(s, t) = <<>>
      PROVE  s = <<>> /\ t = <<>>
  <2>1. Len(s) + Len(t) = 0 /\ Len(s) \in Nat /\ Len(t) \in Nat
    <3>1. Len(Glue(s, t)) = 0
      BY <1>1, <1>2
    <3> QED
      BY <3>1, Glued
  <2>2. Len(s) = 0 /\ Len(t) = 0
    BY <2>1
  <2> QED
    BY <1>1, <2>2
<1> QED
  BY <1>1, <1>2

\* It does not matter which two of three texts are glued first.
LEMMA GlueThree ==
  ASSUME NEW r \in Texts, NEW s \in Texts, NEW t \in Texts
  PROVE  Glue(Glue(r, s), t) = Glue(r, Glue(s, t))
  BY ConcatAssociative, SMTT(30) DEF Texts, Glue

\* A piece of a text.
LEMMA Piece ==
  ASSUME NEW s \in Texts, NEW m \in 1 .. Len(s) + 1, NEW n \in 0 .. Len(s), m <= n + 1
  PROVE  /\ SubSeq(s, m, n) \in Texts /\ Len(SubSeq(s, m, n)) = n + 1 - m
         /\ \A i \in 1 .. n + 1 - m : SubSeq(s, m, n)[i] = s[m + i - 1]
<1>1. Len(s) \in Nat /\ \A i \in 1 .. Len(s) : s[i] \in Symbols
  BY DEF Texts
<1>2. m \in Int /\ n \in Int /\ n - m + 1 = n + 1 - m /\ (~ m <= n => n + 1 - m = 0)
  BY <1>1
<1>3. \A i \in m .. n : s[i] \in Symbols
  BY <1>1
<1>4. /\ SubSeq(s, m, n) \in Seq(Symbols)
      /\ Len(SubSeq(s, m, n)) = IF m <= n THEN n - m + 1 ELSE 0
      /\ \A i \in 1 .. n - m + 1 : SubSeq(s, m, n)[i] = s[m + i - 1]
  BY <1>2, <1>3, SubSeqProperties
<1> QED
  BY <1>2, <1>4 DEF Texts

\* A text is what two halves of it glue together, and they can be taken apart again.
LEMMA Halves ==
  ASSUME NEW s \in Texts, NEW n \in 0 .. Len(s)
  PROVE  Glue(SubSeq(s, 1, n), SubSeq(s, n + 1, Len(s))) = s
<1>1. 1 \in 1 .. Len(s) + 1 /\ n \in 1 - 1 .. Len(s) /\ Len(s) \in n .. Len(s)
  BY DEF Texts
<1>2. SubSeq(s, 1, n) \o SubSeq(s, n + 1, Len(s)) = SubSeq(s, 1, Len(s))
  BY <1>1, ConcatAdjacentSubSeq DEF Texts
<1>3. SubSeq(s, 1, Len(s)) = s
  BY SubSeqFull DEF Texts
<1> QED
  BY <1>2, <1>3 DEF Glue

\* What is glued together comes apart again.
LEMMA Unglue ==
  ASSUME NEW s \in Texts, NEW t \in Texts
  PROVE  /\ SubSeq(Glue(s, t), 1, Len(s)) = s
         /\ SubSeq(Glue(s, t), Len(s) + 1, Len(Glue(s, t))) = t
<1> DEFINE g == Glue(s, t)
           L == Len(s)
           a == SubSeq(g, 1, L)
           b == SubSeq(g, L + 1, Len(g))
<1>1. /\ L \in Nat /\ Len(t) \in Nat /\ g \in Texts /\ Len(g) = L + Len(t)
      /\ \A i \in 1 .. L : g[i] = s[i]
      /\ \A i \in 1 .. Len(t) : g[L + i] = t[i]
  BY Glued
<1> HIDE DEF g
<1>2. a = s
  <2>1. 1 \in 1 .. Len(g) + 1 /\ L \in 0 .. Len(g) /\ 1 <= L + 1
    BY <1>1
  <2>2. a \in Texts /\ Len(a) = L + 1 - 1 /\ \A i \in 1 .. L + 1 - 1 : a[i] = g[1 + i - 1]
    BY <1>1, <2>1, Piece
  <2>3. a \in Texts /\ Len(a) = L /\ \A i \in 1 .. L : a[i] = s[i]
    BY <1>1, <2>2
  <2> QED
    BY <2>3, SameText
<1>3. b = t
  <2>1. L + 1 \in 1 .. Len(g) + 1 /\ Len(g) \in 0 .. Len(g) /\ L + 1 <= Len(g) + 1
    BY <1>1
  <2>2. b \in Texts /\ Len(b) = Len(g) + 1 - (L + 1)
        /\ \A i \in 1 .. Len(g) + 1 - (L + 1) : b[i] = g[L + 1 + i - 1]
    BY <1>1, <2>1, Piece
  <2>3. Len(g) + 1 - (L + 1) = Len(t) /\ \A i \in Int : L + 1 + i - 1 = L + i
    BY <1>1
  <2>4. b \in Texts /\ Len(b) = Len(t) /\ \A i \in 1 .. Len(t) : b[i] = t[i]
    BY <1>1, <2>2, <2>3
  <2> QED
    BY <2>4, SameText
<1> QED
  BY <1>2, <1>3 DEF g

-------------------------------------------------------------------------------
(* Messages. *)

\* The words of a text that are always the same.
LEMMA ConstantSymbols == {"SEP", "\r", "\n", "op", "x", "y", "exitcode", "num"} \subseteq Symbols
  BY DEF Symbols

\* A message that ends with END, and has none before.
Whole(m) == /\ m \in Texts /\ Len(m) >= 2 /\ m[Len(m) - 1] = "\r" /\ m[Len(m)] = "\n"
            /\ \A i \in 1 .. Len(m) - 2 : m[i] # "\r"

\* What begins with a whole message is found to.
LEMMA FirstMessage ==
  ASSUME NEW m, Whole(m), NEW t \in Texts
  PROVE  LET r == RecvMessage(Glue(m, t)) IN r.ok /\ r.out = m /\ r.in = t
<1> DEFINE s == Glue(m, t)
           n == Len(m)
           ends == { i \in 2 .. Len(s) : s[i - 1] = "\r" /\ s[i] = "\n" }
<1>1. /\ m \in Texts /\ n >= 2 /\ m[n - 1] = "\r" /\ m[n] = "\n" /\ \A i \in 1 .. n - 2 : m[i] # "\r"
      /\ n \in Nat
  BY DEF Whole, Texts
<1>2. s \in Texts /\ Len(s) = n + Len(t) /\ Len(t) \in Nat /\ \A i \in 1 .. n : s[i] = m[i]
  BY <1>1, Glued
<1> HIDE DEF s, n
<1>3. n \in ends
  <2>1. n \in 2 .. Len(s) /\ n - 1 \in 1 .. n /\ n \in 1 .. n
    BY <1>1, <1>2
  <2> QED
    BY <1>1, <1>2, <2>1
<1>4. \A j \in ends : n <= j
  <2> SUFFICES ASSUME NEW j \in ends, j < n PROVE FALSE
    BY <1>1, <1>2
  <2>1. j \in 2 .. Len(s) /\ s[j - 1] = "\r"
    OBVIOUS
  <2>2. j - 1 \in 1 .. n - 2 /\ j - 1 \in 1 .. n
    BY <1>1, <2>1
  <2> QED
    BY <1>1, <1>2, <2>1, <2>2
<1>5. (CHOOSE i \in ends : \A j \in ends : i <= j) = n
  <2>1. \A i \in ends : i \in Int
    BY <1>1, <1>2
  <2>2. \A i \in ends : (\A j \in ends : i <= j) => i = n
    BY <1>1, <1>3, <1>4, <2>1
  <2> HIDE DEF ends
  <2> QED
    BY <1>3, <1>4, <2>2
<1>6. MessageEnd(s) = n
  BY <1>3, <1>5 DEF MessageEnd
<1>7. /\ RecvMessage(s).ok <=> n > 0
      /\ RecvMessage(s).out = SubSeq(s, 1, n) /\ RecvMessage(s).in = SubSeq(s, n + 1, Len(s))
  BY <1>6 DEF RecvMessage
<1>8. SubSeq(s, 1, n) = m /\ SubSeq(s, n + 1, Len(s)) = t
  BY <1>1, Unglue DEF s, n
<1>9. n > 0
  BY <1>1
<1> QED
  BY <1>7, <1>8, <1>9 DEF s

\* What is shorter than the message it begins is not one.
LEMMA NoMessage ==
  ASSUME NEW m, Whole(m), NEW s \in Texts, Len(s) < Len(m), \A i \in 1 .. Len(s) : s[i] = m[i]
  PROVE  ~ RecvMessage(s).ok /\ RecvMessage(s).in = s
<1> DEFINE ends == { i \in 2 .. Len(s) : s[i - 1] = "\r" /\ s[i] = "\n" }
<1>1. /\ m \in Texts /\ Len(m) >= 2 /\ \A i \in 1 .. Len(m) - 2 : m[i] # "\r"
      /\ Len(m) \in Nat /\ Len(s) \in Nat
  BY DEF Whole, Texts
<1>2. ends = {}
  <2> SUFFICES ASSUME NEW i \in ends PROVE FALSE
    OBVIOUS
  <2>1. i \in 2 .. Len(s) /\ s[i - 1] = "\r"
    OBVIOUS
  <2>2. i - 1 \in 1 .. Len(m) - 2 /\ i - 1 \in 1 .. Len(s)
    BY <1>1, <2>1
  <2> QED
    BY <1>1, <2>1, <2>2
<1>3. MessageEnd(s) = 0
  BY <1>2 DEF MessageEnd
<1>4. /\ RecvMessage(s).ok <=> MessageEnd(s) > 0
      /\ RecvMessage(s).in = SubSeq(s, MessageEnd(s) + 1, Len(s))
  BY DEF RecvMessage
<1>5. SubSeq(s, 1, Len(s)) = s
  BY SubSeqFull DEF Texts
<1>6. MessageEnd(s) + 1 = 1 /\ ~ MessageEnd(s) > 0
  BY <1>3
<1> QED
  BY <1>4, <1>5, <1>6

\* Nor is the empty text.
LEMMA Nothing == /\ ~ RecvMessage(<<>>).ok
                 /\ RecvMessage(<<>>).out = <<>> /\ RecvMessage(<<>>).in = <<>>
<1>1. MessageEnd(<<>>) = 0
  BY DEF MessageEnd
<1>2. SubSeq(<<>>, 1, 0) = <<>> /\ SubSeq(<<>>, 1, Len(<<>>)) = <<>>
  BY SubSeqEmpty
<1>3. /\ RecvMessage(<<>>).ok <=> MessageEnd(<<>>) > 0
      /\ RecvMessage(<<>>).out = SubSeq(<<>>, 1, MessageEnd(<<>>))
      /\ RecvMessage(<<>>).in = SubSeq(<<>>, MessageEnd(<<>>) + 1, Len(<<>>))
  BY DEF RecvMessage
<1>4. MessageEnd(<<>>) + 1 = 1 /\ ~ MessageEnd(<<>>) > 0
  BY <1>1
<1> QED
  BY <1>1, <1>2, <1>3, <1>4

\* A text without the first character of END becomes a message, and is taken out of it again.
LEMMA Enveloped ==
  ASSUME NEW text \in Texts, \A i \in 1 .. Len(text) : text[i] # "\r"
  PROVE  Whole(Encode(text)) /\ Decode(Encode(text)) = text
<1> DEFINE end == <<"\r", "\n">>
           m == Glue(text, end)
           L == Len(text)
           places == { i \in 1 .. Len(m) : m[i] = "\r" }
<1>1. end \in Texts /\ Len(end) = 2 /\ end[1] = "\r" /\ end[2] = "\n"
  BY ConstantSymbols DEF Texts
<1> HIDE DEF end
<1>2. /\ m \in Texts /\ L \in Nat /\ Len(m) = L + 2 /\ \A i \in 1 .. L : m[i] = text[i]
      /\ \A i \in 1 .. 2 : m[L + i] = end[i]
  <2>1. /\ m \in Texts /\ L \in Nat /\ Len(m) = L + Len(end) /\ \A i \in 1 .. L : m[i] = text[i]
        /\ \A i \in 1 .. Len(end) : m[L + i] = end[i]
    BY <1>1, Glued
  <2> QED
    BY <1>1, <2>1
<1>3. Encode(text) = m
  BY DEF Encode, Glue, end
<1> HIDE DEF m, L
<1>4. m[L + 1] = "\r" /\ m[L + 2] = "\n" /\ \A i \in 1 .. L : m[i] # "\r"
  BY <1>1, <1>2 DEF L
<1>5. Whole(m)
  <2>1. Len(m) - 1 = L + 1 /\ Len(m) - 2 = L
    BY <1>2
  <2> QED
    BY <1>2, <1>4, <2>1 DEF Whole
<1>6. FindFrom(m, "\r", 1) = L + 1
  <2>1. L + 1 \in places
    BY <1>2, <1>4
  <2>2. \A i \in places : i \in Int /\ L + 1 <= i
    BY <1>2, <1>4
  <2>3. \A i \in places : (\A j \in places : i <= j) => i = L + 1
    BY <1>2, <2>1, <2>2
  <2>4. FindFrom(m, "\r", 1) = IF places = {} THEN Len(m) + 1 ELSE CHOOSE i \in places : \A j \in places : i <= j
    BY DEF FindFrom
  <2> HIDE DEF places
  <2> QED
    BY <2>1, <2>2, <2>3, <2>4
<1>7. Decode(m) = SubSeq(m, 1, L)
  <2>1. FindFrom(m, "\r", 1) - 1 = L
    BY <1>2, <1>6
  <2>2. Decode(m) = SubSeq(m, 1, FindFrom(m, "\r", 1) - 1)
    BY DEF Decode
  <2> QED
    BY <2>1, <2>2
<1>8. SubSeq(m, 1, L) = text
  BY <1>1, Unglue DEF m, L
<1> QED
  BY <1>3, <1>5, <1>7, <1>8
-------------------------------------------------------------------------------
(* Numbers and equations as text. *)

\* A number is written as a word that stands for no other, and is not read as anything else.
LEMMA Written ==
  ASSUME NEW n \in Numbers
  PROVE  /\ Numeral[n] \in Symbols \ {"SEP", "\r", "\n", "op", "x", "y", "exitcode", "num"}
         /\ Stoi(Numeral[n]) = n
<1>1. Numeral[n] \in STRING \ {"SEP", "\r", "\n", "op", "x", "y", "exitcode", "num"}
  BY ProtocolAssumption DEF ProtocolAssumption
<1>2. \A m \in Numbers : Numeral[m] = Numeral[n] => m = n
  BY ProtocolAssumption DEF ProtocolAssumption
<1>3. Stoi(Numeral[n]) = n
  BY <1>2 DEF Stoi
<1>4. Numeral[n] \in Symbols
  BY DEF Symbols
<1> QED
  BY <1>1, <1>3, <1>4

\* So is an operation.
LEMMA OpWritten ==
  ASSUME NEW c \in Ops \cup {"?"}
  PROVE  CharCode[c] \in 0 .. 127 /\ CharOf(CharCode[c]) = c /\ c \in Symbols \ {"SEP", "\r"}
<1>1. /\ CharCode["+"] = 43 /\ CharCode["-"] = 45 /\ CharCode["*"] = 42
      /\ CharCode["/"] = 47 /\ CharCode["%"] = 37 /\ CharCode["?"] = 63
      /\ DOMAIN CharCode = {"+", "-", "*", "/", "%", "?"}
  BY DEF CharCode
<1>2. c \in {"+", "-", "*", "/", "%", "?"}
  BY DEF Ops
<1>3. CharCode[c] \in 0 .. 127
  BY <1>1, <1>2
<1>4. \A d \in DOMAIN CharCode : CharCode[d] = CharCode[c] => d = c
  BY <1>1, <1>2
<1>5. CharOf(CharCode[c]) = c
  BY <1>1, <1>2, <1>4 DEF CharOf
<1>6. c \in Symbols \ {"SEP", "\r"}
  BY <1>2 DEF Symbols, Ops
<1> QED
  BY <1>3, <1>5, <1>6

\* The place of a character that is known to be the first.
LEMMA FoundAt ==
  ASSUME NEW text \in Texts, NEW char, NEW from \in Nat \ {0}, NEW k \in from .. Len(text),
         text[k] = char, \A i \in from .. k - 1 : text[i] # char
  PROVE  FindFrom(text, char, from) = k
<1> DEFINE places == { i \in from .. Len(text) : text[i] = char }
<1>0. Len(text) \in Nat
  BY DEF Texts
<1>1. k \in places /\ k \in Int
  BY <1>0
<1>2. \A i \in places : i \in Int /\ k <= i
  BY <1>0
<1>3. \A i \in places : (\A j \in places : i <= j) => i = k
  BY <1>1, <1>2
<1>4. FindFrom(text, char, from) = IF places = {} THEN Len(text) + 1 ELSE CHOOSE i \in places : \A j \in places : i <= j
  BY DEF FindFrom
<1> HIDE DEF places
<1> QED
  BY <1>1, <1>2, <1>3, <1>4

\* An equation that is written is read as what it was, and has no END in it.
LEMMA RequestText ==
  ASSUME NEW e \in Equations, NEW f \in Formats
  PROVE  LET text == SerializeRequest(f, e)
         IN  /\ text \in Texts /\ \A i \in 1 .. Len(text) : text[i] # "\r"
             /\ DeserializeRequest(f, text) = e
<1> DEFINE text == SerializeRequest(f, e)
<1>1. e.x \in Numbers /\ e.y \in Numbers /\ e.op \in Ops \cup {"?"} /\ e = [x |-> e.x, y |-> e.y, op |-> e.op]
  BY IntRange DEF Equations
<1>2. CharCode[e.op] \in Numbers /\ CharOf(CharCode[e.op]) = e.op /\ e.op \in Symbols \ {"SEP", "\r"}
  BY <1>1, OpWritten DEF Numbers
<1> DEFINE nx == Numeral[e.x]
           ny == Numeral[e.y]
           no == Numeral[CharCode[e.op]]
           words == Symbols \ {"SEP", "\r", "\n", "op", "x", "y", "exitcode", "num"}
<1>3. nx \in words /\ ny \in words /\ no \in words
      /\ Stoi(nx) = e.x /\ Stoi(ny) = e.y /\ Stoi(no) = CharCode[e.op]
  BY <1>1, <1>2, Written
<1>4. CASE f = "MYSELF"
  <2>1. text = <<nx, "SEP", ny, "SEP", e.op>>
    BY <1>4 DEF SerializeRequest
  <2> HIDE DEF nx, ny, no, text
  <2>2. /\ text \in Texts /\ Len(text) = 5
        /\ text[1] = nx /\ text[2] = "SEP" /\ text[3] = ny /\ text[4] = "SEP" /\ text[5] = e.op
    BY <1>2, <1>3, <2>1, ConstantSymbols DEF Texts
  <2>3. \A i \in 1 .. 5 : text[i] # "\r"
    BY <1>2, <1>3, <2>2
  <2>4. FindFrom(text, "SEP", 1) = 2
    <3>1. 2 \in 1 .. Len(text) /\ \A i \in 1 .. 2 - 1 : text[i] # "SEP"
      BY <1>3, <2>2
    <3> QED
      BY <2>2, <3>1, FoundAt
  <2>5. FindFrom(text, "SEP", 2 + 1) = 4
    <3>1. 4 \in 2 + 1 .. Len(text) /\ \A i \in 2 + 1 .. 4 - 1 : text[i] # "SEP"
      BY <1>3, <2>2
    <3> QED
      BY <2>2, <3>1, FoundAt
  <2>6. DeserializeRequest(f, text) = [x |-> Stoi(text[2 - 1]), y |-> Stoi(text[4 - 1]), op |-> text[Len(text)]]
    BY <1>4, <2>4, <2>5 DEF DeserializeRequest
  <2>7. DeserializeRequest(f, text) = e
    BY <1>1, <1>3, <2>2, <2>6
  <2> QED
    BY <2>2, <2>3, <2>7 DEF text
<1>5. CASE f = "JSON"
  <2>1. text = <<"op", no, "x", nx, "y", ny, "\n">>
    BY <1>5 DEF SerializeRequest
  <2> HIDE DEF nx, ny, no, text
  <2>2. /\ text \in Texts /\ Len(text) = 7
        /\ text[1] = "op" /\ text[2] = no /\ text[3] = "x" /\ text[4] = nx
        /\ text[5] = "y" /\ text[6] = ny /\ text[7] = "\n"
    BY <1>2, <1>3, <2>1, ConstantSymbols DEF Texts
  <2>3. \A i \in 1 .. 7 : text[i] # "\r"
    BY <1>2, <1>3, <2>2
  <2>4. FindFrom(text, "op", 1) = 1
    <3>1. 1 \in 1 .. Len(text) /\ \A i \in 1 .. 1 - 1 : text[i] # "op"
      BY <2>2
    <3> QED
      BY <2>2, <3>1, FoundAt
  <2>5. FindFrom(text, "x", 1) = 3
    <3>1. 3 \in 1 .. Len(text) /\ \A i \in 1 .. 3 - 1 : text[i] # "x"
      BY <1>3, <2>2
    <3> QED
      BY <2>2, <3>1, FoundAt
  <2>6. FindFrom(text, "y", 1) = 5
    <3>1. 5 \in 1 .. Len(text) /\ \A i \in 1 .. 5 - 1 : text[i] # "y"
      BY <1>3, <2>2
    <3> QED
      BY <2>2, <3>1, FoundAt
  <2>7. AsInt(text, "op") = CharCode[e.op] /\ AsInt(text, "x") = e.x /\ AsInt(text, "y") = e.y
    BY <1>3, <2>2, <2>4, <2>5, <2>6 DEF AsInt
  <2>8. DeserializeRequest(f, text) = e
    BY <1>1, <1>2, <1>5, <2>7 DEF DeserializeRequest
  <2> QED
    BY <2>2, <2>3, <2>8 DEF text
<1> QED
  BY <1>4, <1>5 DEF Formats

\* So is a result.
LEMMA ResponseText ==
  ASSUME NEW r, r = [num |-> r.num, code |-> r.code], r.num \in Ints, r.code \in 0 .. 4, NEW f \in Formats
  PROVE  LET text == SerializeResponse(f, r)
         IN  /\ text \in Texts /\ \A i \in 1 .. Len(text) : text[i] # "\r"
             /\ DeserializeResponse(f, text) = r
<1> DEFINE text == SerializeResponse(f, r)
           nn == Numeral[r.num]
           nc == Numeral[r.code]
           words == Symbols \ {"SEP", "\r", "\n", "op", "x", "y", "exitcode", "num"}
<1>1. r.num \in Numbers /\ r.code \in Numbers
  BY IntRange DEF Numbers
<1>2. nn \in words /\ nc \in words /\ Stoi(nn) = r.num /\ Stoi(nc) = r.code
  BY <1>1, Written
<1>3. CASE f = "MYSELF"
  <2>1. text = <<nn, "SEP", nc>>
    BY <1>3 DEF SerializeResponse
  <2> HIDE DEF nn, nc, text
  <2>2. text \in Texts /\ Len(text) = 3 /\ text[1] = nn /\ text[2] = "SEP" /\ text[3] = nc
    BY <1>2, <2>1, ConstantSymbols DEF Texts
  <2>3. \A i \in 1 .. 3 : text[i] # "\r"
    BY <1>2, <2>2
  <2>4. FindFrom(text, "SEP", 1) = 2
    <3>1. 2 \in 1 .. Len(text) /\ \A i \in 1 .. 2 - 1 : text[i] # "SEP"
      BY <1>2, <2>2
    <3> QED
      BY <2>2, <3>1, FoundAt
  <2>5. DeserializeResponse(f, text) = [num |-> Stoi(text[2 - 1]), code |-> Stoi(text[Len(text)])]
    BY <1>3, <2>4 DEF DeserializeResponse
  <2>6. DeserializeResponse(f, text) = r
    BY <1>2, <2>2, <2>5
  <2> QED
    BY <2>2, <2>3, <2>6 DEF text
<1>4. CASE f = "JSON"
  <2>1. text = <<"exitcode", nc, "num", nn, "\n">>
    BY <1>4 DEF SerializeResponse
  <2> HIDE DEF nn, nc, text
  <2>2. /\ text \in Texts /\ Len(text) = 5
        /\ text[1] = "exitcode" /\ text[2] = nc /\ text[3] = "num" /\ text[4] = nn /\ text[5] = "\n"
    BY <1>2, <2>1, ConstantSymbols DEF Texts
  <2>3. \A i \in 1 .. 5 : text[i] # "\r"
    BY <1>2, <2>2
  <2>4. FindFrom(text, "exitcode", 1) = 1
    <3>1. 1 \in 1 .. Len(text) /\ \A i \in 1 .. 1 - 1 : text[i] # "exitcode"
      BY <2>2
    <3> QED
      BY <2>2, <3>1, FoundAt
  <2>5. FindFrom(text, "num", 1) = 3
    <3>1. 3 \in 1 .. Len(text) /\ \A i \in 1 .. 3 - 1 : text[i] # "num"
      BY <1>2, <2>2
    <3> QED
      BY <2>2, <3>1, FoundAt
  <2>6. AsInt(text, "exitcode") = r.code /\ AsInt(text, "num") = r.num
    BY <1>2, <2>2, <2>4, <2>5 DEF AsInt
  <2>7. DeserializeResponse(f, text) = r
    BY <1>4, <2>6 DEF DeserializeResponse
  <2> QED
    BY <2>2, <2>3, <2>7 DEF text
<1> QED
  BY <1>3, <1>4 DEF Formats

\* An equation as it is sent, and the answer to it.
Question(f, e) == Encode(SerializeRequest(f, e))
Reply(f, e) == Encode(SerializeResponse(f, Calculator(e)))

\* Whatever is asked and answered arrives as a whole message and is understood.
LEMMA Understood ==
  ASSUME NEW e \in Equations, NEW f \in Formats
  PROVE  /\ Whole(Question(f, e)) /\ DeserializeRequest(f, Decode(Question(f, e))) = e
         /\ ~ Traps(e) => /\ Whole(Reply(f, e))
                          /\ DeserializeResponse(f, Decode(Reply(f, e))) = Calculator(e)
<1>1. Whole(Question(f, e)) /\ DeserializeRequest(f, Decode(Question(f, e))) = e
  <2> DEFINE text == SerializeRequest(f, e)
  <2>1. text \in Texts /\ (\A i \in 1 .. Len(text) : text[i] # "\r") /\ DeserializeRequest(f, text) = e
    BY RequestText
  <2> HIDE DEF text
  <2>2. Whole(Encode(text)) /\ Decode(Encode(text)) = text
    BY <2>1, Enveloped
  <2> QED
    BY <2>1, <2>2 DEF text, Question
<1>2. ASSUME ~ Traps(e)
      PROVE  Whole(Reply(f, e)) /\ DeserializeResponse(f, Decode(Reply(f, e))) = Calculator(e)
  <2> DEFINE r == Calculator(e)
             text == SerializeResponse(f, r)
  <2>1. r = [num |-> r.num, code |-> r.code] /\ r.num \in Ints /\ r.code \in 0 .. 4
    BY <1>2, Calculated
  <2> HIDE DEF r
  <2>2. text \in Texts /\ (\A i \in 1 .. Len(text) : text[i] # "\r") /\ DeserializeResponse(f, text) = r
    BY <2>1, ResponseText
  <2> HIDE DEF text
  <2>3. Whole(Encode(text)) /\ Decode(Encode(text)) = text
    BY <2>2, Enveloped
  <2> QED
    BY <2>2, <2>3 DEF text, r, Reply
<1> QED
  BY <1>1, <1>2

\* A buffer that begins what is under way has a part of the first message, or all of it.
LEMMA Cut ==
  ASSUME NEW m, Whole(m), NEW buf \in Texts, NEW rest \in Texts, NEW t \in Texts,
         Glue(buf, rest) = Glue(m, t)
  PROVE  \/ Len(buf) < Len(m) /\ ~ RecvMessage(buf).ok /\ RecvMessage(buf).in = buf
         \/ \E u \in Texts : buf = Glue(m, u) /\ Glue(u, rest) = t
<1> DEFINE n == Len(m)
           u == SubSeq(buf, n + 1, Len(buf))
           a == SubSeq(buf, 1, n)
<1>1. m \in Texts /\ n \in Nat /\ n >= 2 /\ Len(buf) \in Nat
  BY DEF Whole, Texts
<1>2. /\ \A i \in 1 .. Len(buf) : Glue(buf, rest)[i] = buf[i]
      /\ \A i \in 1 .. n : Glue(m, t)[i] = m[i]
  BY <1>1, Glued
<1>3. \A i \in 1 .. n : i \in 1 .. Len(buf) => buf[i] = m[i]
  BY <1>1, <1>2
<1> HIDE DEF n
<1>4. CASE Len(buf) < n
  <2>1. \A i \in 1 .. Len(buf) : buf[i] = m[i]
    BY <1>1, <1>3, <1>4
  <2>2. ~ RecvMessage(buf).ok /\ RecvMessage(buf).in = buf
    BY <1>4, <2>1, NoMessage DEF n
  <2> QED
    BY <1>4, <2>2 DEF n
<1>5. CASE n <= Len(buf)
  <2>1. n \in 0 .. Len(buf) /\ n \in 1 .. Len(buf) + 1 /\ 1 \in 1 .. Len(buf) + 1 /\ 1 <= n + 1
        /\ n + 1 \in 1 .. Len(buf) + 1 /\ Len(buf) \in 0 .. Len(buf) /\ n + 1 <= Len(buf) + 1
    BY <1>1, <1>5
  <2>2. Glue(a, u) = buf
    BY <2>1, Halves
  <2>3. u \in Texts
    BY <2>1, Piece
  <2>4. a \in Texts /\ Len(a) = n + 1 - 1 /\ \A i \in 1 .. n + 1 - 1 : a[i] = buf[1 + i - 1]
    BY <2>1, Piece
  <2> HIDE DEF a, u
  <2>5. a \in Texts /\ Len(a) = n /\ \A i \in 1 .. n : a[i] = m[i]
    <3>1. n + 1 - 1 = n /\ \A i \in 1 .. n : 1 + i - 1 = i /\ i \in 1 .. Len(buf)
      BY <1>1, <1>5
    <3> QED
      BY <1>3, <2>4, <3>1
  <2>6. a = m
    BY <1>1, <2>5, SameText DEF n
  <2>7. buf = Glue(m, u)
    BY <2>2, <2>6
  <2>8. Glue(m, Glue(u, rest)) = Glue(m, t)
    BY <1>1, <2>3, <2>7, GlueThree
  <2>9. Glue(u, rest) = t
    <3>1. Glue(u, rest) \in Texts
      BY <2>3, Glued
    <3>2. SubSeq(Glue(m, t), Len(m) + 1, Len(Glue(m, t))) = t
      BY <1>1, Unglue
    <3>3. SubSeq(Glue(m, Glue(u, rest)), Len(m) + 1, Len(Glue(m, Glue(u, rest)))) = Glue(u, rest)
      BY <1>1, <3>1, Unglue
    <3> QED
      BY <2>8, <3>2, <3>3
  <2> QED
    BY <2>3, <2>7, <2>9
<1> QED
  BY <1>1, <1>4, <1>5

-------------------------------------------------------------------------------
(* The loop of cal_IO. *)

State(i, o, t) == [in |-> i, out |-> o, trap |-> t]

\* A round that has nothing to do.
LEMMA IdleRound ==
  ASSUME NEW f, NEW i, NEW o, NEW t \in BOOLEAN, t \/ ~ RecvMessage(i).ok
  PROVE  CalRound(f, State(i, o, t)) = State(i, o, t)
  BY DEF CalRound, State

\* A round that answers.
LEMMA AnswerRound ==
  ASSUME NEW f \in Formats, NEW e \in Equations, NEW t \in Texts, NEW o
  PROVE  LET i == Glue(Question(f, e), t)
         IN  /\ Traps(e) => CalRound(f, State(i, o, FALSE)) = State(i, o, TRUE)
             /\ ~ Traps(e) => CalRound(f, State(i, o, FALSE)) = State(t, Glue(o, Reply(f, e)), FALSE)
<1> DEFINE i == Glue(Question(f, e), t)
           b == State(i, o, FALSE)
           m == RecvMessage(i)
<1>1. m.ok /\ m.out = Question(f, e) /\ m.in = t
  BY Understood, FirstMessage
<1>2. DeserializeRequest(f, Decode(m.out)) = e
  BY <1>1, Understood
<1> HIDE DEF i
<1>3. b.in = i /\ b.out = o /\ ~ b.trap
  BY DEF State
<1>4. ASSUME Traps(e) PROVE CalRound(f, b) = State(i, o, TRUE)
  <2>1. CalRound(f, b) = [in |-> b.in, out |-> b.out, trap |-> TRUE]
    BY <1>1, <1>2, <1>3, <1>4 DEF CalRound
  <2> QED
    BY <1>3, <2>1 DEF State
<1>5. ASSUME ~ Traps(e) PROVE CalRound(f, b) = State(t, Glue(o, Reply(f, e)), FALSE)
  <2>1. CalRound(f, b) = [in |-> m.in, out |-> b.out \o Encode(SerializeResponse(f, Calculator(e))), trap |-> FALSE]
    BY <1>1, <1>2, <1>3, <1>5 DEF CalRound
  <2> QED
    BY <1>1, <1>3, <2>1 DEF State, Glue, Reply
<1> QED
  BY <1>4, <1>5 DEF i

\* After two rounds that leave nothing to do the others change nothing.
LEMMA TwoRounds ==
  ASSUME NEW f, NEW input \in Texts, NEW output, NEW b1, NEW b2,
         b1 = CalRound(f, State(input, output, FALSE)), b2 = CalRound(f, b1), CalRound(f, b2) = b2,
         (b1 = b2 /\ b1 = State(input, output, FALSE)) \/ Len(input) >= 2
  PROVE  CalIO(f, input, output) = b2
<1> DEFINE n == Len(input)
           b0 == State(input, output, FALSE)
           Step(g) == [s \in 0 .. n |-> IF s = 0 THEN b0 ELSE CalRound(f, g[s - 1])]
           h == [s \in 0 .. n |-> IF s = 0 THEN b0 ELSE IF s = 1 THEN b1 ELSE b2]
           loop == CHOOSE g : g = Step(g)
<1>1. n \in Nat
  BY DEF Texts
<1>2. CalIO(f, input, output) = loop[n]
  BY DEF CalIO, State
<1> HIDE DEF n, b0
<1>3. h = Step(h)
  <2>1. ASSUME NEW s \in 0 .. n PROVE h[s] = Step(h)[s]
    <3>1. CASE s = 0
      BY <3>1
    <3>2. CASE s = 1
      <4>1. 0 \in 0 .. n /\ s - 1 = 0 /\ s # 0
        BY <1>1, <3>2
      <4>2. h[0] = b0 /\ h[s] = b1
        BY <3>2, <4>1
      <4> QED
        BY <4>1, <4>2 DEF b0
    <3>3. CASE s = 2
      <4>1. 1 \in 0 .. n /\ s - 1 = 1 /\ s # 0 /\ s # 1 /\ 1 # 0
        BY <1>1, <3>3
      <4>2. h[1] = b1 /\ h[s] = b2
        BY <3>3, <4>1
      <4> QED
        BY <4>1, <4>2
    <3>4. CASE s > 2
      <4>1. s - 1 \in 0 .. n /\ s # 0 /\ s # 1 /\ s - 1 # 0 /\ s - 1 # 1
        BY <1>1, <3>4
      <4>2. h[s - 1] = b2 /\ h[s] = b2
        BY <4>1
      <4> QED
        BY <4>1, <4>2
    <3> QED
      BY <1>1, <3>1, <3>2, <3>3, <3>4
  <2> HIDE DEF h
  <2>2. DOMAIN h = 0 .. n /\ h = [s \in 0 .. n |-> h[s]]
    BY DEF h
  <2> QED
    BY <2>1, <2>2
<1>4. loop = Step(loop)
  <2> HIDE DEF h, Step
  <2> QED
    BY <1>3
<1> HIDE DEF loop
<1>5. /\ \A s \in 0 .. n : loop[s] = IF s = 0 THEN b0 ELSE CalRound(f, loop[s - 1])
      /\ \A s \in 0 .. n : h[s] = IF s = 0 THEN b0 ELSE CalRound(f, h[s - 1])
  <2>1. \A s \in 0 .. n : Step(loop)[s] = IF s = 0 THEN b0 ELSE CalRound(f, loop[s - 1])
    OBVIOUS
  <2>2. \A s \in 0 .. n : Step(h)[s] = IF s = 0 THEN b0 ELSE CalRound(f, h[s - 1])
    <3> HIDE DEF h
    <3> QED
      OBVIOUS
  <2> HIDE DEF h, Step
  <2> QED
    BY <1>3, <1>4, <2>1, <2>2
<1> HIDE DEF h, Step
<1>6. \A s \in 0 .. n : loop[s] = h[s]
  <2> DEFINE bad == {s \in 0 .. n : loop[s] # h[s]}
  <2> SUFFICES ASSUME bad # {} PROVE FALSE
    OBVIOUS
  <2>1. bad \in SUBSET Nat
    BY <1>1
  <2>2. PICK s \in bad : \A r \in bad : s <= r
    <3> HIDE DEF bad
    <3> QED
      BY <2>1, LeastOf
  <2>3. s # 0
    BY <1>5
  <2>4. s - 1 \in 0 .. n /\ ~ s <= s - 1 /\ s \in 0 .. n
    BY <1>1, <2>3
  <2>5. loop[s - 1] = h[s - 1]
    BY <2>2, <2>4
  <2> QED
    BY <1>5, <2>3, <2>4, <2>5
<1>7. loop[n] = h[n] /\ n \in 0 .. n
  BY <1>1, <1>6
<1>8. h[n] = b2
  <2>1. h[n] = IF n = 0 THEN b0 ELSE IF n = 1 THEN b1 ELSE b2
    BY <1>7 DEF h
  <2>2. (b1 = b2 /\ b1 = b0) \/ n >= 2
    BY DEF n, b0
  <2>3. CASE n >= 2
    <3>1. n # 0 /\ n # 1
      BY <1>1, <2>3
    <3> QED
      BY <2>1, <3>1
  <2>4. CASE b1 = b2 /\ b1 = b0
    BY <2>1, <2>4
  <2> QED
    BY <2>2, <2>3, <2>4
<1> QED
  BY <1>2, <1>7, <1>8

\* What cal_IO leaves of a buffer and writes.
LEMMA NoneAnswered ==
  ASSUME NEW f, NEW i \in Texts, NEW o, ~ RecvMessage(i).ok
  PROVE  CalIO(f, i, o) = State(i, o, FALSE)
<1> DEFINE b == State(i, o, FALSE)
<1>1. CalRound(f, b) = b
  BY IdleRound
<1> QED
  BY <1>1, TwoRounds

\* The first message of a buffer is answered, and what is behind it.
LEMMA OneAnswered ==
  ASSUME NEW f \in Formats, NEW e \in Equations, NEW t \in Texts, NEW o
  PROVE  LET i == Glue(Question(f, e), t)
             a == Glue(o, Reply(f, e))
         IN  /\ Traps(e) => CalIO(f, i, o) = State(i, o, TRUE)
             /\ ~ Traps(e) /\ ~ RecvMessage(t).ok => CalIO(f, i, o) = State(t, a, FALSE)
<1> DEFINE i == Glue(Question(f, e), t)
           a == Glue(o, Reply(f, e))
           b == State(i, o, FALSE)
<1>1. i \in Texts /\ Len(i) >= 2
  BY Understood, Glued DEF Whole
<1>2. /\ Traps(e) => CalRound(f, b) = State(i, o, TRUE)
      /\ ~ Traps(e) => CalRound(f, b) = State(t, a, FALSE)
  BY AnswerRound
<1>3. CalRound(f, State(i, o, TRUE)) = State(i, o, TRUE)
  BY IdleRound
<1>4. ~ RecvMessage(t).ok => CalRound(f, State(t, a, FALSE)) = State(t, a, FALSE)
  BY IdleRound
<1> HIDE DEF i, a
<1>5. Traps(e) => CalIO(f, i, o) = State(i, o, TRUE)
  BY <1>1, <1>2, <1>3, TwoRounds
<1>6. ~ Traps(e) /\ ~ RecvMessage(t).ok => CalIO(f, i, o) = State(t, a, FALSE)
  BY <1>1, <1>2, <1>4, TwoRounds
<1> QED
  BY <1>5, <1>6 DEF i, a

\* A buffer of two messages and a rest in which there is none.
Two(f, e, d, t, o) ==
  LET j == Glue(Question(f, d), t)
      i == Glue(Question(f, e), j)
      a == Glue(o, Reply(f, e))
  IN  /\ Traps(d) => CalIO(f, i, o) = State(j, a, TRUE)
      /\ ~ Traps(d) => CalIO(f, i, o) = State(t, Glue(a, Reply(f, d)), FALSE)

\* Both are answered.
LEMMA TwoAnswered ==
  ASSUME NEW f \in Formats, NEW e \in Equations, NEW d \in Equations, NEW t \in Texts, NEW o,
         ~ Traps(e), ~ RecvMessage(t).ok
  PROVE  Two(f, e, d, t, o)
<1> DEFINE j == Glue(Question(f, d), t)
           i == Glue(Question(f, e), j)
           a == Glue(o, Reply(f, e))
           z == Glue(a, Reply(f, d))
           b == State(i, o, FALSE)
<1>1. j \in Texts
  BY Understood, Glued DEF Whole
<1>2. i \in Texts /\ Len(i) >= 2
  <2>1. Question(f, e) \in Texts /\ Len(Question(f, e)) >= 2
    BY Understood DEF Whole
  <2> HIDE DEF j
  <2> QED
    BY <1>1, <2>1, Glued
<1>3. /\ Traps(d) => CalRound(f, State(j, a, FALSE)) = State(j, a, TRUE)
      /\ ~ Traps(d) => CalRound(f, State(j, a, FALSE)) = State(t, z, FALSE)
  BY AnswerRound
<1> HIDE DEF j
<1>4. CalRound(f, b) = State(j, a, FALSE)
  BY <1>1, AnswerRound
<1>5. CalRound(f, State(j, a, TRUE)) = State(j, a, TRUE)
  BY IdleRound
<1>6. CalRound(f, State(t, z, FALSE)) = State(t, z, FALSE)
  BY IdleRound
<1> HIDE DEF i, a, z
<1>7. Traps(d) => CalIO(f, i, o) = State(j, a, TRUE)
  BY <1>2, <1>3, <1>4, <1>5, TwoRounds
<1>8. ~ Traps(d) => CalIO(f, i, o) = State(t, z, FALSE)
  BY <1>2, <1>3, <1>4, <1>6, TwoRounds
<1> QED
  BY <1>7, <1>8 DEF i, j, a, z, Two

-------------------------------------------------------------------------------
(* What the client and the server have exchanged. *)

\* The answers to the first a equations, and the questions that are left.
Replies(f, eqs, a) ==
  CASE a = 0 -> <<>>
    [] a = 1 -> Reply(f, eqs[1])
    [] OTHER -> Glue(Reply(f, eqs[1]), Reply(f, eqs[2]))
Questions(f, eqs, a) ==
  CASE a = Len(eqs) -> <<>>
    [] a + 1 = Len(eqs) -> Question(f, eqs[a + 1])
    [] OTHER -> Glue(Question(f, eqs[1]), Question(f, eqs[2]))

\* The first a equations are answered: the client has received a part of the answers, and
\* the rest is in _outbuf.
Answered(f, eqs, s, o, a) ==
  /\ Glue(s, o) = Replies(f, eqs, a)
  /\ \A k \in 1 .. a : ~ Traps(eqs[k])

\* What is in the buffer of the server and under way are the other equations, and in the
\* buffer there is none of them whole.
Left(f, eqs, w, i, a) ==
  /\ Glue(i, w) = Questions(f, eqs, a)
  /\ a < Len(eqs) => Len(i) < Len(Question(f, eqs[a + 1]))

CalcTypes == /\ format \in Formats \cup {"off"} /\ conn \in {"open", "closed", "killed"}
             /\ equations \in Seq(Equations) /\ Len(equations) <= 2
             /\ format = "off" => equations = <<>>
             /\ wire \in Texts /\ inbuf \in Texts /\ outbuf \in Texts /\ received \in Texts

\* The inductive invariant.
CalcIInv == /\ CalcTypes
            /\ \E a \in 0 .. Len(equations) :
                 /\ Answered(format, equations, received, outbuf, a)
                 /\ conn # "killed" => Left(format, equations, wire, inbuf, a)
            /\ conn = "closed" => outbuf = <<>> /\ inbuf # <<>>

\* Questions and answers are texts.
LEMMA Texted ==
  ASSUME NEW f \in Formats, NEW e \in Equations
  PROVE  /\ Question(f, e) \in Texts /\ Len(Question(f, e)) >= 2
         /\ ~ Traps(e) => Reply(f, e) \in Texts /\ Len(Reply(f, e)) >= 2
  BY Understood DEF Whole

\* One question is left: it is answered as soon as the whole of it is in the buffer.
LEMMA ReadOne ==
  ASSUME NEW f \in Formats, NEW e \in Equations, NEW buf \in Texts, NEW rest \in Texts, NEW o \in Texts,
         Glue(buf, rest) = Question(f, e)
  PROVE  LET r == CalIO(f, buf, o)
         IN  /\ r.in \in Texts /\ r.out \in Texts /\ r.trap \in BOOLEAN
             /\ r.trap \/ \/ r.in = buf /\ r.out = o /\ Len(buf) < Len(Question(f, e))
                          \/ /\ ~ Traps(e) /\ r.in = <<>> /\ rest = <<>>
                             /\ r.out = Glue(o, Reply(f, e))
<1> DEFINE q == Question(f, e)
           r == CalIO(f, buf, o)
<1>1. Whole(q) /\ q \in Texts /\ <<>> \in Texts /\ Glue(q, <<>>) = q
  BY Understood, Texted, GlueEmpty
<1>2. CASE Len(buf) < Len(q) /\ ~ RecvMessage(buf).ok
  <2>1. r = State(buf, o, FALSE)
    BY <1>2, NoneAnswered
  <2> QED
    BY <1>2, <2>1 DEF State
<1>3. ASSUME NEW u \in Texts, buf = Glue(q, u), Glue(u, rest) = <<>>
      PROVE  /\ r.in \in Texts /\ r.out \in Texts /\ r.trap \in BOOLEAN
             /\ r.trap \/ (~ Traps(e) /\ r.in = <<>> /\ rest = <<>> /\ r.out = Glue(o, Reply(f, e)))
  <2>1. u = <<>> /\ rest = <<>>
    BY <1>3, GlueEmpty
  <2>2. ~ RecvMessage(u).ok
    BY <2>1, Nothing
  <2>3. CASE Traps(e)
    <3>1. r = State(buf, o, TRUE)
      BY <1>3, <2>3, OneAnswered
    <3> QED
      BY <3>1 DEF State
  <2>4. CASE ~ Traps(e)
    <3>1. r = State(u, Glue(o, Reply(f, e)), FALSE)
      BY <1>3, <2>2, <2>4, OneAnswered
    <3>2. Glue(o, Reply(f, e)) \in Texts
      BY <2>4, Texted, Glued
    <3> QED
      BY <2>1, <2>4, <3>1, <3>2 DEF State
  <2> QED
    BY <2>3, <2>4
<1>4. \/ Len(buf) < Len(q) /\ ~ RecvMessage(buf).ok
      \/ \E u \in Texts : buf = Glue(q, u) /\ Glue(u, rest) = <<>>
  <2>1. Glue(buf, rest) = Glue(q, <<>>)
    BY <1>1
  <2> HIDE DEF q
  <2> QED
    BY <1>1, <2>1, Cut
<1> QED
  BY <1>2, <1>3, <1>4

\* Two are left: both may be answered at once.
LEMMA ReadTwo ==
  ASSUME NEW f \in Formats, NEW e \in Equations, NEW d \in Equations,
         NEW buf \in Texts, NEW rest \in Texts, NEW o \in Texts,
         Glue(buf, rest) = Glue(Question(f, e), Question(f, d))
  PROVE  LET r == CalIO(f, buf, o)
         IN  /\ r.in \in Texts /\ r.out \in Texts /\ r.trap \in BOOLEAN
             /\ r.trap \/ \/ r.in = buf /\ r.out = o /\ Len(buf) < Len(Question(f, e))
                          \/ /\ ~ Traps(e) /\ r.out = Glue(o, Reply(f, e))
                             /\ Glue(r.in, rest) = Question(f, d) /\ Len(r.in) < Len(Question(f, d))
                          \/ /\ ~ Traps(e) /\ ~ Traps(d) /\ r.in = <<>> /\ rest = <<>>
                             /\ r.out = Glue(Glue(o, Reply(f, e)), Reply(f, d))
<1> DEFINE q == Question(f, e)
           p == Question(f, d)
           a == Glue(o, Reply(f, e))
           z == Glue(a, Reply(f, d))
           r == CalIO(f, buf, o)
           Right == /\ r.in \in Texts /\ r.out \in Texts /\ r.trap \in BOOLEAN
                    /\ r.trap \/ \/ r.in = buf /\ r.out = o /\ Len(buf) < Len(q)
                                 \/ ~ Traps(e) /\ r.out = a /\ Glue(r.in, rest) = p /\ Len(r.in) < Len(p)
                                 \/ ~ Traps(e) /\ ~ Traps(d) /\ r.in = <<>> /\ rest = <<>> /\ r.out = z
<1>1. /\ Whole(q) /\ q \in Texts
      /\ Whole(p) /\ p \in Texts /\ <<>> \in Texts /\ Glue(p, <<>>) = p
  BY Understood, Texted, GlueEmpty
<1>2. CASE Len(buf) < Len(q) /\ ~ RecvMessage(buf).ok
  <2>1. r = State(buf, o, FALSE)
    BY <1>2, NoneAnswered
  <2> QED
    BY <1>2, <2>1 DEF State
<1>3. ASSUME NEW u \in Texts, buf = Glue(q, u), Glue(u, rest) = p
      PROVE  Right
  <2>1. ASSUME Traps(e) PROVE Right
    <3>1. r = State(buf, o, TRUE)
      BY <1>3, <2>1, OneAnswered
    <3> QED
      BY <3>1 DEF State
  <2>2. ASSUME ~ Traps(e) PROVE a \in Texts
    BY <2>2, Texted, Glued
  <2>3. ASSUME ~ Traps(e), Len(u) < Len(p), ~ RecvMessage(u).ok PROVE Right
    <3>1. r = State(u, a, FALSE)
      BY <1>3, <2>3, OneAnswered
    <3> QED
      BY <1>3, <2>2, <2>3, <3>1 DEF State
  <2>4. ASSUME ~ Traps(e), NEW v \in Texts, u = Glue(p, v), Glue(v, rest) = <<>> PROVE Right
    <3>1. v = <<>> /\ rest = <<>>
      BY <2>4, GlueEmpty
    <3>2. ~ RecvMessage(v).ok
      BY <3>1, Nothing
    <3>0. Two(f, e, d, v, o)
      BY <2>4, <3>2, TwoAnswered
    <3>3. CASE Traps(d)
      <4>1. r = State(u, a, TRUE)
        BY <1>3, <2>4, <3>0, <3>3 DEF Two
      <4> QED
        BY <2>2, <2>4, <4>1 DEF State
    <3>4. CASE ~ Traps(d)
      <4>1. r = State(v, z, FALSE)
        BY <1>3, <2>4, <3>0, <3>4 DEF Two
      <4>2. z \in Texts
        <5>1. a \in Texts /\ Reply(f, d) \in Texts
          BY <2>2, <2>4, <3>4, Texted
        <5> HIDE DEF a
        <5> QED
          BY <5>1, Glued
      <4> QED
        BY <2>4, <3>1, <3>4, <4>1, <4>2 DEF State
    <3> QED
      BY <3>3, <3>4
  <2>5. \/ Len(u) < Len(p) /\ ~ RecvMessage(u).ok
        \/ \E v \in Texts : u = Glue(p, v) /\ Glue(v, rest) = <<>>
    <3>1. Glue(u, rest) = Glue(p, <<>>)
      BY <1>1, <1>3
    <3> HIDE DEF p
    <3> QED
      BY <1>1, <3>1, Cut
  <2> HIDE DEF Right
  <2> QED
    BY <2>1, <2>3, <2>4, <2>5
<1>4. \/ Len(buf) < Len(q) /\ ~ RecvMessage(buf).ok
      \/ \E u \in Texts : buf = Glue(q, u) /\ Glue(u, rest) = p
  <2> HIDE DEF q, p
  <2>1. Glue(buf, rest) = Glue(q, p)
    BY DEF q, p
  <2> QED
    BY <1>1, <2>1, Cut
<1> QED
  BY <1>2, <1>3, <1>4

-------------------------------------------------------------------------------
(* The steps. *)

\* Before anything is asked.
LEMMA CalcInitIInv == CalcInit => CalcIInv
<1> SUFFICES ASSUME CalcInit PROVE CalcIInv
  OBVIOUS
<1>1. CalcTypes
  <2>1. <<>> \in Texts
    BY GlueEmpty
  <2>2. equations \in Seq(Equations) /\ Len(equations) <= 2
    BY DEF CalcInit
  <2> QED
    BY <2>1, <2>2 DEF CalcInit, CalcTypes
<1>2. Len(equations) = 0
  BY DEF CalcInit
<1>3. /\ Answered(format, equations, received, outbuf, 0)
      /\ Left(format, equations, wire, inbuf, 0)
  BY <1>2, GlueEmpty DEF CalcInit, Answered, Left, Replies, Questions
<1> QED
  BY <1>1, <1>2, <1>3 DEF CalcInit, CalcIInv

\* Both sides are started with the same format.
LEMMA CalcRunIInv == ASSUME CalcIInv, CalcRun PROVE CalcIInv'
<1>1. equations = <<>> /\ Len(equations) = 0
  BY DEF CalcIInv, CalcTypes, CalcRun
<1>2. CalcTypes'
  BY <1>1 DEF CalcIInv, CalcTypes, CalcRun
<1>3. ASSUME NEW a \in 0 .. Len(equations)
      PROVE  /\ Answered(format, equations, received, outbuf, a) =>
                  Answered(format', equations, received, outbuf, a)
             /\ Left(format, equations, wire, inbuf, a) => Left(format', equations, wire, inbuf, a)
  <2>1. a = 0
    BY <1>1
  <2> QED
    BY <1>1, <2>1 DEF Answered, Left, Replies, Questions
<1>4. UNCHANGED <<equations, wire, inbuf, outbuf, received, conn>>
  BY DEF CalcRun
<1> QED
  BY <1>2, <1>3, <1>4 DEF CalcIInv

\* A question more is under way.
LEMMA CalcAskIInv == ASSUME CalcIInv, NEW e \in Equations, CalcAsk(e) PROVE CalcIInv'
<1> DEFINE L == Len(equations)
           E == Append(equations, e)
           q == Question(format, e)
<1>1. /\ format \in Formats /\ equations \in Seq(Equations) /\ L \in {0, 1}
      /\ wire \in Texts /\ inbuf \in Texts /\ outbuf \in Texts /\ received \in Texts
      /\ conn = "open"
  BY DEF CalcIInv, CalcTypes, CalcAsk
<1>2. /\ equations' = E /\ wire' = Glue(wire, q)
      /\ UNCHANGED <<format, inbuf, outbuf, received, conn>>
  BY DEF CalcAsk, Glue, Question
<1>3. E \in Seq(Equations) /\ Len(E) = L + 1 /\ E[L + 1] = e /\ \A k \in 1 .. L : E[k] = equations[k]
  BY <1>1, AppendProperties
<1>4. q \in Texts /\ Len(q) >= 2
  BY <1>1, Texted
<1>5. Glue(wire, q) \in Texts /\ Glue(inbuf, Glue(wire, q)) = Glue(Glue(inbuf, wire), q)
  BY <1>1, <1>4, Glued, GlueThree
<1>6. CalcTypes'
  BY <1>1, <1>2, <1>3, <1>5 DEF CalcTypes, Formats
<1>7. ASSUME NEW a \in 0 .. L, Answered(format, equations, received, outbuf, a),
             Left(format, equations, wire, inbuf, a)
      PROVE  Answered(format, E, received, outbuf, a) /\ Left(format, E, Glue(wire, q), inbuf, a)
  <2> DEFINE w == Glue(wire, q)
  <2>1. Glue(received, outbuf) = Replies(format, E, a)
    <3>1. a \in {0, 1} /\ (a = 1 => L = 1)
      <4> HIDE DEF L
      <4> QED
        BY <1>1
    <3>2. a = 1 => E[1] = equations[1]
      BY <1>3, <3>1
    <3> QED
      BY <1>7, <3>1, <3>2 DEF Answered, Replies
  <2>2. Glue(inbuf, w) = Questions(format, E, a) /\ Len(inbuf) < Len(Question(format, E[a + 1]))
    <3>1. CASE a = L
      <4>1. Glue(inbuf, wire) = <<>>
        BY <1>1, <1>7, <3>1 DEF Left, Questions
      <4>2. inbuf = <<>> /\ Glue(inbuf, w) = q
        BY <1>1, <1>4, <1>5, <4>1, GlueEmpty
      <4>3. Questions(format, E, a) = q
        <5>1. a + 1 = Len(E) /\ a # Len(E) /\ E[a + 1] = e
          BY <1>1, <1>3, <3>1
        <5> QED
          BY <5>1 DEF Questions
      <4>4. Len(inbuf) = 0 /\ E[a + 1] = e
        BY <1>3, <3>1, <4>2
      <4> QED
        BY <1>4, <4>2, <4>3, <4>4
    <3>2. CASE a # L
      <4>0. a = 0 /\ L = 1
        <5> HIDE DEF L
        <5> QED
          BY <1>1, <3>2
      <4>1. a = 0 /\ L = 1 /\ E[1] = equations[1] /\ E[2] = e /\ Len(E) = 2
        BY <1>3, <4>0
      <4>2. Glue(inbuf, wire) = Question(format, equations[1]) /\ Len(inbuf) < Len(Question(format, equations[1]))
        BY <1>7, <4>1 DEF Left, Questions
      <4>3. Questions(format, E, a) = Glue(Question(format, E[1]), Question(format, E[2]))
        BY <4>1 DEF Questions
      <4>4. a + 1 = 1
        BY <4>1
      <4> QED
        BY <1>5, <4>1, <4>2, <4>3, <4>4
    <3> QED
      BY <3>1, <3>2
  <2>3. \A k \in 1 .. a : ~ Traps(E[k])
    BY <1>1, <1>3, <1>7 DEF Answered
  <2> QED
    BY <2>1, <2>2, <2>3 DEF Answered, Left
<1>8. PICK a \in 0 .. L : /\ Answered(format, equations, received, outbuf, a)
                          /\ Left(format, equations, wire, inbuf, a)
  BY <1>1 DEF CalcIInv
<1>9. a \in 0 .. Len(E)
  BY <1>1, <1>3
<1> QED
  BY <1>1, <1>2, <1>6, <1>7, <1>8, <1>9 DEF CalcIInv

\* writer sends a part of what is there; it closes the connection when there is nothing.
LEMMA WriterSends ==
  ASSUME NEW out \in Texts, received \in Texts, conn = "open", Writer(out)
  PROVE  /\ received' \in Texts /\ outbuf' \in Texts
         /\ Glue(received', outbuf') = Glue(received, out)
         /\ \/ conn' = "open"
            \/ conn' = "closed" /\ out = <<>> /\ outbuf' = <<>>
<1>1. CASE out = <<>>
  BY <1>1 DEF Writer
<1>2. CASE out # <<>>
  <2>1. PICK k \in 0 .. Len(out) : /\ received' = Glue(received, SubSeq(out, 1, k))
                                   /\ outbuf' = SubSeq(out, k + 1, Len(out))
    BY <1>2 DEF Writer, Glue
  <2> DEFINE sent == SubSeq(out, 1, k)
             kept == SubSeq(out, k + 1, Len(out))
  <2>2. sent \in Texts /\ kept \in Texts /\ Glue(sent, kept) = out
    <3>1. Len(out) \in Nat
      BY DEF Texts
    <3>2. /\ k \in 0 .. Len(out)
          /\ 1 \in 1 .. Len(out) + 1 /\ 1 <= k + 1
          /\ k + 1 \in 1 .. Len(out) + 1 /\ Len(out) \in 0 .. Len(out) /\ k + 1 <= Len(out) + 1
      BY <3>1
    <3> QED
      BY <3>2, Piece, Halves
  <2> HIDE DEF sent, kept
  <2>3. received' = Glue(received, sent) /\ outbuf' = kept /\ conn' = "open"
    BY <1>2, <2>1 DEF sent, kept, Writer
  <2>4. Glue(received, sent) \in Texts /\ Glue(Glue(received, sent), kept) = Glue(received, out)
    BY <2>2, Glued, GlueThree
  <2> QED
    BY <2>2, <2>3, <2>4
<1> QED
  BY <1>1, <1>2

\* The server reads a piece, wherever it is cut, and answers what is whole.
LEMMA CalcReadIInv == ASSUME CalcIInv, CalcRead PROVE CalcIInv'
<1> DEFINE L == Len(equations)
           E == equations
<1>1. /\ format \in Formats \cup {"off"} /\ E \in Seq(Equations) /\ L \in 0 .. 2
      /\ format = "off" => E = <<>>
      /\ wire \in Texts /\ inbuf \in Texts /\ outbuf \in Texts /\ received \in Texts
      /\ conn = "open"
  <2>1. E \in Seq(Equations) /\ L <= 2
    BY DEF CalcIInv, CalcTypes
  <2>2. L \in Nat
    BY <2>1, LenProperties
  <2>3. L \in 0 .. 2
    <3> HIDE DEF L
    <3> QED
      BY <2>1, <2>2
  <2> QED
    BY <2>1, <2>3 DEF CalcIInv, CalcTypes, CalcRead
<1>2. PICK n \in 1 .. Len(wire) :
        LET r == CalIO(format, inbuf \o SubSeq(wire, 1, n), outbuf)
        IN  \/ r.trap /\ conn' = "killed" /\ UNCHANGED <<wire, inbuf, outbuf, received>>
            \/ /\ ~ r.trap /\ inbuf' = r.in
               /\ wire' = SubSeq(wire, n + 1, Len(wire))
               /\ Writer(r.out)
  BY DEF CalcRead
<1> DEFINE piece == SubSeq(wire, 1, n)
           rest == SubSeq(wire, n + 1, Len(wire))
           buf == Glue(inbuf, piece)
           r == CalIO(format, buf, outbuf)
<1>3. /\ \/ r.trap /\ conn' = "killed" /\ UNCHANGED <<wire, inbuf, outbuf, received>>
         \/ ~ r.trap /\ inbuf' = r.in /\ wire' = rest /\ Writer(r.out)
      /\ UNCHANGED <<format, equations>>
  BY <1>2 DEF CalcRead, Glue
<1>4. piece \in Texts /\ rest \in Texts /\ Glue(piece, rest) = wire
  <2>1. Len(wire) \in Nat
    BY <1>1 DEF Texts
  <2>2. /\ n \in 0 .. Len(wire) /\ n \in 1 .. Len(wire) + 1 /\ 1 \in 1 .. Len(wire) + 1 /\ 1 <= n + 1
        /\ n + 1 \in 1 .. Len(wire) + 1 /\ Len(wire) \in 0 .. Len(wire) /\ n + 1 <= Len(wire) + 1
    BY <2>1
  <2> QED
    BY <1>1, <2>2, Piece, Halves
<1>5. buf \in Texts /\ Glue(buf, rest) = Glue(inbuf, wire)
  <2> HIDE DEF piece, rest
  <2> QED
    BY <1>1, <1>4, Glued, GlueThree
<1>14. buf # <<>>
  <2>1. Len(wire) \in Nat /\ n \in 1 .. Len(wire)
    BY <1>1 DEF Texts
  <2>2. n \in 0 .. Len(wire) /\ 1 \in 1 .. Len(wire) + 1 /\ 1 <= n + 1
    BY <2>1
  <2>3. Len(piece) = n + 1 - 1
    BY <1>1, <2>2, Piece
  <2>4. piece # <<>>
    BY <2>1, <2>3
  <2> HIDE DEF piece
  <2> QED
    BY <1>1, <1>4, <2>4, GlueEmpty
<1> HIDE DEF piece, rest, buf, r
<1>6. PICK a \in 0 .. L : /\ Answered(format, E, received, outbuf, a)
                          /\ Left(format, E, wire, inbuf, a)
  BY <1>1 DEF CalcIInv
<1>7. a # L
  <2> SUFFICES ASSUME a = L PROVE FALSE
    OBVIOUS
  <2>1. Glue(inbuf, wire) = <<>>
    BY <1>6 DEF Left, Questions
  <2>2. wire = <<>>
    BY <1>1, <2>1, GlueEmpty
  <2>3. Len(wire) = 0
    BY <1>1, <2>2, GlueEmpty
  <2> QED
    BY <2>3
<1>8. format \in Formats /\ E # <<>>
  BY <1>1, <1>6, <1>7
<1>9. \A k \in 1 .. L : E[k] \in Equations
  BY <1>1
<1> DEFINE Done(b) == /\ Answered(format, E, received, r.out, b) /\ Left(format, E, rest, r.in, b)
                      /\ r.out = <<>> => r.in # <<>>
<1>10. ASSUME r.in \in Texts, r.out \in Texts, r.trap \/ \E b \in 0 .. L : Done(b)
       PROVE  CalcIInv'
  <2>1. L <= 2
    <3> HIDE DEF L
    <3> QED
      BY <1>1
  <2>2. CASE r.trap /\ conn' = "killed" /\ UNCHANGED <<wire, inbuf, outbuf, received>>
    <3>1. CalcTypes'
      BY <1>1, <1>3, <2>1, <2>2 DEF CalcTypes
    <3> QED
      BY <1>3, <1>6, <2>2, <3>1 DEF CalcIInv
  <2>3. CASE ~ r.trap /\ inbuf' = r.in /\ wire' = rest /\ Writer(r.out)
    <3>1. /\ received' \in Texts /\ outbuf' \in Texts
          /\ Glue(received', outbuf') = Glue(received, r.out)
          /\ \/ conn' = "open"
             \/ conn' = "closed" /\ r.out = <<>> /\ outbuf' = <<>>
      BY <1>1, <1>10, <2>3, WriterSends
    <3>2. CalcTypes'
      BY <1>1, <1>3, <1>4, <1>10, <2>1, <2>3, <3>1 DEF CalcTypes
    <3>3. PICK b \in 0 .. L : Done(b)
      BY <1>10, <2>3
    <3>4. Answered(format, E, received', outbuf', b)
      BY <3>1, <3>3 DEF Answered
    <3> QED
      BY <1>3, <2>3, <3>1, <3>2, <3>3, <3>4 DEF CalcIInv
  <2> QED
    BY <1>3, <2>2, <2>3
<1>15. ASSUME NEW e \in Equations, ~ Traps(e), NEW o \in Texts
       PROVE  /\ Glue(o, Reply(format, e)) # <<>>
              /\ Glue(received, Glue(o, Reply(format, e))) = Glue(Glue(received, o), Reply(format, e))
  <2>1. Reply(format, e) \in Texts /\ Reply(format, e) # <<>>
    BY <1>8, <1>15, Texted
  <2> QED
    BY <1>1, <1>15, <2>1, GlueEmpty, GlueThree
<1>11. CASE a + 1 = L
  <2> DEFINE e == E[a + 1]
             q == Question(format, e)
  <2>1. e \in Equations
    BY <1>1, <1>9, <1>11
  <2> HIDE DEF e
  <2>2. /\ Glue(buf, rest) = q /\ Glue(received, outbuf) = Replies(format, E, a)
        /\ \A k \in 1 .. a : ~ Traps(E[k])
    BY <1>5, <1>6, <1>7, <1>11 DEF Answered, Left, Questions, e
  <2>3. /\ r.in \in Texts /\ r.out \in Texts /\ r.trap \in BOOLEAN
        /\ r.trap \/ \/ r.in = buf /\ r.out = outbuf /\ Len(buf) < Len(q)
                     \/ ~ Traps(e) /\ r.in = <<>> /\ rest = <<>> /\ r.out = Glue(outbuf, Reply(format, e))
    BY <1>1, <1>4, <1>5, <1>8, <2>1, <2>2, ReadOne DEF r
  <2>4. ASSUME r.in = buf, r.out = outbuf, Len(buf) < Len(q)
        PROVE  Done(a)
    BY <1>5, <1>6, <1>14, <2>4 DEF Answered, Left, e
  <2>5. ASSUME ~ Traps(e), r.in = <<>>, rest = <<>>, r.out = Glue(outbuf, Reply(format, e))
        PROVE  Done(L)
    <3>0. /\ r.out # <<>>
          /\ Glue(received, r.out) = Glue(Glue(received, outbuf), Reply(format, e))
      BY <1>1, <1>15, <2>1, <2>5
    <3>1. Glue(received, r.out) = Replies(format, E, L)
      <4>1. CASE a = 0
        <5>1. L = 1 /\ e = E[1] /\ Glue(received, outbuf) = <<>>
          BY <1>11, <2>2, <4>1 DEF Replies, e
        <5>2. Glue(<<>>, Reply(format, e)) = Reply(format, e)
          BY <1>8, <2>1, <2>5, Texted, GlueEmpty
        <5> QED
          BY <3>0, <5>1, <5>2 DEF Replies
      <4>2. CASE a = 1
        <5>1. L = 2 /\ e = E[2] /\ Glue(received, outbuf) = Reply(format, E[1])
          BY <1>11, <2>2, <4>2 DEF Replies, e
        <5> QED
          BY <3>0, <5>1 DEF Replies
      <4>3. a = 0 \/ a = 1
        <5> HIDE DEF L
        <5> QED
          BY <1>1, <1>11
      <4> QED
        BY <4>1, <4>2, <4>3
    <3>2. Glue(r.in, rest) = Questions(format, E, L)
      BY <2>5, GlueEmpty DEF Questions
    <3>3. \A k \in 1 .. L : ~ Traps(E[k])
      BY <1>1, <1>11, <2>2, <2>5 DEF e
    <3>4. ~ L < Len(E)
      BY <1>1
    <3> QED
      BY <3>0, <3>1, <3>2, <3>3, <3>4 DEF Answered, Left
  <2>6. r.trap \/ \E b \in 0 .. L : Done(b)
    <3>1. a \in 0 .. L /\ L \in 0 .. L
      BY <1>1
    <3> QED
      BY <2>3, <2>4, <2>5, <3>1
  <2> QED
    BY <1>10, <2>3, <2>6
<1>12. CASE a = 0 /\ L = 2
  <2> DEFINE e == E[1]
             d == E[2]
             p == Question(format, d)
  <2>1. e \in Equations /\ d \in Equations
    BY <1>9, <1>12
  <2> HIDE DEF e, d
  <2>2. Glue(buf, rest) = Glue(Question(format, e), p) /\ Glue(received, outbuf) = <<>>
    BY <1>5, <1>6, <1>12 DEF Answered, Left, Questions, Replies, e, d
  <2>3. /\ r.in \in Texts /\ r.out \in Texts /\ r.trap \in BOOLEAN
        /\ r.trap \/ \/ r.in = buf /\ r.out = outbuf /\ Len(buf) < Len(Question(format, e))
                     \/ /\ ~ Traps(e) /\ r.out = Glue(outbuf, Reply(format, e))
                        /\ Glue(r.in, rest) = p /\ Len(r.in) < Len(p)
                     \/ /\ ~ Traps(e) /\ ~ Traps(d) /\ r.in = <<>> /\ rest = <<>>
                        /\ r.out = Glue(Glue(outbuf, Reply(format, e)), Reply(format, d))
    BY <1>1, <1>4, <1>5, <1>8, <2>1, <2>2, ReadTwo DEF r
  <2>0. received = <<>> /\ outbuf = <<>> /\ Glue(<<>>, r.out) = r.out
    BY <1>1, <2>2, <2>3, GlueEmpty
  <2>4. ~ Traps(e) => /\ Glue(outbuf, Reply(format, e)) = Reply(format, e)
                      /\ Reply(format, e) \in Texts /\ Reply(format, e) # <<>>
    BY <1>8, <2>0, <2>1, Texted, GlueEmpty
  <2>5. ASSUME r.in = buf, r.out = outbuf, Len(buf) < Len(Question(format, e))
        PROVE  Done(0)
    BY <1>5, <1>6, <1>12, <1>14, <2>5 DEF Answered, Left, e
  <2>6. ASSUME ~ Traps(e), r.out = Glue(outbuf, Reply(format, e)), Glue(r.in, rest) = p, Len(r.in) < Len(p)
        PROVE  Done(1)
    <3>1. Glue(received, r.out) = Replies(format, E, 1) /\ r.out # <<>>
      BY <2>0, <2>4, <2>6 DEF Replies, e
    <3>2. Questions(format, E, 1) = p
      BY <1>12 DEF Questions, d
    <3>3. E[1 + 1] = d /\ \A k \in 1 .. 1 : ~ Traps(E[k])
      BY <2>6 DEF e, d
    <3> QED
      BY <2>6, <3>1, <3>2, <3>3 DEF Answered, Left
  <2>7. ASSUME ~ Traps(e), ~ Traps(d), r.in = <<>>, rest = <<>>,
               r.out = Glue(Glue(outbuf, Reply(format, e)), Reply(format, d))
        PROVE  Done(2)
    <3>1. Glue(received, r.out) = Replies(format, E, 2)
      BY <2>0, <2>4, <2>7 DEF Replies, e, d
    <3>4. r.out # <<>>
      BY <1>15, <2>1, <2>4, <2>7
    <3>2. Glue(r.in, rest) = Questions(format, E, 2)
      BY <1>12, <2>7, GlueEmpty DEF Questions
    <3>3. \A k \in 1 .. 2 : ~ Traps(E[k])
      BY <2>7 DEF e, d
    <3> QED
      BY <1>12, <3>1, <3>2, <3>3, <3>4 DEF Answered, Left
  <2>8. r.trap \/ \E b \in 0 .. L : Done(b)
    <3>1. 0 \in 0 .. L /\ 1 \in 0 .. L /\ 2 \in 0 .. L
      BY <1>12
    <3> QED
      BY <2>3, <2>5, <2>6, <2>7, <3>1
  <2> QED
    BY <1>10, <2>3, <2>8
<1>13. a + 1 = L \/ (a = 0 /\ L = 2)
  <2> HIDE DEF L
  <2> QED
    BY <1>1, <1>7
<1> QED
  BY <1>11, <1>12, <1>13

\* The inductive invariant holds in every execution.
LEMMA CalcAlways == CalcSpec => []CalcIInv
<1>1. CalcIInv /\ [CalcNext]_calcVars => CalcIInv'
  <2>1. CalcIInv /\ CalcNext => CalcIInv'
    BY CalcRunIInv, CalcAskIInv, CalcReadIInv DEF CalcNext
  <2>2. CalcIInv /\ UNCHANGED calcVars => CalcIInv'
    BY DEF calcVars, CalcIInv, CalcTypes
  <2> QED
    BY <2>1, <2>2
<1> QED
  BY <1>1, CalcInitIInv, PTL DEF CalcSpec

\* The questions that are left are none, one or two, and the first of them begins what is
\* in the buffer and under way.
LEMMA FirstLeft ==
  ASSUME NEW f \in Formats, NEW E \in Seq(Equations), Len(E) <= 2, NEW a \in 0 .. Len(E), a # Len(E)
  PROVE  LET q == Question(f, E[a + 1])
         IN  Whole(q) /\ \E t \in Texts : Questions(f, E, a) = Glue(q, t)
<1> DEFINE L == Len(E)
           q == Question(f, E[a + 1])
<1>1. L \in Nat /\ a + 1 \in 1 .. L
  <2>1. L \in Nat /\ a \in 0 .. L /\ a # L
    BY LenProperties
  <2> HIDE DEF L
  <2> QED
    BY <2>1
<1>2. E[a + 1] \in Equations
  BY <1>1
<1>3. Whole(q) /\ q \in Texts /\ q = Glue(q, <<>>) /\ <<>> \in Texts
  BY <1>2, Understood, Texted, GlueEmpty
<1>4. CASE a + 1 = L
  BY <1>3, <1>4 DEF Questions
<1>5. CASE a + 1 # L
  <2>1. a = 0 /\ L = 2
    <3>1. L <= 2
      OBVIOUS
    <3> HIDE DEF L
    <3> QED
      BY <1>1, <1>5, <3>1
  <2>2. a + 1 = 1 /\ 2 \in 1 .. L
    BY <2>1
  <2>3. E[2] \in Equations
    BY <2>2
  <2>4. Question(f, E[2]) \in Texts
    BY <2>3, Texted
  <2>5. Questions(f, E, a) = Glue(q, Question(f, E[2]))
    BY <2>1, <2>2 DEF Questions
  <2> QED
    BY <1>3, <2>4, <2>5
<1> QED
  BY <1>4, <1>5

\* What the client takes from a part of the answers.
Taken(f, E, s, o, a) ==
  LET r1 == RecvMessage(s)
      r2 == RecvMessage(r1.in)
  IN  /\ r1.ok => a >= 1 /\ DeserializeResponse(f, Decode(r1.out)) = Calculator(E[1])
      /\ r2.ok => a = 2 /\ DeserializeResponse(f, Decode(r2.out)) = Calculator(E[2])
      /\ ~ RecvMessage(r2.in).ok
      /\ o = <<>> => r2.in = <<>> /\ (a >= 1 => r1.ok) /\ (a = 2 => r2.ok)

\* However the answers are cut, these are the results of the first questions.
LEMMA Taking ==
  ASSUME NEW f \in Formats, NEW E, NEW a \in 0 .. 2, NEW s \in Texts, NEW o \in Texts,
         \A k \in 1 .. a : E[k] \in Equations, Answered(f, E, s, o, a)
  PROVE  Taken(f, E, s, o, a)
<1> DEFINE r1 == RecvMessage(s)
           r2 == RecvMessage(r1.in)
<1>0. <<>> \in Texts
  BY GlueEmpty
<1>1. CASE a = 0
  <2>1. s = <<>>
    BY <1>1, GlueEmpty DEF Answered, Replies
  <2> QED
    BY <1>1, <2>1, Nothing DEF Taken
<1>2. ASSUME a # 0 PROVE Taken(f, E, s, o, a)
  <2> DEFINE m == Reply(f, E[1])
             t == IF a = 1 THEN <<>> ELSE Reply(f, E[2])
  <2>1. /\ Whole(m) /\ DeserializeResponse(f, Decode(m)) = Calculator(E[1])
        /\ m \in Texts /\ Glue(m, <<>>) = m
    <3>1. 1 \in 1 .. a /\ E[1] \in Equations /\ ~ Traps(E[1])
      BY <1>2 DEF Answered
    <3> QED
      BY <3>1, Understood, Texted, GlueEmpty
  <2>2. a = 2 => /\ Whole(t) /\ DeserializeResponse(f, Decode(t)) = Calculator(E[2])
                 /\ t \in Texts /\ t = Glue(t, <<>>)
    <3>1. a = 2 => 2 \in 1 .. a /\ E[2] \in Equations /\ ~ Traps(E[2])
      BY DEF Answered
    <3> QED
      BY <3>1, Understood, Texted, GlueEmpty
  <2>3. t \in Texts /\ Glue(s, o) = Glue(m, t)
    <3>1. a = 1 => t = <<>> /\ Glue(s, o) = m
      BY DEF Answered, Replies
    <3>2. a = 2 => Glue(s, o) = Glue(m, t)
      BY DEF Answered, Replies
    <3>3. CASE a = 1
      BY <1>0, <2>1, <3>1, <3>3
    <3>4. CASE a = 2
      BY <2>2, <3>2, <3>4
    <3> QED
      BY <1>2, <3>3, <3>4
  <2>4. o = <<>> => s = Glue(m, t)
    BY <2>3, GlueEmpty
  <2>6. a = 1 => t = <<>>
    OBVIOUS
  <2> HIDE DEF m, t
  <2>5. Len(Glue(m, t)) >= Len(m) /\ Len(m) \in Nat
    <3>1. Len(Glue(m, t)) = Len(m) + Len(t) /\ Len(m) \in Nat /\ Len(t) \in Nat
      BY <2>1, <2>3, Glued
    <3> QED
      BY <3>1
  <2>7. CASE Len(s) < Len(m) /\ ~ r1.ok /\ r1.in = s
    <3>1. o # <<>>
      <4>1. Len(s) \in Nat
        BY DEF Texts
      <4> QED
        BY <2>4, <2>5, <2>7, <4>1
    <3> QED
      BY <2>7, <3>1 DEF Taken
  <2>8. ASSUME NEW u \in Texts, s = Glue(m, u), Glue(u, o) = t PROVE Taken(f, E, s, o, a)
    <3>1. r1.ok /\ r1.out = m /\ r1.in = u
      BY <2>1, <2>8, FirstMessage
    <3>2. CASE a = 1
      <4>1. u = <<>>
        BY <2>6, <2>8, <3>2, GlueEmpty
      <4> QED
        BY <2>1, <3>1, <3>2, <4>1, Nothing DEF Taken, m
    <3>3. CASE a = 2
      <4>1. Glue(u, o) = Glue(t, <<>>)
        BY <2>2, <2>8, <3>3
      <4>2. o = <<>> => u = t
        BY <2>8, GlueEmpty
      <4>3. CASE Len(u) < Len(t) /\ ~ RecvMessage(u).ok /\ RecvMessage(u).in = u
        <5>1. o # <<>>
          <6>1. Len(u) \in Nat
            BY DEF Texts
          <6> QED
            BY <4>2, <4>3, <6>1
        <5> QED
          BY <2>1, <3>1, <3>3, <4>3, <5>1 DEF Taken, m
      <4>4. ASSUME NEW v \in Texts, u = Glue(t, v), Glue(v, o) = <<>> PROVE Taken(f, E, s, o, a)
        <5>1. v = <<>>
          BY <4>4, GlueEmpty
        <5>2. r2.ok /\ r2.out = t /\ r2.in = <<>>
          BY <2>2, <3>1, <3>3, <4>4, <5>1, FirstMessage
        <5> QED
          BY <2>1, <2>2, <3>1, <3>3, <5>2, Nothing DEF Taken, m
      <4> QED
        BY <1>0, <2>2, <2>3, <3>3, <4>1, <4>3, <4>4, Cut
    <3> QED
      BY <1>2, <3>2, <3>3
  <2> QED
    BY <2>1, <2>3, <2>7, <2>8, Cut
<1> QED
  BY <1>1, <1>2

\* The invariant says what the client can take from the answers.
LEMMA Exchanged == CalcIInv => ResultsInOrder
<1> SUFFICES ASSUME CalcIInv PROVE ResultsInOrder
  OBVIOUS
<1> DEFINE L == Len(equations)
           E == equations
           r1 == RecvMessage(received)
           r2 == RecvMessage(r1.in)
<1>1. /\ format \in Formats \cup {"off"} /\ E \in Seq(Equations) /\ L \in 0 .. 2
      /\ format = "off" => E = <<>>
      /\ wire \in Texts /\ inbuf \in Texts /\ outbuf \in Texts /\ received \in Texts
  <2>1. E \in Seq(Equations) /\ L <= 2
    BY DEF CalcIInv, CalcTypes
  <2>2. L \in Nat
    BY <2>1, LenProperties
  <2>3. L \in 0 .. 2
    <3> HIDE DEF L
    <3> QED
      BY <2>1, <2>2
  <2> QED
    BY <2>1, <2>3 DEF CalcIInv, CalcTypes
<1>2. PICK a \in 0 .. L : /\ Answered(format, E, received, outbuf, a)
                          /\ conn # "killed" => Left(format, E, wire, inbuf, a)
  BY DEF CalcIInv
<1>3. /\ a \in 0 .. 2 /\ (\A k \in 1 .. a : E[k] \in Equations) /\ (E = <<>> <=> L = 0)
      /\ a \in 0 .. L /\ L <= 2 /\ (a # L => a < L)
  <2>1. \A k \in 1 .. L : E[k] \in Equations
    BY <1>1
  <2>2. E = <<>> <=> L = 0
    BY <1>1
  <2>3. a \in 0 .. L
    BY <1>2
  <2> HIDE DEF L
  <2> QED
    BY <1>1, <2>1, <2>2, <2>3
<1>4. CASE E = <<>>
  <2>1. a = 0
    BY <1>3, <1>4
  <2>2. received = <<>> /\ outbuf = <<>>
    <3>1. Glue(received, outbuf) = <<>>
      BY <1>2, <2>1 DEF Answered, Replies
    <3> QED
      BY <1>1, <3>1, GlueEmpty
  <2>3. conn # "killed" => inbuf = <<>>
    <3>1. conn # "killed" => Glue(inbuf, wire) = <<>>
      BY <1>2, <1>3, <1>4, <2>1 DEF Left, Questions
    <3> QED
      BY <1>1, <3>1, GlueEmpty
  <2>4. ~ r1.ok /\ r1.in = <<>> /\ ~ r2.ok /\ r2.in = <<>>
    BY <2>2, Nothing
  <2>5. conn # "closed"
    BY <2>3 DEF CalcIInv
  <2> QED
    BY <1>3, <1>4, <2>3, <2>4, <2>5, Nothing DEF ResultsInOrder
<1>5. CASE E # <<>>
  <2>1. format \in Formats
    BY <1>1, <1>5
  <2>2. Taken(format, E, received, outbuf, a)
    <3>1. a \in 0 .. 2 /\ \A k \in 1 .. a : E[k] \in Equations
      BY <1>3
    <3>2. received \in Texts /\ outbuf \in Texts /\ Answered(format, E, received, outbuf, a)
      BY <1>1, <1>2
    <3> QED
      BY <2>1, <3>1, <3>2, Taking
  <2>3. ASSUME conn # "killed"
        PROVE  /\ a = L => inbuf = <<>> /\ wire = <<>>
               /\ a # L => ~ RecvMessage(inbuf).ok /\ wire # <<>>
    <3>1. CASE a = L
      <4>1. Glue(inbuf, wire) = <<>>
        BY <1>2, <2>3, <3>1 DEF Left, Questions
      <4> QED
        BY <1>1, <3>1, <4>1, GlueEmpty
    <3>2. CASE a # L
      <4> DEFINE q == Question(format, E[a + 1])
      <4>1. Whole(q) /\ \E t \in Texts : Questions(format, E, a) = Glue(q, t)
        <5>1. E \in Seq(Equations) /\ Len(E) <= 2 /\ a \in 0 .. Len(E) /\ a # Len(E)
          BY <1>1, <1>3, <3>2
        <5> QED
          BY <2>1, <5>1, FirstLeft
      <4>2. Glue(inbuf, wire) = Questions(format, E, a) /\ Len(inbuf) < Len(q)
        BY <1>2, <1>3, <2>3, <3>2 DEF Left
      <4> HIDE DEF q
      <4>3. PICK t \in Texts : Glue(inbuf, wire) = Glue(q, t)
        BY <4>1, <4>2
      <4>4. q \in Texts /\ Len(q) \in Nat /\ Len(inbuf) \in Nat
        BY <1>1, <4>1 DEF Whole, Texts
      <4>5. Len(Glue(q, t)) >= Len(q)
        BY <4>4, Glued
      <4>6. wire # <<>>
        BY <1>1, <4>2, <4>3, <4>4, <4>5, GlueEmpty
      <4>7. ASSUME NEW u \in Texts, inbuf = Glue(q, u) PROVE FALSE
        <5>1. Len(inbuf) = Len(q) + Len(u) /\ Len(u) \in Nat
          BY <4>4, <4>7, Glued
        <5> QED
          BY <4>2, <4>4, <5>1
      <4> QED
        BY <1>1, <3>2, <4>1, <4>3, <4>6, <4>7, Cut
    <3> QED
      BY <3>1, <3>2
  <2>4. conn = "closed" => outbuf = <<>> /\ inbuf # <<>>
    BY DEF CalcIInv
  <2>5. ASSUME conn = "open", wire = <<>>, outbuf = <<>>
        PROVE  inbuf = <<>> /\ r2.in = <<>> /\ r1.ok /\ (L = 2 => r2.ok)
    <3>1. a = L /\ inbuf = <<>>
      BY <2>3, <2>5
    <3>2. L >= 1
      BY <1>1, <1>3, <1>5
    <3> QED
      BY <2>2, <2>5, <3>1, <3>2 DEF Taken
  <2>6. ASSUME conn = "closed" PROVE ~ RecvMessage(inbuf).ok /\ r2.in = <<>>
    BY <2>2, <2>3, <2>4, <2>6 DEF Taken
  <2>7. r2.ok => L = 2
    <3>1. r2.ok => a = 2
      BY <2>2 DEF Taken
    <3> HIDE DEF L
    <3> QED
      BY <1>1, <3>1
  <2> QED
    BY <1>5, <2>2, <2>4, <2>5, <2>6, <2>7 DEF ResultsInOrder, Taken
<1> QED
  BY <1>4, <1>5

\* For every width of the integers: quotient and remainder fit together, results are exact
\* where they fit, and both calculators agree, for whatever equations are sent (cal.hpp:87-122,
\* thread_t/ring_queue/cal.hpp:40-79).
THEOREM ArithmeticSound == CalcSpec => []ArithmeticIsSound
<1>1. CalcIInv => ArithmeticIsSound
  <2> SUFFICES ASSUME CalcIInv, NEW k \in DOMAIN equations
               PROVE  ~ Traps(equations[k]) => Sound(equations[k])
    BY DEF ArithmeticIsSound, Sound
  <2>1. equations[k] \in Equations
    BY DEF CalcIInv, CalcTypes
  <2> QED
    BY <2>1, EquationSound
<1> QED
  BY <1>1, CalcAlways, PTL

\* For every width of the integers, every way of writing them and every equation: however
\* requests and answers are joined and cut, the client takes from what it receives the results
\* of what it asked, in order; all of them when everything has been read and written on a
\* connection the server has not closed, and the server closes one only while a request of it
\* is cut (IO/reactor/protocol.hpp:59-186, IO/reactor/test.cc:24-50,
\* IO/reactor/reactor_server.hpp:262-295).
THEOREM AnswersUnderstood == CalcSpec => []ResultsInOrder
  BY Exchanged, CalcAlways, PTL

\* Both together, what the run checks for integers of three bits.
THEOREM CalcSafety == CalcSpec => []CalcSafe
  BY ArithmeticSound, AnswersUnderstood, PTL DEF CalcSafe
===============================================================================
