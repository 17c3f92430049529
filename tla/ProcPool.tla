------------------------------- MODULE ProcPool --------------------------------
(* The process pool of pipe_t/procpool/procpool.cc: a pipe and a child for each *)
(* worker; the parent hands out task numbers round robin, closes the pipes and  *)
(* reaps the children.  A child inherits every descriptor the parent has open,  *)
(* and a pipe only ends for its reader when nobody holds its write end.         *)
EXTENDS Naturals, Sequences

CONSTANTS N,         \* PROCESS_NUM
          T,         \* the number of tasks handed out (15)
          Funcs      \* the size of the task table (4)

PoolAssumption == N \in Nat \ {0} /\ T \in Nat /\ T >= N /\ Funcs \in Nat \ {0}
ASSUME PoolAssumption

Kids == 0 .. N - 1

VARIABLES pstep,     \* where the parent is
          pi,        \* its loop counter
          pends,     \* the pipes whose write end the parent holds
          wfd,       \* the pipes whose write end it has recorded for the children
          kid,       \* each child's state
          kends,     \* the pipes whose write end each child holds
          toClose,   \* the pipes whose write end each child is still going to close
          pdata,     \* the task numbers in each pipe
          done       \* the tasks each child has executed

poolVars == <<pstep, pi, pends, wfd, kid, kends, toClose, pdata, done>>

\* The pipe has a reader: its child has neither failed to start nor ended.
Reads(k) == kid[k] \in {"born", "work"}

\* Nobody holds the write end of the pipe.
Ended(k) == k \notin pends /\ \A j \in Kids : k \notin kends[j]

PoolInit == /\ pstep = "off" /\ pi = 0 /\ pends = {} /\ wfd = {}
            /\ kid = [k \in Kids |-> "none"]
            /\ kends = [k \in Kids |-> {}]
            /\ toClose = [k \in Kids |-> {}]
            /\ pdata = [k \in Kids |-> <<>>]
            /\ done = [k \in Kids |-> <<>>]

PoolRun == /\ pstep = "off" /\ pstep' = "apply"
           /\ UNCHANGED <<pi, pends, wfd, kid, kends, toClose, pdata, done>>

\* Mutant of Apply: the parent does not record the write end.
ApplyForgets == /\ pstep = "apply" /\ pi < N
                /\ pends' = pends \cup {pi}
                /\ \/ /\ kid' = [kid EXCEPT ![pi] = "born"]
                      /\ kends' = [kends EXCEPT ![pi] = pends']
                      /\ toClose' = [toClose EXCEPT ![pi] = wfd \cup {pi}]
                   \/ /\ kid' = [kid EXCEPT ![pi] = "failed"]
                      /\ UNCHANGED <<kends, toClose>>
                /\ pi' = pi + 1
                /\ UNCHANGED <<pstep, wfd, pdata, done>>

\* ApplyChidProcess: a pipe and a fork for each worker.  The child has a copy of
\* the vector wfd as it then is, and pfd[1]; only then is pfd[1] recorded.  The
\* result of fork is not tested: without a child the pipe has no reader, and as
\* every pipe gets a task the parent will not live to wait for that child.
Apply == /\ pstep = "apply" /\ pi < N
         /\ pends' = pends \cup {pi}
         /\ \/ /\ kid' = [kid EXCEPT ![pi] = "born"]
               /\ kends' = [kends EXCEPT ![pi] = pends']
               /\ toClose' = [toClose EXCEPT ![pi] = wfd \cup {pi}]
            \/ /\ kid' = [kid EXCEPT ![pi] = "failed"]
               /\ UNCHANGED <<kends, toClose>>
         /\ wfd' = wfd \cup {pi}
         /\ pi' = pi + 1
         /\ UNCHANGED <<pstep, pdata, done>>

Applied == /\ pstep = "apply" /\ pi = N
           /\ pstep' = "alloc" /\ pi' = 0
           /\ UNCHANGED <<pends, wfd, kid, kends, toClose, pdata, done>>

\* A child closes what it finds in its copy of wfd, its elder siblings' pipes in
\* the order they were made, then its own; then it works, whatever it still holds.
CloseInherited(k) == /\ kid[k] = "born"
                     /\ \E e \in toClose[k] :
                          /\ \A d \in toClose[k] : e <= d
                          /\ kends' = [kends EXCEPT ![k] = @ \ {e}]
                          /\ toClose' = [toClose EXCEPT ![k] = @ \ {e}]
                     /\ kid' = [kid EXCEPT ![k] = IF toClose'[k] = {} THEN "work" ELSE "born"]
                     /\ UNCHANGED <<pstep, pi, pends, wfd, pdata, done>>

\* Mutant of Alloc: the task number chooses the worker.
AllocByTask == /\ pstep = "alloc" /\ pi < T
               /\ LET k == (pi % Funcs) % N
                  IN  /\ Reads(k)
                      /\ pdata' = [pdata EXCEPT ![k] = Append(@, pi % Funcs)]
               /\ pi' = pi + 1
               /\ UNCHANGED <<pstep, pends, wfd, kid, kends, toClose, done>>

\* AllocTask: the next task to the next worker.
Alloc == /\ pstep = "alloc" /\ pi < T
         /\ LET k == pi % N
            IN  /\ Reads(k)
                /\ pdata' = [pdata EXCEPT ![k] = Append(@, pi % Funcs)]
         /\ pi' = pi + 1
         /\ UNCHANGED <<pstep, pends, wfd, kid, kends, toClose, done>>

\* A write to a pipe without a reader kills the parent, and closes its descriptors.
PoolSigpipe == /\ pstep = "alloc" /\ pi < T /\ ~ Reads(pi % N)
               /\ pstep' = "killed" /\ pends' = {}
               /\ UNCHANGED <<pi, wfd, kid, kends, toClose, pdata, done>>

Allocated == /\ pstep = "alloc" /\ pi = T
             /\ pstep' = "close" /\ pi' = 0
             /\ UNCHANGED <<pends, wfd, kid, kends, toClose, pdata, done>>

\* Mutant of CloseEnd: the last pipe stays open.
CloseEndSkipsLast == /\ pstep = "close"
                     /\ pends' = pends \ {pi}
                     /\ IF pi + 2 < N THEN pi' = pi + 1 /\ UNCHANGED pstep
                                      ELSE pi' = 0 /\ pstep' = "wait"
                     /\ UNCHANGED <<wfd, kid, kends, toClose, pdata, done>>

\* RecycleResource: close the pipes, then wait for the children in order.
CloseEnd == /\ pstep = "close"
            /\ pends' = pends \ {pi}
            /\ IF pi + 1 < N THEN pi' = pi + 1 /\ UNCHANGED pstep
                             ELSE pi' = 0 /\ pstep' = "wait"
            /\ UNCHANGED <<wfd, kid, kends, toClose, pdata, done>>

WaitKid == /\ pstep = "wait" /\ kid[pi] = "zombie"
           /\ kid' = [kid EXCEPT ![pi] = "reaped"]
           /\ IF pi + 1 < N THEN pi' = pi + 1 /\ UNCHANGED pstep
                            ELSE pi' = 0 /\ pstep' = "exited"
           /\ UNCHANGED <<pends, wfd, kends, toClose, pdata, done>>

\* ChildProcess: execute what is read, until there is nothing and nobody to write.
Work(k) == /\ kid[k] = "work" /\ pdata[k] # <<>>
           /\ done' = [done EXCEPT ![k] = Append(@, Head(pdata[k]))]
           /\ pdata' = [pdata EXCEPT ![k] = Tail(@)]
           /\ UNCHANGED <<pstep, pi, pends, wfd, kid, kends, toClose>>

EndOfTasks(k) == /\ kid[k] = "work" /\ pdata[k] = <<>> /\ Ended(k)
                 /\ kid' = [kid EXCEPT ![k] = "zombie"]
                 /\ kends' = [kends EXCEPT ![k] = {}]
                 /\ UNCHANGED <<pstep, pi, pends, wfd, toClose, pdata, done>>

ParentStep == Apply \/ Applied \/ Alloc \/ PoolSigpipe \/ Allocated \/ CloseEnd \/ WaitKid
KidStep(k) == CloseInherited(k) \/ Work(k) \/ EndOfTasks(k)

PoolNext == PoolRun \/ ParentStep \/ \E k \in Kids : KidStep(k)

\* The operating system runs every process that is not blocked.
PoolFair == WF_poolVars(ParentStep) /\ \A k \in Kids : WF_poolVars(KidStep(k))

PoolSpec == PoolInit /\ [][PoolNext]_poolVars /\ PoolFair

-------------------------------------------------------------------------------
\* Every variable has its type.
PoolTypeOK == /\ pstep \in {"off", "apply", "alloc", "close", "wait", "exited", "killed"}
              /\ pi \in CASE pstep \in {"off", "apply"} -> 0 .. N
                         [] pstep \in {"alloc", "killed"} -> 0 .. T
                         [] OTHER -> Kids
              /\ pends \subseteq Kids /\ wfd \subseteq Kids
              /\ kid \in [Kids -> {"none", "born", "work", "failed", "zombie", "reaped"}]
              /\ kends \in [Kids -> SUBSET Kids] /\ toClose \in [Kids -> SUBSET Kids]
              /\ pdata \in [Kids -> Seq(Nat)]
              /\ done \in [Kids -> Seq(Nat)]

\* A pipe's write end is only held by the parent and by children that are still
\* closing what they inherited (procpool.cc:115-121): what the parent recorded in wfd is
\* what a child inherits, so no worker keeps its own pipe, or a sibling's, from ending.
WorkersHoldNoWriteEnd == \A k \in Kids : kid[k] # "born" => kends[k] = {}

\* What a worker has executed and what waits in its pipe is every N-th task from its own
\* number on, in the order they were handed out (:80-84, :131-141).
RoundRobin ==
  \A k \in Kids :
    LET given == done[k] \o pdata[k]
    IN  \A j \in 1 .. Len(given) : given[j] = (k + (j - 1) * N) % Funcs

\* The safety of the pool: tasks are dealt to the workers in turn, and no process is left
\* with a descriptor that keeps another from ending.
PoolSafe == PoolTypeOK /\ WorkersHoldNoWriteEnd /\ RoundRobin

\* Every child that was started ends and, unless SIGPIPE killed the parent, is reaped
\* before the parent exits (:167-175).
EveryChildEnds ==
  \A k \in Kids : kid[k] = "born" ~> kid[k] = "reaped" \/ (pstep = "killed" /\ kid[k] = "zombie")
===============================================================================
