-------------------------- MODULE ThreadServerProofs --------------------------
(***************************************************************************)
(* Proofs about ThreadServer for any number of connections and any set of  *)
(* descriptors: type correctness, and that a thread never reads the        *)
(* argument of an earlier connection; and as long as every thread reads    *)
(* its argument in time, that a connection is closed only when its client  *)
(* is gone.                                                                *)
(***************************************************************************)
EXTENDS ThreadServer, TLAPS

\* The connections whose argument has been stored.
Stored(n) == pc[n] \notin {"none", "new"}

\* Connections are accepted in order, and each gets its thread before the next
\* is accepted.
OrderInv ==
  \A n \in Conns : /\ pc[n] = "none" <=> n > accepted
                   /\ pc[n] \in {"new", "stored"} => n = accepted

\* The argument in run()'s frame is that of the connection stored last.
ArgInv == /\ arg # None => Stored(arg)
          /\ \A n \in Conns : Stored(n) => arg # None /\ n <= arg

\* What a thread has read is the argument of a connection.
PtsInv == \A n \in Reading : pts[n] \in Conns

\* The inductive invariant.
IInv == TypeOK /\ OrderInv /\ ArgInv /\ PtsInv /\ NeverAnEarlierConnection

\* A thread has no ts_data before it reads its argument.
UnreadInv == \A n \in Conns : pc[n] \in {"none", "new", "stored", "start"} => pts[n] = None

\* As long as every thread has read its argument in time, a descriptor in use and the
\* connection behind it belong to each other, and a thread that is past its service has
\* seen its client go.
TimeInv ==
  InTime =>
    /\ ~crashed
    /\ \A n \in Conns : /\ n \in freed <=> pc[n] = "done"
                        /\ pc[n] \in {"new", "stored", "start", "serve", "close"} =>
                             fdOf[n] \in Fds /\ owner[fdOf[n]] = n
                        /\ pc[n] \in {"serve", "close"} => sock[n] = fdOf[n]
                        /\ pc[n] = "close" => n \in gone
    /\ \A f \in Fds : owner[f] # None =>
         pc[owner[f]] \in {"new", "stored", "start", "serve", "close"} /\ fdOf[owner[f]] = f

FullInv == IInv /\ UnreadInv /\ TimeInv

-------------------------------------------------------------------------------
\* The inductive invariant holds before the first connection.
LEMMA InitIInv == Init => IInv
<1> SUFFICES ASSUME Init PROVE IInv
  OBVIOUS
<1> USE ThreadServerAssumption DEF Conns, None
<1>1. crashed \in BOOLEAN
  BY Zenon DEF Init
<1>2. TypeOK
  BY <1>1 DEF Init, TypeOK
<1>3. \A n \in Conns : pc[n] = "none" /\ ~Stored(n) /\ n > accepted
  BY DEF Init, Stored
<1>4. Reading = {}
  BY <1>3 DEF Reading
<1>5. OrderInv
  BY <1>3 DEF OrderInv
<1>6. ArgInv
  BY <1>3 DEF Init, ArgInv
<1> QED
  BY <1>2, <1>4, <1>5, <1>6 DEF IInv, PtsInv, NeverAnEarlierConnection

\* Each step preserves the inductive invariant.
LEMMA StepIInv == IInv /\ [Next]_vars => IInv'
<1> SUFFICES ASSUME IInv, [Next]_vars PROVE IInv'
  OBVIOUS
<1> USE ThreadServerAssumption
    DEF IInv, TypeOK, OrderInv, ArgInv, PtsInv, NeverAnEarlierConnection,
        Reading, Stored, Conns, None, Goto
<1>1. ASSUME NEW n \in Conns, Accept(n) PROVE IInv'
  BY <1>1 DEF Accept, Lowest
<1>2. ASSUME NEW n \in Conns, Store(n) PROVE IInv'
  BY <1>2 DEF Store
<1>9. ASSUME NEW n \in Conns, Create(n) PROVE IInv'
  BY <1>9 DEF Create
<1>3. ASSUME NEW n \in Conns, ReadArg(n) PROVE IInv'
  BY <1>3, SMTT(30) DEF ReadArg, FdSeenIn
<1>4. ASSUME NEW n \in Conns, EndService(n) PROVE IInv'
  BY <1>4 DEF EndService
<1>5. ASSUME NEW n \in Conns, CloseFd(n) PROVE IInv'
  BY <1>5 DEF CloseFd
<1>6. ASSUME NEW n \in Conns, Delete(n) PROVE IInv'
  <2>1. crashed' = (pts[n] \in freed)
    BY <1>6 DEF Delete
  <2>2. /\ pts[n] \in Conns /\ freed' = freed \cup {pts[n]}
        /\ pc' = [pc EXCEPT ![n] = "done"] /\ pc[n] = "delete"
        /\ UNCHANGED <<accepted, owner, fdOf, arg, pts, sock, gone>>
    BY <1>6 DEF Delete
  <2>3. crashed' \in BOOLEAN
    BY <2>1, SMT
  <2> QED
    BY <2>2, <2>3
<1>7. ASSUME NEW n \in Conns, Quit(n) PROVE IInv'
  BY <1>7 DEF Quit
<1>8. CASE UNCHANGED vars
  BY <1>8 DEF vars
<1> QED
  BY <1>1, <1>2, <1>3, <1>4, <1>5, <1>6, <1>7, <1>8, <1>9 DEF Next, ThreadStep

\* The inductive invariant holds in every execution.
LEMMA AlwaysIInv == Spec => []IInv
<1>1. Init => IInv
  BY InitIInv
<1>2. IInv /\ [Next]_vars => IInv'
  BY StepIInv
<1> QED
  BY <1>1, <1>2, PTL DEF Spec

\* The descriptors, the ts_data and the arguments of the threads keep their
\* types, however many connections and descriptors there are.
THEOREM TypeCorrect == Spec => []TypeOK
<1>1. IInv => TypeOK
  BY DEF IInv
<1> QED
  BY <1>1, AlwaysIInv, PTL

\* However late the threads start, none of them works with the ts_data of a
\* connection accepted before its own; it may be that of a later one, which need
\* not have a thread yet (server_tcp.hpp:169-170, :224, pthread_s.hpp:28-37).
THEOREM NeverEarlier == Spec => []NeverAnEarlierConnection
<1>1. IInv => NeverAnEarlierConnection
  BY DEF IInv
<1> QED
  BY <1>1, AlwaysIInv, PTL

\* Both together, what the run checks for three connections.
THEOREM Safety == Spec => []Safe
  BY TypeCorrect, NeverEarlier, PTL DEF Safe

-------------------------------------------------------------------------------
\* Before the first connection every descriptor is free.
LEMMA InitFull == Init => FullInv
<1> SUFFICES ASSUME Init PROVE FullInv
  OBVIOUS
<1>1. IInv
  BY InitIInv
<1>2. UnreadInv
  BY DEF Init, UnreadInv
<1>3. TimeInv
  <2>1. ~crashed
    BY DEF Init
  <2>2. /\ \A n \in Conns : pc[n] = "none" /\ n \notin freed
        /\ \A f \in Fds : owner[f] = None
    BY DEF Init
  <2> QED
    BY <2>1, <2>2 DEF TimeInv
<1> QED
  BY <1>1, <1>2, <1>3 DEF FullInv

\* A thread that has read its argument in time has its own ts_data.
LEMMA OwnData ==
  ASSUME IInv, InTime, NEW n \in Reading
  PROVE  n \in Conns /\ pts[n] = n
<1>1. n \in Conns /\ pts[n] \in Conns
  BY DEF IInv, PtsInv, Reading
<1> QED
  BY <1>1 DEF InTime, Conns, None

\* Each step preserves it.
LEMMA StepFull == FullInv /\ [Next]_vars => FullInv'
<1> SUFFICES ASSUME FullInv, [Next]_vars PROVE UnreadInv' /\ TimeInv'
  BY StepIInv DEF FullInv
<1>0. IInv /\ TypeOK /\ UnreadInv /\ TimeInv
  BY DEF FullInv, IInv
<1> USE DEF Goto, TypeOK, Conns, None
<1>1. ASSUME NEW n \in Conns, Accept(n) PROVE UnreadInv' /\ TimeInv'
  BY <1>0, <1>1 DEF Accept, Lowest, UnreadInv, TimeInv, InTime
<1>2. ASSUME NEW n \in Conns, Store(n) PROVE UnreadInv' /\ TimeInv'
  BY <1>0, <1>2 DEF Store, UnreadInv, TimeInv, InTime
<1>9. ASSUME NEW n \in Conns, Create(n) PROVE UnreadInv' /\ TimeInv'
  BY <1>0, <1>9 DEF Create, UnreadInv, TimeInv, InTime
<1>3. ASSUME NEW n \in Conns, ReadArg(n) PROVE UnreadInv' /\ TimeInv'
  <2>1. /\ pc[n] = "start" /\ pc' = [pc EXCEPT ![n] = "serve"] /\ pts' = [pts EXCEPT ![n] = arg]
        /\ \E f \in FdSeenIn(arg) : sock' = [sock EXCEPT ![n] = f]
        /\ UNCHANGED <<accepted, owner, fdOf, freed, arg, gone, crashed>>
    BY <1>3 DEF ReadArg
  <2>2. UnreadInv'
    BY <1>0, <2>1 DEF UnreadInv
  <2>3. ASSUME InTime' PROVE InTime /\ arg = n
    <3>1. pts[n] = None /\ pts'[n] = arg /\ \A m \in Conns \ {n} : pts'[m] = pts[m]
      BY <1>0, <2>1 DEF UnreadInv
    <3>2. arg # None
      BY <1>0, <2>1 DEF IInv, ArgInv, Stored
    <3> QED
      BY <2>3, <3>1, <3>2 DEF InTime
  <2>4. ASSUME InTime' PROVE sock' = [sock EXCEPT ![n] = fdOf[n]]
    <3>1. n \notin freed
      BY <1>0, <2>1, <2>3, <2>4 DEF TimeInv
    <3> QED
      BY <2>1, <2>3, <2>4, <3>1 DEF FdSeenIn
  <2>5. TimeInv'
    BY <1>0, <2>1, <2>3, <2>4 DEF TimeInv
  <2> QED
    BY <2>2, <2>5
<1>4. ASSUME NEW n \in Conns, EndService(n) PROVE UnreadInv' /\ TimeInv'
  BY <1>0, <1>4 DEF EndService, UnreadInv, TimeInv, InTime
<1>5. ASSUME NEW n \in Conns, CloseFd(n) PROVE UnreadInv' /\ TimeInv'
  BY <1>0, <1>5, OwnData DEF CloseFd, FdSeenIn, UnreadInv, TimeInv, InTime, Reading
<1>6. ASSUME NEW n \in Conns, Delete(n) PROVE UnreadInv' /\ TimeInv'
  BY <1>0, <1>6, OwnData DEF Delete, UnreadInv, TimeInv, InTime, Reading
<1>7. ASSUME NEW n \in Conns, Quit(n) PROVE UnreadInv' /\ TimeInv'
  BY <1>0, <1>7 DEF Quit, UnreadInv, TimeInv, InTime
<1>8. CASE UNCHANGED vars
  BY <1>0, <1>8 DEF vars, UnreadInv, TimeInv, InTime
<1> QED
  BY <1>1, <1>2, <1>3, <1>4, <1>5, <1>6, <1>7, <1>8, <1>9 DEF Next, ThreadStep

\* What a step may do to a descriptor in use.
LEMMA ClosesOnly ==
  FullInv /\ [Next]_vars =>
    [InTime => /\ ~crashed'
               /\ \A f \in Fds :
                    owner[f] # None /\ owner'[f] # owner[f] => owner[f] \in gone]_vars
<1> SUFFICES ASSUME FullInv, InTime, Next
             PROVE  ~crashed' /\ \A f \in Fds :
                      owner[f] # None /\ owner'[f] # owner[f] => owner[f] \in gone
  OBVIOUS
<1>0. IInv /\ TypeOK /\ TimeInv
  BY DEF FullInv, IInv
<1> USE DEF Goto, TypeOK, Conns, None
<1>1. ASSUME NEW n \in Conns, CloseFd(n)
      PROVE  ~crashed' /\ \A f \in Fds : owner[f] # None /\ owner'[f] # owner[f] => owner[f] \in gone
  BY <1>0, <1>1, OwnData DEF CloseFd, FdSeenIn, TimeInv, Reading
<1>2. ASSUME NEW n \in Conns, Delete(n)
      PROVE  ~crashed' /\ \A f \in Fds : owner[f] # None /\ owner'[f] # owner[f] => owner[f] \in gone
  BY <1>0, <1>2, OwnData DEF Delete, TimeInv, Reading
<1>3. ASSUME NEW n \in Conns,
             Accept(n) \/ Store(n) \/ Create(n) \/ ReadArg(n) \/ EndService(n) \/ Quit(n)
      PROVE  ~crashed' /\ \A f \in Fds : owner[f] # None /\ owner'[f] # owner[f] => owner[f] \in gone
  BY <1>0, <1>3 DEF Accept, Lowest, Store, Create, ReadArg, EndService, Quit, TimeInv
<1> QED
  BY <1>1, <1>2, <1>3 DEF Next, ThreadStep

\* As long as the threads read their arguments in time, only the descriptor of a
\* connection whose client has gone is closed, though descriptors are used again, and no
\* ts_data is deleted twice (server_tcp.hpp:169-176).
THEOREM ClosesOnlyEnded == Spec => ClosesOnlyWhatEnded
<1>1. Init => FullInv
  BY InitFull
<1>2. FullInv /\ [Next]_vars => FullInv'
  BY StepFull
<1>3. FullInv /\ [Next]_vars =>
        [InTime => /\ ~crashed'
                   /\ \A f \in Fds :
                        owner[f] # None /\ owner'[f] # owner[f] => owner[f] \in gone]_vars
  BY ClosesOnly
<1> QED
  BY <1>1, <1>2, <1>3, PTL DEF Spec, ClosesOnlyWhatEnded
===============================================================================
