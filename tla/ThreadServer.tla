------------------------------ MODULE ThreadServer ------------------------------
(***************************************************************************)
(* The thread-per-connection server of tcp_t/protocol_cus, tcp_t/test and  *)
(* http_t: run() accepts connections and starts a detached thread for each *)
(* with a pthread object that lives on its stack until the end of the      *)
(* iteration.  The thread reads its argument out of that object, and the   *)
(* next iteration builds the next object in the same place.                *)
(*                                                                         *)
(* The n-th accepted connection, its ts_data and the thread created for it *)
(* are all called n.                                                       *)
(***************************************************************************)
EXTENDS Integers, FiniteSets

CONSTANTS N,        \* bound of the model: how many connections come
          Fds       \* the descriptors a process may have

ASSUME ThreadServerAssumption ==
         N \in Nat \ {0} /\ Fds \subseteq Nat \ {0} /\ Fds # {}

Conns == 1 .. N
None == 0           \* no connection, no ts_data, no descriptor

VARIABLES accepted,   \* how many connections have been accepted
          owner,      \* the connection an open descriptor refers to
          fdOf,       \* ts_data::_fd
          freed,      \* the ts_data that have been deleted
          arg,        \* _data._arg of the pthread object in run()'s frame
          pc,         \* where each thread is in threadservice
          pts,        \* the ts_data each thread works with
          sock,       \* the descriptor each thread reads from
          gone,       \* the connections whose client has quit
          crashed     \* a ts_data was deleted twice

vars == <<accepted, owner, fdOf, freed, arg, pc, pts, sock, gone, crashed>>

-------------------------------------------------------------------------------
Goto(n, from, to) == /\ ~crashed
                     /\ pc[n] = from
                     /\ pc' = [pc EXCEPT ![n] = to]

Init == /\ accepted = 0
        /\ owner = [f \in Fds |-> None]
        /\ fdOf = [n \in Conns |-> None]
        /\ freed = {}
        /\ arg = None
        /\ pc = [n \in Conns |-> "none"]
        /\ pts = [n \in Conns |-> None]
        /\ sock = [n \in Conns |-> None]
        /\ gone = {}
        /\ crashed = FALSE

\* The kernel gives out the lowest free descriptor.
Lowest(f) == /\ owner[f] = None
             /\ \A g \in Fds : owner[g] = None => f <= g

\* accept(), then new ts_data(this, fd).
Accept(n) ==
  /\ n = accepted + 1
  /\ \A m \in 1 .. accepted : pc[m] \notin {"new", "stored"}
  /\ Goto(n, "none", "new")
  /\ accepted' = n
  /\ \E f \in Fds : /\ Lowest(f)
                    /\ owner' = [owner EXCEPT ![f] = n]
                    /\ fdOf' = [fdOf EXCEPT ![n] = f]
  /\ UNCHANGED <<freed, arg, pts, sock, gone, crashed>>

\* Mutant of Store: a static pthread object keeps its first argument.
StoreStatic(n) == /\ Goto(n, "new", "stored")
                  /\ arg' = IF arg = None THEN n ELSE arg
                  /\ UNCHANGED <<accepted, owner, fdOf, freed, pts, sock, gone, crashed>>

\* pthread t(threadservice, pts): the constructor first stores the argument in
\* the object, where a thread that is late reads it from now on.
Store(n) == /\ Goto(n, "new", "stored")
            /\ arg' = n
            /\ UNCHANGED <<accepted, owner, fdOf, freed, pts, sock, gone, crashed>>

\* Then it creates the thread with the object's address, and the object dies.
Create(n) == /\ Goto(n, "stored", "start")
             /\ UNCHANGED <<accepted, owner, fdOf, freed, arg, pts, sock, gone, crashed>>

\* The fields of a ts_data: once another thread has deleted it, _fd reads as
\* anything, a descriptor of another connection included.
FdSeenIn(d) == IF d \in freed THEN Fds \cup {None} ELSE {fdOf[d]}

\* The new thread reads pd->_arg, which is whatever is in run()'s frame by then,
\* and calls calserverIO (or serviceIO) with pts->_fd.
ReadArg(n) == /\ Goto(n, "start", "serve")
              /\ pts' = [pts EXCEPT ![n] = arg]
              /\ \E f \in FdSeenIn(arg) : sock' = [sock EXCEPT ![n] = f]
              /\ UNCHANGED <<accepted, owner, fdOf, freed, arg, gone, crashed>>

\* The client closes its end.
Quit(n) == /\ ~crashed /\ n <= accepted /\ n \notin gone
           /\ gone' = gone \cup {n}
           /\ UNCHANGED <<accepted, owner, fdOf, freed, arg, pc, pts, sock, crashed>>

\* Mutant of EndService: the service ends after one request.
EndServiceEarly(n) == /\ Goto(n, "serve", "close")
                      /\ UNCHANGED <<accepted, owner, fdOf, freed, arg, pts, sock, gone, crashed>>

\* calserverIO or serviceIO returns: the read meets the end of the stream of
\* the connection now behind the descriptor, or there is none.
EndService(n) == /\ Goto(n, "serve", "close")
                 /\ sock[n] \in Fds => owner[sock[n]] \in gone \cup {None}
                 /\ UNCHANGED <<accepted, owner, fdOf, freed, arg, pts, sock, gone, crashed>>

\* Mutant of CloseFd: the descriptor stays open.
CloseFdNever(n) == /\ Goto(n, "close", "delete")
                   /\ UNCHANGED <<accepted, owner, fdOf, freed, arg, pts, sock, gone, crashed>>

\* close(pts->_fd)
CloseFd(n) == /\ Goto(n, "close", "delete")
              /\ \E f \in FdSeenIn(pts[n]) :
                   owner' = [g \in Fds |-> IF g = f THEN None ELSE owner[g]]
              /\ UNCHANGED <<accepted, fdOf, freed, arg, pts, sock, gone, crashed>>

\* delete pts
Delete(n) == /\ Goto(n, "delete", "done")
             /\ freed' = freed \cup {pts[n]}
             /\ crashed' = (pts[n] \in freed)
             /\ UNCHANGED <<accepted, owner, fdOf, arg, pts, sock, gone>>

ThreadStep(n) == ReadArg(n) \/ EndService(n) \/ CloseFd(n) \/ Delete(n)

Next == \E n \in Conns : \/ Accept(n) \/ Store(n) \/ Create(n)
                         \/ ThreadStep(n) \/ Quit(n)

Spec == Init /\ [][Next]_vars

\* The accepting thread finishes its iteration and every service thread keeps
\* running; nothing is assumed of the clients.
FairSpec == /\ Spec
            /\ \A n \in Conns : /\ WF_vars(Store(n))
                               /\ WF_vars(Create(n))
                               /\ WF_vars(ThreadStep(n))

-------------------------------------------------------------------------------
\* Every variable has its type.
TypeOK == /\ accepted \in 0 .. N
          /\ owner \in [Fds -> Conns \cup {None}]
          /\ fdOf \in [Conns -> Fds \cup {None}]
          /\ freed \subseteq Conns
          /\ arg \in Conns \cup {None}
          /\ pc \in [Conns -> {"none", "new", "stored", "start", "serve", "close",
                               "delete", "done"}]
          /\ pts \in [Conns -> Conns \cup {None}]
          /\ sock \in [Conns -> Fds \cup {None}]
          /\ gone \subseteq Conns
          /\ crashed \in BOOLEAN

Reading == {n \in Conns : pc[n] \in {"serve", "close", "delete"}}

\* server_tcp.hpp:223 says that each accepted connection is assigned to a
\* service: the thread started for a connection works with its ts_data.
ServesItsConnection == \A n \in Reading : pts[n] = n

\* However late a thread reads its argument, it gets the ts_data of its own
\* connection or of one accepted later, perhaps of one whose thread does not
\* exist yet: the argument is stored before the thread is created
\* (server_tcp.hpp:169-170, :224 and pthread_s.hpp:28-37).
NeverAnEarlierConnection == \A n \in Reading : pts[n] \in n .. accepted

\* The safety of the hand-over of arguments: the objects keep their types, and a thread
\* only ever works with a ts_data that was made for it or later (server_tcp.hpp:169-176).
Safe == TypeOK /\ NeverAnEarlierConnection

\* Every thread so far has read its argument in time.
InTime == \A n \in Conns : pts[n] \in {None, n}

\* As long as the threads read their arguments in time, a connection is closed
\* by one thread only, and only when its client is gone, though descriptors are
\* used again; and no ts_data is deleted twice (server_tcp.hpp:175-176).
ClosesOnlyWhatEnded ==
  [][InTime => /\ ~crashed'
               /\ \A f \in Fds :
                    owner[f] # None /\ owner'[f] # owner[f] => owner[f] \in gone]_vars

\* A connection whose client has quit gives its descriptor back, unless some
\* thread read another's argument (server_tcp.hpp:169-175).
DescriptorsReturn ==
  \A n \in Conns : n \in gone ~> (\A f \in Fds : owner[f] # n) \/ ~InTime
===============================================================================
