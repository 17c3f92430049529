-------------------------------- MODULE Pollers --------------------------------
(* The level-triggered servers of IO/select_server, IO/poll_server and          *)
(* IO/epoll_server: one thread waits for readable descriptors and handles them  *)
(* one by one.  The three differ in where they keep their descriptors, in how   *)
(* readiness is reported and in what a stale report could do.                   *)
(* A connection is a number of unread requests, of answers on the way, and the  *)
(* state of its ends.  Kernel and clients are external.                         *)
EXTENDS Naturals, FiniteSets, Sequences, FiniteSetsExt

CONSTANTS Clients,
          Limit,     \* for each server, the descriptor numbers it may use for connections
          Cap,       \* slots of the table, slot 0 for the listening socket
          K,         \* bound: requests of each client
          ReadBuf,   \* requests one read can return
          SndBuf,    \* answers a socket holds until the client reads
          Sock,      \* the listening socket
          None

VARIABLES kind,      \* which server this is
          link,      \* each connection's state, as the server's kernel sees it
          backlog,   \* clients connected and not accepted
          sent, rx,  \* requests sent, and those of them not read yet
          tx, got,   \* answers not read by the client, and read by it
          conn,      \* descriptor -> connection
          table,     \* select: _rfdarray; poll: the fd fields of _fds
          interest,  \* epoll: the registered descriptors
          ready,     \* select: the bits of fds; poll: slots with revents; epoll: events
          pos,       \* the slot being scanned
          cur,       \* the descriptor being handled
          owed,      \* answers of the write in progress not taken by the socket
          at         \* where the server is

clients == <<link, backlog, sent, got>>
net     == <<clients, rx, tx, conn>>
server  == <<table, interest, ready, pos, cur, owed, at>>
vars    == <<kind, net, server>>

Kinds == {"select", "poll", "epoll"}

PollersAssumption == /\ Limit \in [Kinds -> SUBSET Nat]
                     /\ \A k \in Kinds : IsFiniteSet(Limit[k])
                     /\ Cap \in Nat \ {0} /\ ReadBuf \in Nat \ {0} /\ SndBuf \in Nat \ {0}
                     /\ K \in [Clients -> Nat]
                     /\ Sock \notin Nat /\ None \notin Nat \cup Clients \cup {Sock}
ASSUME PollersAssumption

Fds == Limit[kind]
Slots == 0 .. Cap - 1
Open == {f \in Fds : conn[f] # None}

\* A client of the dictionary server sends a word and waits; the echo servers'
\* clients may send the next line before the answer.
Window == IF kind = "select" THEN 1 ELSE 2

\* The dictionary looks up what one read returns as one word; echo returns it.
Reply(n) == IF kind = "select" THEN 1 ELSE n

Readable(f) == IF f = Sock THEN backlog # <<>>
               ELSE rx[conn[f]] > 0 \/ link[conn[f]] \in {"eof", "reset"}

Init == /\ kind \in Kinds
        /\ link = [c \in Clients |-> "off"]
        /\ backlog = <<>>
        /\ sent = [c \in Clients |-> 0] /\ rx = [c \in Clients |-> 0]
        /\ tx = [c \in Clients |-> 0] /\ got = [c \in Clients |-> 0]
        /\ conn = [f \in Fds |-> None]
        /\ table = [s \in Slots |-> None]
        /\ interest = {} /\ ready = {} /\ pos = 0 /\ cur = None /\ owed = 0
        /\ at = "off"

-------------------------------------------------------------------------------
(* Clients *)

Connect(c) == /\ at \notin {"off", "dead"} /\ link[c] = "off"
              /\ link' = [link EXCEPT ![c] = "up"]
              /\ backlog' = Append(backlog, c)
              /\ UNCHANGED <<kind, sent, got, rx, tx, conn, server>>

Send(c) == /\ link[c] = "up" /\ sent[c] < K[c] /\ sent[c] - got[c] < Window
           /\ sent' = [sent EXCEPT ![c] = @ + 1]
           /\ rx' = [rx EXCEPT ![c] = @ + 1]
           /\ UNCHANGED <<kind, link, backlog, got, tx, conn, server>>

Drain(c) == /\ link[c] = "up" /\ tx[c] > 0
            /\ tx' = [tx EXCEPT ![c] = 0]
            /\ got' = [got EXCEPT ![c] = @ + tx[c]]
            /\ UNCHANGED <<kind, link, backlog, sent, rx, conn, server>>

\* Closing with answers unread resets the connection and discards its input.
Close(c) == /\ link[c] = "up"
            /\ \/ tx[c] = 0 /\ link' = [link EXCEPT ![c] = "eof"] /\ UNCHANGED rx
               \/ link' = [link EXCEPT ![c] = "reset"] /\ rx' = [rx EXCEPT ![c] = 0]
            /\ UNCHANGED <<kind, backlog, sent, got, tx, conn, server>>

ClientStep(c) == Connect(c) \/ Send(c) \/ Drain(c) \/ Close(c)

-------------------------------------------------------------------------------
(* Start: socket, bind and listen, each of which exits the process on failure. *)

SelectStart == /\ kind = "select" /\ at = "off"
               /\ \/ at' = "wait" /\ table' = [table EXCEPT ![0] = Sock]
                  \/ at' = "dead" /\ UNCHANGED table
               /\ UNCHANGED <<kind, net, interest, ready, pos, cur, owed>>

PollStart == /\ kind = "poll" /\ at = "off"
             /\ \/ at' = "wait" /\ table' = [table EXCEPT ![0] = Sock]
                \/ at' = "dead" /\ UNCHANGED table
             /\ UNCHANGED <<kind, net, interest, ready, pos, cur, owed>>

EpollStart == /\ kind = "epoll" /\ at = "off"
              /\ \/ at' = "wait" /\ interest' = {Sock}
                 \/ at' = "dead" /\ UNCHANGED interest
              /\ UNCHANGED <<kind, net, table, ready, pos, cur, owed>>

-------------------------------------------------------------------------------
(* Waiting; a time-out starts the loop again.                                   *)

\* select keeps the bits of the readable descriptors in fds.
SelectWait ==
  /\ kind = "select" /\ at = "wait"
  /\ ready' = {table[s] : s \in {t \in Slots : table[t] # None /\ Readable(table[t])}}
  /\ ready' # {}
  /\ pos' = 0 /\ at' = "scan"
  /\ UNCHANGED <<kind, net, table, interest, cur, owed>>

\* poll writes every slot's revents.
PollWait ==
  /\ kind = "poll" /\ at = "wait"
  /\ ready' = {s \in Slots : table[s] # None /\ Readable(table[s])}
  /\ ready' # {}
  /\ pos' = 0 /\ at' = "scan"
  /\ UNCHANGED <<kind, net, table, interest, cur, owed>>

\* epoll_wait fills the array of events.
EpollWait ==
  /\ kind = "epoll" /\ at = "wait"
  /\ ready' = {f \in interest : Readable(f)}
  /\ ready' # {}
  /\ at' = "scan"
  /\ UNCHANGED <<kind, net, table, interest, pos, cur, owed>>

-------------------------------------------------------------------------------
(* Scanning: pos is the first slot still to look at. *)

\* Go to the first of the given slots, or back to waiting.
Visit(hits) == /\ IF hits = {}
                    THEN at' = "wait" /\ pos' = 0 /\ cur' = None /\ ready' = {}
                    ELSE /\ pos' = Min(hits) /\ cur' = table[Min(hits)] /\ ready' = ready
                         /\ at' = IF cur' = Sock THEN "accept" ELSE "recv"
               /\ UNCHANGED <<kind, net, table, interest, owed>>

\* Mutant of SelectScan: the else branch does not test the bit.
SelectScanAll == /\ kind = "select" /\ at = "scan"
                 /\ Visit({s \in Slots : s >= pos /\ table[s] # None
                                           /\ (table[s] = Sock => Sock \in ready)})

SelectScan == /\ kind = "select" /\ at = "scan"
              /\ Visit({s \in Slots : s >= pos /\ table[s] # None /\ table[s] \in ready})

PollScan == /\ kind = "poll" /\ at = "scan"
            /\ Visit({s \in Slots : s >= pos /\ table[s] # None /\ s \in ready})

\* The kernel chooses the order of the events.
EpollScan == /\ kind = "epoll" /\ at = "scan"
             /\ \/ ready = {} /\ at' = "wait" /\ cur' = None /\ UNCHANGED ready
                \/ \E f \in ready : /\ ready' = ready \ {f} /\ cur' = f
                                    /\ at' = IF f = Sock THEN "accept" ELSE "recv"
             /\ UNCHANGED <<kind, net, table, interest, pos, owed>>

\* Handling is over: on to the next slot or event.
Continue == /\ at' = "scan"
            /\ pos' = IF kind = "epoll" THEN pos ELSE pos + 1
            /\ UNCHANGED <<kind, ready, cur>>

-------------------------------------------------------------------------------
(* Accepting *)

\* accept: the first connection waiting, on the lowest free descriptor.
Taken(c, f) == /\ at = "accept" /\ backlog # <<>> /\ c = Head(backlog)
               /\ f \in Fds \ Open /\ \A g \in Fds \ Open : f <= g
               /\ backlog' = Tail(backlog)
               /\ UNCHANGED <<sent, got, tx>>

\* accept fails: no descriptor is free.
AcceptFails == /\ at = "accept" /\ backlog # <<>> /\ Open = Fds
               /\ Continue
               /\ UNCHANGED <<net, table, interest, owed>>

\* The connection goes into the first free slot; without one it is closed.
Enter(c, f) == LET free == {s \in Slots : table[s] = None}
               IN  IF free # {}
                     THEN /\ table' = [table EXCEPT ![Min(free)] = f]
                          /\ conn' = [conn EXCEPT ![f] = c]
                          /\ UNCHANGED <<link, rx>>
                     ELSE /\ link' = [link EXCEPT ![c] = "cut"]
                          /\ rx' = [rx EXCEPT ![c] = 0]
                          /\ UNCHANGED <<table, conn>>

\* Mutant of SelectAccept: a full server forgets to close the connection.
SelectAcceptLeaks == /\ kind = "select"
                     /\ \E c \in Clients, f \in Fds :
                          /\ Taken(c, f)
                          /\ conn' = [conn EXCEPT ![f] = c]
                          /\ \/ \E s \in Slots : /\ table[s] = None
                                                 /\ \A t \in 0 .. s - 1 : table[t] # None
                                                 /\ table' = [table EXCEPT ![s] = f]
                             \/ (\A s \in Slots : table[s] # None) /\ UNCHANGED table
                     /\ Continue
                     /\ UNCHANGED <<link, rx, interest, owed>>

SelectAccept == /\ kind = "select"
                /\ \E c \in Clients, f \in Fds : Taken(c, f) /\ Enter(c, f)
                /\ Continue
                /\ UNCHANGED <<interest, owed>>

\* Mutant of PollAccept: it looks for a slot before it accepts.
PollAcceptWithSlot == /\ kind = "poll" /\ at = "accept"
                      /\ IF \E t \in Slots : table[t] = None
                           THEN \E c \in Clients, f \in Fds : Taken(c, f) /\ Enter(c, f)
                           ELSE UNCHANGED <<net, table>>
                      /\ Continue
                      /\ UNCHANGED <<interest, owed>>

PollAccept == /\ kind = "poll"
              /\ \E c \in Clients, f \in Fds : Taken(c, f) /\ Enter(c, f)
              /\ Continue
              /\ UNCHANGED <<interest, owed>>

EpollAccept == /\ kind = "epoll"
               /\ \E c \in Clients, f \in Fds : /\ Taken(c, f)
                                                /\ conn' = [conn EXCEPT ![f] = c]
                                                /\ interest' = interest \cup {f}
               /\ Continue
               /\ UNCHANGED <<link, rx, table, owed>>

-------------------------------------------------------------------------------
(* Receiving *)

\* read returns an error or the end: the descriptor is closed and forgotten.
Ended == /\ at = "recv" /\ rx[conn[cur]] = 0 /\ link[conn[cur]] \in {"eof", "reset"}
         /\ conn' = [conn EXCEPT ![cur] = None]
         /\ link' = [link EXCEPT ![conn[cur]] = "cut"]
         /\ Continue
         /\ UNCHANGED <<backlog, sent, got, rx, tx, owed>>

\* Mutant of Data: what is read stays in the socket.
DataPeek == LET c == conn[cur]
                n == IF rx[c] > ReadBuf THEN ReadBuf ELSE rx[c]
            IN  /\ at = "recv" /\ n > 0
                /\ owed' = Reply(n)
                /\ at' = "write"
                /\ UNCHANGED <<kind, clients, rx, tx, conn, table, interest, ready, pos, cur>>

\* read returns what is there, up to the size of the buffer, and the callback
\* makes the answer.
Data == LET c == conn[cur]
            n == IF rx[c] > ReadBuf THEN ReadBuf ELSE rx[c]
        IN  /\ at = "recv" /\ n > 0
            /\ rx' = [rx EXCEPT ![c] = @ - n]
            /\ owed' = Reply(n)
            /\ at' = "write"
            /\ UNCHANGED <<kind, clients, tx, conn, table, interest, ready, pos, cur>>

SelectRecv == /\ kind = "select"
              /\ \/ Ended /\ table' = [table EXCEPT ![pos] = None] /\ UNCHANGED interest
                 \/ Data

PollRecv == /\ kind = "poll"
            /\ \/ /\ Ended /\ table' = [table EXCEPT ![pos] = None] /\ UNCHANGED interest
               \/ Data

EpollRecv == /\ kind = "epoll"
             /\ \/ Ended /\ interest' = interest \ {cur} /\ UNCHANGED table
                \/ Data

\* A blocking write: it returns when the socket has taken everything.
WriteSome == LET c == conn[cur]
                 room == SndBuf - tx[c]
                 n == IF owed > room THEN room ELSE owed
             IN  /\ at = "write" /\ link[c] = "up" /\ n > 0
                 /\ tx' = [tx EXCEPT ![c] = @ + n]
                 /\ owed' = owed - n
                 /\ IF n = owed THEN Continue ELSE UNCHANGED <<kind, ready, pos, cur, at>>
                 /\ UNCHANGED <<clients, rx, conn, table, interest>>

\* The client has closed: its kernel answers the data with a reset.
WriteToClosed == /\ at = "write" /\ link[conn[cur]] = "eof"
                 /\ link' = [link EXCEPT ![conn[cur]] = "reset"]
                 /\ rx' = [rx EXCEPT ![conn[cur]] = 0]
                 /\ owed' = 0
                 /\ Continue
                 /\ UNCHANGED <<backlog, sent, got, tx, conn, table, interest>>

\* A write to a reset connection fails and is left at that, or it is SIGPIPE.
WriteToReset == /\ at = "write" /\ link[conn[cur]] = "reset"
                /\ owed' = 0
                /\ \/ Continue
                   \/ at' = "dead" /\ UNCHANGED <<kind, ready, pos, cur>>
                /\ UNCHANGED <<net, table, interest>>

SelectStep == SelectStart \/ SelectWait \/ SelectScan \/ SelectAccept \/ SelectRecv
PollStep   == PollStart \/ PollWait \/ PollScan \/ PollAccept \/ PollRecv
EpollStep  == EpollStart \/ EpollWait \/ EpollScan \/ EpollAccept \/ EpollRecv
Write      == WriteSome \/ WriteToClosed \/ WriteToReset

ServerStep == SelectStep \/ PollStep \/ EpollStep \/ AcceptFails \/ Write

Next == ServerStep \/ \E c \in Clients : ClientStep(c)

Spec == Init /\ [][Next]_vars

\* The server runs when it is not blocked; a client reads its answers.
FairSpec == /\ Spec
            /\ WF_vars(ServerStep)
            /\ \A c \in Clients : WF_vars(Drain(c))

-------------------------------------------------------------------------------
\* Every variable has its type.
TypeOK == /\ kind \in Kinds
          /\ link \in [Clients -> {"off", "up", "eof", "reset", "cut"}]
          /\ backlog \in Seq(Clients)
          /\ \A c \in Clients : {sent[c], rx[c], got[c]} \subseteq 0 .. K[c]
          /\ tx \in [Clients -> 0 .. SndBuf]
          /\ conn \in [Fds -> Clients \cup {None}]
          /\ table \in [Slots -> Fds \cup {Sock, None}]
          /\ interest \subseteq Fds \cup {Sock}
          /\ ready \subseteq Fds \cup Slots \cup {Sock}
          /\ pos \in Nat /\ cur \in Fds \cup {Sock, None} /\ owed \in 0 .. ReadBuf
          /\ at \in {"off", "wait", "scan", "accept", "recv", "write", "dead"}

\* The server never calls accept or read on a blocking descriptor that has nothing
\* for it, which would stop all its clients (select_server.hpp:33-46, poll_server.hpp:85-102,
\* epoll_server.hpp:75-89): what was reported readable still is when its turn
\* comes, though descriptors are closed and given out again during the scan.
NeverBlocksReading ==
  /\ at = "accept" => backlog # <<>>
  /\ at = "recv" => conn[cur] # None /\ Readable(cur)

\* While the server waits, exactly the open connections are watched, each in one slot
\* (select_server.hpp:48-95, poll_server.hpp:104-162, epoll_server.hpp:91-132).
Watched == IF kind = "epoll" THEN interest
           ELSE {table[s] : s \in {t \in Slots : table[t] # None}}

WatchesWhatIsOpen ==
  at = "wait" => /\ Watched = Open \cup {Sock}
                 /\ \A s, t \in Slots : table[s] = table[t] => s = t \/ table[s] = None

\* The safety of the three servers: their tables are consistent with the descriptors that
\* are open, so no connection is forgotten and no closed descriptor is watched.
Safe == TypeOK /\ WatchesWhatIsOpen

\* What the servers promise, and how their state shows it.
Phase == [c \in Clients |-> IF link[c] = "off" THEN "away"
                            ELSE IF link[c] = "cut" THEN "over"
                            ELSE IF \E f \in Open : conn[f] = c THEN "served" ELSE "waiting"]

Service == INSTANCE EchoService
             WITH room <- IF kind = "epoll" THEN Cardinality(Fds) ELSE Cap - 1,
                  phase <- Phase,
                  asked <- sent,
                  answered <- [c \in Clients |-> tx[c] + got[c]],
                  left <- {c \in Clients : link[c] \in {"eof", "reset"}},
                  working <- at \notin {"off", "dead"}

\* All three servers implement EchoService.
ImplementsService == Service!Spec

\* Every connection is taken out of the backlog unless descriptors run out, and every
\* request is answered unless its connection ends or the server dies (the loops of run and of the scans).
EveryoneIsServed ==
  \A c \in Clients :
    /\ link[c] = "up" /\ Phase[c] = "waiting" ~> Phase[c] # "waiting" \/ Open = Fds \/ at = "dead"
    /\ \A k \in 1 .. K[c] : sent[c] = k /\ Phase[c] = "served"
                            ~> got[c] >= k \/ link[c] # "up" \/ at = "dead"
===============================================================================
