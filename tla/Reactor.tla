-------------------------------- MODULE Reactor --------------------------------
(***************************************************************************)
(* IO/reactor/reactor_server.hpp: one thread, edge-triggered epoll, a      *)
(* connection object with an input and an output buffer per descriptor.    *)
(*                                                                         *)
(* The server advances one system call at a time; between two of them the  *)
(* clients connect, send, read, close and reset, and the kernel notes the  *)
(* edges they cause.  Each client has one connection, of the same name.    *)
(* The kernel (backlog, socket buffers, edges) and the clients are not in  *)
(* src/ and are modelled from the calls the server makes.                  *)
(***************************************************************************)
EXTENDS Naturals, Sequences, FiniteSets

CONSTANTS Clients,
          Fds,        \* the descriptors accept may return
          Listen,     \* the listening socket, in events
          None,       \* no connection
          Handler,    \* _callback: "cal" is cal_IO, "dict" is dict_handle
          K,          \* bound of the model: requests a client sends
          Window,     \* how many requests a client sends before it reads answers
          Split,      \* whether a request may arrive in two parts
          ReadBuf,    \* the pieces one read returns at most
          RespLen,    \* the units of output of one answer
          SndBuf,     \* the units a socket's send buffer holds
          Reset,      \* whether a client may reset its connection
          Expire      \* whether 300 seconds may pass without traffic

ASSUME ReactorAssumption ==
         /\ IsFiniteSet(Clients) /\ None \notin Clients /\ Listen \notin Clients
         /\ IsFiniteSet(Fds) /\ Fds \subseteq Nat
         /\ Handler \in {"cal", "dict"}
         /\ K \in Nat /\ Window \in Nat \ {0}
         /\ ReadBuf \in Nat \ {0} /\ RespLen \in Nat \ {0} /\ SndBuf \in Nat \ {0}
         /\ Split \in BOOLEAN /\ Reset \in BOOLEAN /\ Expire \in BOOLEAN

VARIABLES
  link,      \* each client's end: "off", "up", "eof", "reset", or "cut" by the server
  backlog,   \* the connections that wait for accept
  sent,      \* the pieces each client has sent so far: two per request
  rx,        \* the pieces the server has not read, TRUE for one that ends a request
  tx,        \* the units in the socket's send buffer
  got,       \* the units each client has received
  edge,      \* the events epoll has to report for each connection
  newEdge,   \* whether it has to report the listening socket
  conns,     \* _conns: the connection registered under each descriptor
  inbuf,     \* whether _inbuf holds the start of a request
  outbuf,    \* the units in _outbuf
  want,      \* the events registered with epoll
  stale,     \* whether _lasttime is more than 300 seconds ago
  batch,     \* the events of _revents that are still to be dispatched
  at,        \* where the server is
  cur,       \* the event in hand: descriptor, events, and whose it is
  back       \* where writer returns to

kernel == <<link, backlog, sent, rx, tx, got, edge, newEdge>>
objects == <<conns, inbuf, outbuf, want, stale>>
server == <<batch, at, cur, back>>
vars == <<link, backlog, sent, rx, tx, got, edge, newEdge, conns, inbuf, outbuf,
          want, stale, batch, at, cur, back>>

-------------------------------------------------------------------------------
Idle == [fd |-> 0, conn |-> None, ev |-> {}]

Registered == {conns[f] : f \in Fds} \ {None}

is_alive(registered, f) == registered[f] # None

\* What epoll_ctl ADD and MOD find ready of the events in w.
Ready(c, w) == {e \in w : \/ e = "in" /\ (rx[c] # <<>> \/ link[c] \in {"eof", "reset"})
                          \/ e = "out" /\ tx[c] < SndBuf}

Init == /\ link = [c \in Clients |-> "off"]
        /\ backlog = {}
        /\ sent = [c \in Clients |-> 0]
        /\ rx = [c \in Clients |-> <<>>]
        /\ tx = [c \in Clients |-> 0]
        /\ got = [c \in Clients |-> 0]
        /\ edge = [c \in Clients |-> {}]
        /\ newEdge = FALSE
        /\ conns = [f \in Fds |-> None]
        /\ inbuf = [c \in Clients |-> FALSE]
        /\ outbuf = [c \in Clients |-> 0]
        /\ want = [c \in Clients |-> {}]
        /\ stale = [c \in Clients |-> FALSE]
        /\ batch = {}
        /\ at = "wait"
        /\ cur = Idle
        /\ back = "dispatch"

-------------------------------------------------------------------------------
(* The clients and the kernel. *)

\* A new edge for c: reported if it is registered for it; errors always are.
Notice(c, events) == IF c \in Registered THEN edge[c] \cup (events \cap (want[c] \cup {"err"}))
                                         ELSE edge[c]

Connect(c) == /\ link[c] = "off"
              /\ link' = [link EXCEPT ![c] = "up"]
              /\ backlog' = backlog \cup {c}
              /\ newEdge' = TRUE
              /\ UNCHANGED <<sent, rx, tx, got, edge, objects, server>>

\* A request ends with the second piece; unless Split, both arrive at once.
Send(c) == LET half == sent[c] % 2
               pieces == IF Split THEN <<half = 1>> ELSE <<FALSE, TRUE>>
           IN  /\ link[c] = "up"
               /\ sent[c] < 2 * K
               /\ half = 1 \/ got[c] + Window * RespLen >= RespLen * (sent[c] \div 2 + 1)
               /\ sent' = [sent EXCEPT ![c] = sent[c] + Len(pieces)]
               /\ rx' = [rx EXCEPT ![c] = rx[c] \o pieces]
               /\ edge' = [edge EXCEPT ![c] = Notice(c, {"in"})]
               /\ UNCHANGED <<link, backlog, tx, got, newEdge, objects, server>>

\* The client reads its answers: a full send buffer becomes writable.
Drain(c) == /\ link[c] \in {"up", "cut"} /\ tx[c] > 0
            /\ got' = [got EXCEPT ![c] = got[c] + tx[c]]
            /\ tx' = [tx EXCEPT ![c] = 0]
            /\ edge' = [edge EXCEPT ![c] = Notice(c, {"out"})]
            /\ UNCHANGED <<link, backlog, sent, rx, newEdge, objects, server>>

\* The client closes, once it has its answers.
Close(c) == /\ link[c] = "up" /\ got[c] >= RespLen * (sent[c] \div 2)
            /\ sent[c] % 2 = 0
            /\ link' = [link EXCEPT ![c] = "eof"]
            /\ edge' = [edge EXCEPT ![c] = Notice(c, {"in"})]
            /\ UNCHANGED <<backlog, sent, rx, tx, got, newEdge, objects, server>>

\* The connection is reset: what was in flight is gone.
Abort(c) == /\ Reset /\ link[c] \in {"up", "eof"}
            /\ link' = [link EXCEPT ![c] = "reset"]
            /\ rx' = [rx EXCEPT ![c] = <<>>]
            /\ tx' = [tx EXCEPT ![c] = 0]
            /\ edge' = [edge EXCEPT ![c] = Notice(c, {"in", "out", "err"})]
            /\ UNCHANGED <<backlog, sent, got, newEdge, objects, server>>

\* 300 seconds pass since the last traffic of c.
Elapse(c) == /\ Expire /\ c \in Registered /\ ~stale[c] /\ at = "wait"
             /\ stale' = [stale EXCEPT ![c] = TRUE]
             /\ UNCHANGED <<kernel, conns, inbuf, outbuf, want, server>>

ClientStep(c) == Connect(c) \/ Send(c) \/ Drain(c) \/ Close(c) \/ Abort(c) \/ Elapse(c)

-------------------------------------------------------------------------------
(* The server.  At "broken" the process is dead, by SIGPIPE, or runs on with a  *)
(* deleted connection or after another undefined behaviour.                     *)

\* epoll_wait blocks until there is something to report; it reports all of it.
EpollWait ==
  LET ready == {f \in Fds : conns[f] # None /\ edge[conns[f]] # {}}
  IN  /\ at = "wait"
      /\ ready # {} \/ newEdge
      /\ batch' = {[fd |-> f, conn |-> conns[f], ev |-> edge[conns[f]]] : f \in ready}
                    \cup (IF newEdge THEN {[fd |-> 0, conn |-> Listen, ev |-> {"in"}]} ELSE {})
      /\ edge' = [c \in Clients |-> {}]
      /\ newEdge' = FALSE
      /\ at' = "dispatch"
      /\ UNCHANGED <<link, backlog, sent, rx, tx, got, objects, cur, back>>

\* The next event: EPOLLERR and EPOLLHUP count as readable and writable.
Dispatch ==
  /\ at = "dispatch"
  /\ \/ /\ batch = {}
        /\ at' = "scan"
        /\ UNCHANGED <<batch, cur, back>>
     \/ \E e \in batch :
          /\ batch' = batch \ {e}
          /\ cur' = e
          /\ back' = "dispatch"
          /\ at' = CASE e.conn = Listen -> "accept"
                     [] e.conn # Listen /\ ~is_alive(conns, e.fd) -> "dispatch"
                     [] e.conn # Listen /\ is_alive(conns, e.fd) ->
                          IF e.ev \cap {"in", "err"} # {} THEN "recv" ELSE "write"
  /\ UNCHANGED <<kernel, objects>>

\* Mutant of AfterRecv: the second half is dispatched without asking is_alive.
AfterRecvBlindly(registered) ==
  IF cur.ev \cap {"out", "err"} # {} THEN "write" ELSE "dispatch"

\* After recver, the EPOLLOUT half of the event, if the descriptor is alive.
AfterRecv(registered) ==
  IF cur.ev \cap {"out", "err"} # {} /\ is_alive(registered, cur.fd)
    THEN "write" ELSE "dispatch"

\* Mutant of Accept: one connection per event.
AcceptOnce ==
  /\ at = "accept"
  /\ at' = "dispatch"
  /\ \/ \E c \in backlog, f \in Fds :
          /\ conns[f] = None /\ \A g \in Fds : conns[g] = None => f <= g
          /\ backlog' = backlog \ {c}
          /\ conns' = [conns EXCEPT ![f] = c]
          /\ want' = [want EXCEPT ![c] = {"in"}]
          /\ edge' = [edge EXCEPT ![c] = Ready(c, {"in"})]
          /\ UNCHANGED <<link, sent, rx, tx, got, newEdge, inbuf, outbuf, stale>>
     \/ /\ backlog = {} \/ \A f \in Fds : conns[f] # None
        /\ UNCHANGED <<kernel, objects>>
  /\ UNCHANGED <<batch, cur, back>>

\* acceptor: accept until EAGAIN, or until there is no descriptor left.
Accept ==
  /\ at = "accept"
  /\ \/ \E c \in backlog, f \in Fds :
          /\ conns[f] = None /\ \A g \in Fds : conns[g] = None => f <= g
          /\ backlog' = backlog \ {c}
          /\ conns' = [conns EXCEPT ![f] = c]
          /\ want' = [want EXCEPT ![c] = {"in"}]
          /\ stale' = [stale EXCEPT ![c] = FALSE]
          /\ edge' = [edge EXCEPT ![c] = Ready(c, {"in"})]
          /\ UNCHANGED <<link, sent, rx, tx, got, newEdge, inbuf, outbuf, server>>
     \/ /\ backlog = {} \/ \A f \in Fds : conns[f] # None
        /\ at' = "dispatch"
        /\ UNCHANGED <<kernel, objects, batch, cur, back>>

\* closefd: out of epoll, closed, and the connection object deleted.
Release(f) == LET c == conns[f]
              IN  /\ conns' = [conns EXCEPT ![f] = None]
                  /\ link' = [link EXCEPT ![c] = "cut"]
                  /\ rx' = [rx EXCEPT ![c] = <<>>]
                  /\ edge' = [edge EXCEPT ![c] = {}]
                  /\ inbuf' = [inbuf EXCEPT ![c] = FALSE]
                  /\ outbuf' = [outbuf EXCEPT ![c] = 0]
                  /\ want' = [want EXCEPT ![c] = {}]
                  /\ stale' = [stale EXCEPT ![c] = FALSE]
                  /\ UNCHANGED <<backlog, sent, tx, got, newEdge>>

\* The pieces the next read returns, and the answers to the requests that end there.
Chunk(c) == SubSeq(rx[c], 1, IF Len(rx[c]) > ReadBuf THEN ReadBuf ELSE Len(rx[c]))
Unread(c) == SubSeq(rx[c], Len(Chunk(c)) + 1, Len(rx[c]))
Answers(c) == Cardinality({i \in 1 .. Len(Chunk(c)) : Chunk(c)[i]}) * RespLen

\* Mutants of RecvData: recver returns after one read; the last answer replaces
\* the output.
RecvDataOnce == LET c == conns[cur.fd] IN
  /\ at = "recv" /\ rx[c] # <<>>
  /\ rx' = [rx EXCEPT ![c] = Unread(c)]
  /\ outbuf' = [outbuf EXCEPT ![c] =
                   IF Handler = "cal" THEN outbuf[c] + Answers(c) ELSE RespLen]
  /\ stale' = [stale EXCEPT ![c] = FALSE]
  /\ at' = "write" /\ back' = "dispatch"
  /\ UNCHANGED <<link, backlog, sent, tx, got, edge, newEdge, conns, inbuf, want, batch, cur>>

RecvDataReplaces == LET c == conns[cur.fd] IN
  /\ at = "recv" /\ rx[c] # <<>>
  /\ rx' = [rx EXCEPT ![c] = Unread(c)]
  /\ outbuf' = [outbuf EXCEPT ![c] = RespLen]
  /\ stale' = [stale EXCEPT ![c] = FALSE]
  /\ at' = "write" /\ back' = "recv"
  /\ UNCHANGED <<link, backlog, sent, tx, got, edge, newEdge, conns, inbuf, want, batch, cur>>

\* read returns data: the handler turns it into output and writer is called.
\* cal_IO answers each complete request and keeps the rest; dict_handle takes
\* all there is as one request and replaces the output, after it has cut off two
\* characters: with fewer than two of them, as one piece alone may be, the behaviour
\* is undefined.
RecvData == LET c == conns[cur.fd] IN
  /\ at = "recv" /\ rx[c] # <<>>
  /\ rx' = [rx EXCEPT ![c] = Unread(c)]
  /\ IF Handler = "cal"
       THEN /\ outbuf' = [outbuf EXCEPT ![c] = outbuf[c] + Answers(c)]
            /\ inbuf' = [inbuf EXCEPT ![c] = ~ Chunk(c)[Len(Chunk(c))]]
       ELSE /\ outbuf' = [outbuf EXCEPT ![c] = RespLen]
            /\ UNCHANGED inbuf
  /\ stale' = [stale EXCEPT ![c] = FALSE]
  /\ at' \in {"write"} \cup (IF Handler = "dict" /\ Len(Chunk(c)) = 1 THEN {"broken"} ELSE {})
  /\ back' = "recv"
  /\ UNCHANGED <<link, backlog, sent, tx, got, edge, newEdge, conns, want, batch, cur>>

\* Mutant of RecvAgain: EAGAIN is taken for an error.
RecvAgainCloses == LET c == conns[cur.fd] IN
  /\ at = "recv" /\ rx[c] = <<>> /\ link[c] = "up"
  /\ Release(cur.fd)
  /\ at' = AfterRecv(conns')
  /\ UNCHANGED <<batch, cur, back>>

\* read fails with EAGAIN.
RecvAgain == LET c == conns[cur.fd] IN
  /\ at = "recv" /\ rx[c] = <<>> /\ link[c] = "up"
  /\ stale' = [stale EXCEPT ![c] = FALSE]
  /\ at' = AfterRecv(conns) /\ back' = "dispatch"
  /\ UNCHANGED <<kernel, conns, inbuf, outbuf, want, batch, cur>>

\* read returns 0.
RecvEof == LET c == conns[cur.fd] IN
  /\ at = "recv" /\ rx[c] = <<>> /\ link[c] = "eof"
  /\ Release(cur.fd)
  /\ at' = AfterRecv(conns')
  /\ UNCHANGED <<batch, cur, back>>

\* read fails: err_IO closes the connection and, having no return statement on
\* this path, may tell recver to go on with the deleted object.
RecvError == LET c == conns[cur.fd] IN
  /\ at = "recv" /\ link[c] = "reset"
  /\ Release(cur.fd)
  /\ at' \in {AfterRecv(conns'), "broken"}
  /\ UNCHANGED <<batch, cur, back>>

\* The units the next write accepts: a closed peer takes them all.
Accepted(c) == IF link[c] = "up" /\ outbuf[c] > SndBuf - tx[c] THEN SndBuf - tx[c] ELSE outbuf[c]

\* Mutant of WriteData: writer goes on when nothing is left to write.
WriteDataGoesOn == LET c == conns[cur.fd]
                       n == Accepted(c) IN
  /\ at = "write" /\ link[c] \in {"up", "eof"} /\ n > 0
  /\ outbuf' = [outbuf EXCEPT ![c] = outbuf[c] - n]
  /\ tx' = [tx EXCEPT ![c] = IF link[c] = "up" THEN tx[c] + n ELSE tx[c]]
  /\ UNCHANGED <<link, backlog, sent, rx, got, edge, newEdge, conns, inbuf, want, stale, server>>

\* write takes some of the output.  When all is gone the events are set back to
\* reading, which makes epoll look at the socket again, and writer returns.
WriteData == LET c == conns[cur.fd]
                 n == Accepted(c) IN
  /\ at = "write" /\ link[c] \in {"up", "eof"} /\ n > 0
  /\ outbuf' = [outbuf EXCEPT ![c] = outbuf[c] - n]
  /\ tx' = [tx EXCEPT ![c] = IF link[c] = "up" THEN tx[c] + n ELSE tx[c]]
  /\ IF n = outbuf[c]
       THEN /\ want' = [want EXCEPT ![c] = {"in"}]
            /\ edge' = [edge EXCEPT ![c] = edge[c] \cup Ready(c, {"in"})]
            /\ stale' = [stale EXCEPT ![c] = FALSE]
            /\ at' = back
       ELSE UNCHANGED <<want, edge, stale, at>>
  /\ UNCHANGED <<link, backlog, sent, rx, got, newEdge, conns, inbuf, batch, cur, back>>

\* write fails with EAGAIN: writer returns.
WriteAgain == LET c == conns[cur.fd] IN
  /\ at = "write" /\ link[c] = "up" /\ outbuf[c] > 0 /\ tx[c] = SndBuf
  /\ at' = back
  /\ UNCHANGED <<kernel, objects, batch, cur, back>>

\* With no output, write returns 0 and writer closes the connection; a recver
\* that called it goes on with the deleted object.
WriteNothing == LET c == conns[cur.fd] IN
  /\ at = "write" /\ link[c] \in {"up", "eof"} /\ outbuf[c] = 0
  /\ Release(cur.fd)
  /\ at' \in IF back = "recv" THEN {"dispatch", "broken"} ELSE {"dispatch"}
  /\ UNCHANGED <<batch, cur, back>>

\* write to a reset connection: SIGPIPE, or an error that err_IO handles by
\* closing, again without a return value.
WriteError == LET c == conns[cur.fd] IN
  /\ at = "write" /\ link[c] = "reset"
  /\ Release(cur.fd)
  /\ at' \in {"dispatch", "broken"}
  /\ UNCHANGED <<batch, cur, back>>

Expired == {f \in Fds : is_alive(conns, f) /\ stale[conns[f]]}

\* The keep-alive scan closes an idle connection, which erases the element the
\* range-for stands on: the loop goes on, ends early or breaks.
ScanClose == /\ at = "scan"
             /\ \E f \in Expired : Release(f)
             /\ at' \in {"scan", "wait", "broken"}
             /\ UNCHANGED <<batch, cur, back>>

ScanEnd == /\ at = "scan" /\ Expired = {}
           /\ at' = "wait"
           /\ cur' = Idle
           /\ UNCHANGED <<kernel, objects, batch, back>>

ServerStep == \/ EpollWait \/ Dispatch \/ Accept
              \/ RecvData \/ RecvAgain \/ RecvEof \/ RecvError
              \/ WriteData \/ WriteAgain \/ WriteNothing \/ WriteError
              \/ ScanClose \/ ScanEnd

Next == ServerStep \/ \E c \in Clients : ClientStep(c)

Spec == Init /\ [][Next]_vars

\* The server runs whenever it is not blocked in epoll_wait, and a client reads
\* what has been sent to it.
FairSpec == /\ Spec
            /\ WF_vars(ServerStep)
            /\ \A c \in Clients : WF_vars(Drain(c))

-------------------------------------------------------------------------------
\* Every variable has its type.
TypeOK == /\ link \in [Clients -> {"off", "up", "eof", "reset", "cut"}]
          /\ backlog \subseteq Clients
          /\ sent \in [Clients -> 0 .. 2 * K]
          /\ rx \in [Clients -> Seq(BOOLEAN)]
          /\ tx \in [Clients -> 0 .. SndBuf]
          /\ got \in [Clients -> Nat]
          /\ edge \in [Clients -> SUBSET {"in", "out", "err"}]
          /\ newEdge \in BOOLEAN
          /\ conns \in [Fds -> Clients \cup {None}]
          /\ inbuf \in [Clients -> BOOLEAN]
          /\ outbuf \in [Clients -> Nat]
          /\ want \in [Clients -> SUBSET {"in", "out"}]
          /\ stale \in [Clients -> BOOLEAN]
          /\ \A e \in batch \cup {cur} :
               /\ e.fd \in Nat /\ e.conn \in Clients \cup {None, Listen}
               /\ e.ev \subseteq {"in", "out", "err"}
          /\ at \in {"wait", "dispatch", "accept", "recv", "write", "scan", "broken"}
          /\ back \in {"recv", "dispatch"}

\* No input is forgotten with edge-triggered events (reactor_server.hpp:244-254,
\* :300): when the server blocks, epoll still has an event to report for every
\* connection with unread data, an end of stream or an error.
NoEdgeForgotten ==
  at = "wait" =>
    \A c \in Registered : rx[c] # <<>> \/ link[c] \in {"eof", "reset"} => edge[c] # {}

\* No connection is left in the backlog (:179-190): when the server blocks, the
\* listening socket has an event if a connection waits, as long as descriptors
\* do not run out.
NoBacklogForgotten ==
  at = "wait" /\ Cardinality(Fds) >= Cardinality(Clients) /\ backlog # {} => newEdge

\* An event is handled for the connection it was reported for (:162-174), though
\* descriptors are closed and given out again while a batch is dispatched.
EventsGoToTheirConnection ==
  /\ \A e \in batch : e.conn # Listen => conns[e.fd] \in {e.conn, None}
  /\ at \in {"recv", "write"} => conns[cur.fd] = cur.conn

\* The server keeps running on live connection objects.
NotBroken == at # "broken"

\* The safety of the reactor while no connection is reset (reactor_server.hpp:120-330):
\* it lives, and it never sleeps on a connection it has not accepted.
Safe == TypeOK /\ NotBroken /\ NoBacklogForgotten

\* :269 says output that could not be sent in one go is handed to epoll until
\* all is sent: when the server blocks, EPOLLOUT is registered for it.
UnsentOutputIsWatched ==
  at = "wait" => \A c \in Registered : outbuf[c] > 0 => "out" \in want[c]

\* A connection that is up is closed for one of two reasons (:285-290, :351-366),
\* whatever is reset, closed or given out again beside it: it was idle, or cal_IO
\* kept the start of a request and there was no answer left to write.
ClosesOnlyIdleOrCut ==
  [][\A c \in Clients : link[c] = "up" /\ link'[c] = "cut" =>
       stale[c] \/ (Handler = "cal" /\ inbuf[c] /\ outbuf[c] = 0)]_vars

\* Every request is answered, unless the connection ends.
RequestsAreAnswered ==
  \A c \in Clients : \A k \in 1 .. K :
    sent[c] = 2 * k ~> got[c] >= k * RespLen \/ link[c] # "up"
===============================================================================
