------------------------------ MODULE CalcSession ------------------------------
(***************************************************************************)
(* The calculator protocol of tcp_t/protocol_cus over TCP: client_tcp.hpp  *)
(* sends a request and waits for the answer, and for each connection a     *)
(* server thread runs calserverIO of server_tcp.hpp, which gets its        *)
(* requests with recvmessage of protocol.hpp.  recvmessage collects what   *)
(* it reads in a static std::string: one buffer for all the connections.   *)
(*                                                                         *)
(* A request travels as Pieces pieces; TCP may deliver any number of them  *)
(* at a time, and the last piece contains the END mark "\r\n".             *)
(***************************************************************************)
EXTENDS Naturals, Sequences, FiniteSets

CONSTANTS Clients,    \* each opens one connection
          K,          \* bound of the model: requests a client sends
          Pieces,     \* into how many pieces TCP may cut a request
          Overlap,    \* whether a client connects while another is served
          Drop        \* whether a connection may break and lose what is in flight

ASSUME CalcSessionAssumption ==
         /\ IsFiniteSet(Clients) /\ K \in Nat \ {0} /\ Pieces \in Nat \ {0}
         /\ Overlap \in BOOLEAN /\ Drop \in BOOLEAN

VARIABLES conn,      \* whether each client's connection is "off", "on" or "closed"
          asked,     \* how many requests each client has sent
          answers,   \* the messages answered to each client
          net,       \* the pieces on their way to the server
          buffer,    \* recvmessage's static buffer
          pc,        \* where each connection's thread is
          tmp,       \* the pieces the last read returned
          end,       \* where the thread found END in the buffer
          message,   \* what recvmessage handed out
          down       \* the server process has been killed

vars == <<conn, asked, answers, net, buffer, pc, tmp, end, message, down>>
client == <<conn, asked, net>>

-------------------------------------------------------------------------------
Piece == [from : Clients, req : 1 .. K, part : 1 .. Pieces]

Request(c, k) == [i \in 1 .. Pieces |-> [from |-> c, req |-> k, part |-> i]]

HasEnd(piece) == piece.part = Pieces

\* buffer.find(END): the end of the first message, 0 for npos.
FindEnd(s) == LET ends == {i \in 1 .. Len(s) : HasEnd(s[i])}
              IN  IF ends = {} THEN 0
                  ELSE CHOOSE i \in ends : \A j \in ends : i <= j

Goto(c, from, to) == /\ ~down
                     /\ pc[c] = from
                     /\ pc' = [pc EXCEPT ![c] = to]

Init == /\ conn = [c \in Clients |-> "off"]
        /\ asked = [c \in Clients |-> 0]
        /\ answers = [c \in Clients |-> <<>>]
        /\ net = [c \in Clients |-> <<>>]
        /\ buffer = <<>>
        /\ pc = [c \in Clients |-> "none"]
        /\ tmp = [c \in Clients |-> <<>>]
        /\ end = [c \in Clients |-> 0]
        /\ message = [c \in Clients |-> <<>>]
        /\ down = FALSE

\* A connection and its server thread begin.
Connect(c) == /\ Overlap \/ \A d \in Clients : pc[d] \in {"none", "done"}
              /\ conn[c] = "off"
              /\ Goto(c, "none", "read")
              /\ conn' = [conn EXCEPT ![c] = "on"]
              /\ UNCHANGED <<asked, answers, net, buffer, tmp, end, message, down>>

\* calclientIO writes the next request once the last one is answered.
Ask(c) == /\ conn[c] = "on" /\ asked[c] < K
          /\ Len(answers[c]) = asked[c]
          /\ asked' = [asked EXCEPT ![c] = asked[c] + 1]
          /\ net' = [net EXCEPT ![c] = net[c] \o Request(c, asked'[c])]
          /\ UNCHANGED <<conn, answers, buffer, pc, tmp, end, message, down>>

\* The client ends between two requests.
Leave(c) == /\ conn[c] = "on"
            /\ Len(answers[c]) = asked[c]
            /\ conn' = [conn EXCEPT ![c] = "closed"]
            /\ UNCHANGED <<asked, answers, net, buffer, pc, tmp, end, message, down>>

\* The connection breaks: some of what is in flight never arrives.
Break(c) == /\ Drop /\ conn[c] = "on"
            /\ conn' = [conn EXCEPT ![c] = "closed"]
            /\ \E n \in 0 .. Len(net[c]) :
                 net' = [net EXCEPT ![c] = SubSeq(net[c], 1, n)]
            /\ UNCHANGED <<asked, answers, buffer, pc, tmp, end, message, down>>

\* read(fd, tmp, sizeof(tmp)) returns data.
Read(c) == /\ net[c] # <<>>
           /\ Goto(c, "read", "append")
           /\ \E n \in 1 .. Len(net[c]) :
                /\ tmp' = [tmp EXCEPT ![c] = SubSeq(net[c], 1, n)]
                /\ net' = [net EXCEPT ![c] = SubSeq(net[c], n + 1, Len(net[c]))]
           /\ UNCHANGED <<conn, asked, answers, buffer, end, message, down>>

\* Mutant of ReadEnds: the end of the stream is taken for an empty read.
ReadEndsRetries(c) == /\ net[c] = <<>> /\ conn[c] = "closed"
                      /\ Goto(c, "read", "read")
                      /\ UNCHANGED <<client, answers, buffer, tmp, end, message, down>>

\* read returns 0 or -1: calserverIO ends and the thread closes the connection.
ReadEnds(c) == /\ net[c] = <<>> /\ conn[c] = "closed"
               /\ Goto(c, "read", "done")
               /\ UNCHANGED <<client, answers, buffer, tmp, end, message, down>>

\* Two threads inside the std::string at once may break the process.
MayCrash(c) ==
  down' \in {FALSE} \cup {\E d \in Clients \ {c} : pc[d] \in {"append", "find", "take"}}

\* buffer += tmp
AppendTmp(c) == /\ Goto(c, "append", "find")
                /\ buffer' = buffer \o tmp[c]
                /\ MayCrash(c)
                /\ UNCHANGED <<client, answers, tmp, end, message>>

\* buffer.find(END); without one, recvmessage reads on.
Find(c) == /\ Goto(c, "find", IF FindEnd(buffer) = 0 THEN "read" ELSE "take")
           /\ end' = [end EXCEPT ![c] = FindEnd(buffer)]
           /\ UNCHANGED <<client, answers, buffer, tmp, message, down>>

\* Mutant of Take: the message stays in the buffer.
TakeNoErase(c) == LET n == IF end[c] <= Len(buffer) THEN end[c] ELSE Len(buffer)
                  IN  /\ Goto(c, "take", "reply")
                      /\ message' = [message EXCEPT ![c] = SubSeq(buffer, 1, n)]
                      /\ UNCHANGED <<client, answers, buffer, tmp, end, down>>

\* *out = buffer.substr(0, end + ENDLEN); buffer.erase(0, end + ENDLEN): both
\* stop at the end of the buffer.
Take(c) == LET n == IF end[c] <= Len(buffer) THEN end[c] ELSE Len(buffer)
           IN  /\ Goto(c, "take", "reply")
               /\ message' = [message EXCEPT ![c] = SubSeq(buffer, 1, n)]
               /\ buffer' = SubSeq(buffer, n + 1, Len(buffer))
               /\ MayCrash(c)
               /\ UNCHANGED <<client, answers, tmp, end>>

\* Mutant of Reply: the service ends after one request.
ReplyOnce(c) == /\ Goto(c, "reply", "done")
                /\ answers' = [answers EXCEPT ![c] = Append(answers[c], message[c])]
                /\ UNCHANGED <<client, buffer, tmp, end, message, down>>

\* decode, compute the answer and write it.  decode looks for the '\r' past the
\* end of a message without one.  To a connection the client has closed the write
\* seems to succeed, or it raises SIGPIPE, which nobody ignores.
Reply(c) == /\ Goto(c, "reply", "read")
            /\ IF conn[c] = "on"
                 THEN /\ answers' = [answers EXCEPT ![c] = Append(answers[c], message[c])]
                      /\ down' \in {FALSE, FindEnd(message[c]) = 0}
                 ELSE /\ down' \in BOOLEAN
                      /\ UNCHANGED answers
            /\ UNCHANGED <<client, buffer, tmp, end, message>>

ThreadStep(c) == \/ Read(c) \/ ReadEnds(c) \/ AppendTmp(c) \/ Find(c)
                 \/ Take(c) \/ Reply(c)

Next == \E c \in Clients :
          Connect(c) \/ Ask(c) \/ Leave(c) \/ Break(c) \/ ThreadStep(c)

Spec == Init /\ [][Next]_vars

\* The server's threads keep running and TCP delivers what it has; clients may
\* stop at any time.
FairSpec == Spec /\ \A c \in Clients : WF_vars(ThreadStep(c))

-------------------------------------------------------------------------------
\* Every variable has its type.
TypeOK == /\ conn \in [Clients -> {"off", "on", "closed"}]
          /\ asked \in [Clients -> 0 .. K]
          /\ buffer \in Seq(Piece) /\ Len(buffer) <= Pieces * K * Cardinality(Clients)
          /\ pc \in [Clients -> {"none", "read", "append", "find", "take", "reply",
                                 "done"}]
          /\ end \in [Clients -> Nat]
          /\ down \in BOOLEAN
          /\ \A c \in Clients :
               /\ net[c] \in Seq(Piece) /\ tmp[c] \in Seq(Piece)
               /\ message[c] \in Seq(Piece) /\ answers[c] \in Seq(Seq(Piece))

\* The connection of d ended in the middle of a request.
BrokenOff(d) == conn[d] = "closed" /\ Len(answers[d]) < asked[d]

\* A client is answered once for each request, in order and about that request,
\* as long as no other client broke off and left the start of its request in
\* the buffer (protocol.hpp:256-263).
AnswersMatch ==
  \A c \in Clients : \A k \in 1 .. Len(answers[c]) :
    /\ k <= asked[c]
    /\ answers[c][k] = Request(c, k) \/ \E d \in Clients \ {c} : BrokenOff(d)

\* The safety of a session (protocol.hpp:246-266, server_tcp.hpp:61-82).
Safe == TypeOK /\ AnswersMatch

\* Every request is answered while the connection lasts: no request stays in
\* the buffer while its thread waits for more data.
RequestsAreAnswered ==
  \A c \in Clients : \A k \in 1 .. K :
    asked[c] = k ~> Len(answers[c]) = k \/ conn[c] = "closed" \/ down

\* The service of a connection that is closed comes to its end.
ServiceEnds ==
  \A c \in Clients : conn[c] = "closed" ~> pc[c] = "done" \/ down
===============================================================================
