----------------------------- MODULE PollersProofs -----------------------------
(***************************************************************************)
(* Proofs about Pollers for any clients, descriptors, sizes of the table,  *)
(* of a read and of a send buffer: the tables of the three servers agree   *)
(* with the open descriptors, no call of accept or read blocks, and all    *)
(* three implement EchoService.                                            *)
(***************************************************************************)
EXTENDS Pollers, FiniteSetTheorems, SequenceTheorems, WellFoundedInduction, TLAPS

Links == {"off", "up", "eof", "reset", "cut"}
Live  == {"up", "eof", "reset"}

-------------------------------------------------------------------------------
(* The inductive invariant, by parts. *)

\* The types, without the bounds on the numbers of requests.
ShapeOK == /\ kind \in Kinds
           /\ link \in [Clients -> Links]
           /\ backlog \in Seq(Clients)
           /\ sent \in [Clients -> Nat] /\ rx \in [Clients -> Nat] /\ got \in [Clients -> Nat]
           /\ tx \in [Clients -> 0 .. SndBuf]
           /\ conn \in [Fds -> Clients \cup {None}]
           /\ table \in [Slots -> Fds \cup {Sock, None}]
           /\ interest \subseteq Fds \cup {Sock}
           /\ ready \subseteq Fds \cup Slots \cup {Sock}
           /\ pos \in Nat /\ cur \in Fds \cup {Sock, None} /\ owed \in 0 .. ReadBuf
           /\ at \in {"off", "wait", "scan", "accept", "recv", "write", "dead"}

\* A request is unread, or its answer is owed, in the socket or with the client, or it is
\* lost; and no client sends more than it has.
Owed(c) == IF at = "write" /\ conn[cur] = c THEN owed ELSE 0
CountInv == \A c \in Clients : rx[c] + Owed(c) + tx[c] + got[c] <= sent[c] /\ sent[c] <= K[c]

\* A connection is in the backlog, under one descriptor, or neither.
Waiting(q) == {q[i] : i \in 1 .. Len(q)}
Distinct(q) == \A i, j \in 1 .. Len(q) : q[i] = q[j] => i = j
ConnInv == /\ \A f, g \in Fds : conn[f] = conn[g] /\ conn[f] # None => f = g
           /\ \A f \in Open : link[conn[f]] \in Live /\ conn[f] \notin Waiting(backlog)
           /\ \A c \in Waiting(backlog) : c \in Clients /\ link[c] \in Live
           /\ Distinct(backlog)

Running == at \notin {"off", "dead"}

\* The table, or epoll's interest, holds the open descriptors and the listening socket.
TableInv == IF kind = "epoll"
              THEN /\ \A s \in Slots : table[s] = None
                   /\ \A f \in Fds : f \in interest <=> f \in Open
                   /\ Running => Sock \in interest
              ELSE /\ \A s, t \in Slots : table[s] = table[t] => s = t \/ table[s] = None
                   /\ \A f \in Fds : f \in Open <=> \E s \in Slots : table[s] = f
                   /\ \A s \in Slots : table[s] = Sock => s = 0
                   /\ Running => table[0] = Sock

\* The descriptors still to be visited.
Hit(s) == table[s] # None /\ IF kind = "select" THEN table[s] \in ready ELSE s \in ready
First == IF at = "scan" THEN pos ELSE pos + 1
Left == IF kind = "epoll" THEN ready ELSE {table[s] : s \in {t \in Slots : t >= First /\ Hit(t)}}

\* They are readable, and what is handled is not among them.
Scanning == at \in {"scan", "accept", "recv", "write"}
ScanInv == /\ Scanning => Left \subseteq Open \cup {Sock} /\ \A f \in Left : Readable(f)
           /\ Scanning /\ at # "scan" => cur \notin Left /\ (kind # "epoll" => pos \in Slots /\ cur = table[pos])
           /\ at = "accept" => cur = Sock /\ Readable(Sock)
           /\ at = "recv" => cur \in Open /\ Readable(cur)
           /\ at = "write" => cur \in Open
           /\ at \in {"off", "wait"} => ready = {} /\ cur = None

\* Until the listening socket has had its turn nothing is closed: no slot that is free and no
\* descriptor that is not open is marked.
MarkInv == /\ kind = "select" /\ Scanning /\ pos = 0 => ready \subseteq Open \cup {Sock}
           /\ kind = "poll" /\ Scanning /\ pos = 0 => \A s \in ready : s \in Slots /\ table[s] # None

\* Before the start nothing is open.
OffInv == at = "off" => Open = {} /\ \A s \in Slots : table[s] = None

IInv == ShapeOK /\ CountInv /\ ConnInv /\ TableInv /\ ScanInv /\ MarkInv /\ OffInv

-------------------------------------------------------------------------------
(* Lemmas about the operators. *)

\* The constants' assumptions, as the provers use them.
LEMMA Constants ==
  /\ \A k \in Kinds : Limit[k] \subseteq Nat /\ IsFiniteSet(Limit[k])
  /\ Cap \in Nat \ {0} /\ ReadBuf \in Nat \ {0} /\ SndBuf \in Nat \ {0}
  /\ \A c \in Clients : K[c] \in Nat
  /\ Sock \notin Nat /\ None \notin Nat /\ None \notin Clients /\ None # Sock
  BY PollersAssumption DEF PollersAssumption

\* A set of natural numbers that is not empty has a least element.
LEMMA Least == ASSUME NEW S \in SUBSET Nat, S # {} PROVE Min(S) \in S /\ \A y \in S : Min(S) <= y
<1> DEFINE R == OpToRel(<, Nat)
<1>1. IsWellFoundedOn(R, Nat)
  BY NatLessThanWellFounded, Zenon
<1>2. \A x, y \in Nat : y < x => <<y, x>> \in R
  BY DEF OpToRel
<1> HIDE DEF R
<1>3. PICK x \in S : \A y \in S : ~ (<<y, x>> \in R)
  BY <1>1, WFMin
<1>4. ASSUME NEW y \in S PROVE x <= y
  <2>1. x \in Nat /\ y \in Nat /\ ~ (y < x)
    BY <1>2, <1>3
  <2> QED
    BY <2>1
<1> QED
  BY <1>4 DEF Min

\* What the steps use of the types.
LEMMA Types ==
  ASSUME ShapeOK
  PROVE  /\ kind \in Kinds /\ Fds \subseteq Nat /\ Slots \subseteq Nat /\ 0 \in Slots
         /\ link \in [Clients -> Links] /\ backlog \in Seq(Clients)
         /\ sent \in [Clients -> Nat] /\ rx \in [Clients -> Nat] /\ got \in [Clients -> Nat]
         /\ tx \in [Clients -> 0 .. SndBuf] /\ owed \in 0 .. ReadBuf
         /\ \A c \in Clients : sent[c] \in Nat /\ rx[c] \in Nat /\ got[c] \in Nat /\ tx[c] \in Nat /\ K[c] \in Nat
         /\ conn \in [Fds -> Clients \cup {None}] /\ table \in [Slots -> Fds \cup {Sock, None}]
         /\ interest \subseteq Fds \cup {Sock} /\ ready \subseteq Fds \cup Slots \cup {Sock}
         /\ pos \in Nat /\ cur \in Fds \cup {Sock, None} /\ Len(backlog) \in Nat
         /\ \A f \in Fds : f # Sock /\ f # None /\ (f \in Open => conn[f] \in Clients)
  BY Constants DEF ShapeOK, Fds, Slots, Open

\* The backlog as a queue.
LEMMA Queued ==
  ASSUME NEW q \in Seq(Clients), NEW c \in Clients
  PROVE  /\ Append(q, c) \in Seq(Clients) /\ Len(Append(q, c)) = Len(q) + 1 /\ Len(q) \in Nat
         /\ \A i \in 1 .. Len(q) + 1 : Append(q, c)[i] = IF i <= Len(q) THEN q[i] ELSE c
         /\ Append(q, c) # <<>> /\ Waiting(Append(q, c)) = Waiting(q) \cup {c}
         /\ Distinct(q) /\ c \notin Waiting(q) => Distinct(Append(q, c))
<1>1. /\ Append(q, c) \in Seq(Clients) /\ Len(Append(q, c)) = Len(q) + 1 /\ Len(q) \in Nat
      /\ \A i \in 1 .. Len(q) + 1 : Append(q, c)[i] = IF i <= Len(q) THEN q[i] ELSE c
  OBVIOUS
<1>2. Append(q, c) # <<>>
  BY <1>1, EmptySeq
<1>3. Waiting(Append(q, c)) = Waiting(q) \cup {c}
  <2>1. \A x : x \in Waiting(Append(q, c)) <=> \E i \in 1 .. Len(q) + 1 : x = Append(q, c)[i]
    BY <1>1 DEF Waiting
  <2>2. \A x : x \in Waiting(q) <=> \E i \in 1 .. Len(q) : x = q[i]
    BY DEF Waiting
  <2>3. ASSUME NEW x \in Waiting(q) \cup {c} PROVE x \in Waiting(Append(q, c))
    <3>1. CASE x = c
      <4>1. Len(q) + 1 \in 1 .. Len(q) + 1 /\ Append(q, c)[Len(q) + 1] = c
        BY <1>1
      <4> QED
        BY <2>1, <3>1, <4>1
    <3>2. ASSUME NEW i \in 1 .. Len(q), x = q[i] PROVE x \in Waiting(Append(q, c))
      <4>1. i \in 1 .. Len(q) + 1 /\ Append(q, c)[i] = x
        BY <1>1, <3>2
      <4> QED
        BY <2>1, <4>1
    <3> QED
      BY <2>2, <2>3, <3>1, <3>2
  <2>4. ASSUME NEW x \in Waiting(Append(q, c)) PROVE x \in Waiting(q) \cup {c}
    <3>1. PICK i \in 1 .. Len(q) + 1 : x = Append(q, c)[i]
      BY <2>1
    <3>2. i \in 1 .. Len(q) => x = q[i]
      BY <1>1, <3>1
    <3>3. i \notin 1 .. Len(q) => x = c
      BY <1>1, <3>1
    <3> QED
      BY <2>2, <3>2, <3>3
  <2> QED
    BY <2>3, <2>4
<1>4. Distinct(q) /\ c \notin Waiting(q) => Distinct(Append(q, c))
  BY <1>1 DEF Distinct, Waiting
<1> QED
  BY <1>1, <1>2, <1>3, <1>4

\* accept takes the first connection of the backlog; the others keep their place.
LEMMA Dequeued ==
  ASSUME NEW q \in Seq(Clients), q # <<>>, Distinct(q)
  PROVE  /\ Head(q) \in Clients /\ Head(q) \in Waiting(q)
         /\ Tail(q) \in Seq(Clients) /\ Distinct(Tail(q)) /\ Waiting(Tail(q)) = Waiting(q) \ {Head(q)}
<1>1. /\ Len(q) \in Nat \ {0} /\ Tail(q) \in Seq(Clients) /\ Len(Tail(q)) = Len(q) - 1
      /\ Head(q) = q[1] /\ Head(q) \in Clients
      /\ \A i \in 1 .. Len(q) - 1 : Tail(q)[i] = q[i + 1]
  BY EmptySeq, HeadTailProperties
<1>2. Head(q) \in Waiting(q)
  BY <1>1 DEF Waiting
<1>3. Distinct(Tail(q))
  BY <1>1 DEF Distinct
<1>4. ASSUME NEW x \in Waiting(Tail(q)) PROVE x \in Waiting(q) \ {Head(q)}
  <2>1. PICK i \in 1 .. Len(q) - 1 : x = q[i + 1]
    BY <1>1 DEF Waiting
  <2>2. i + 1 \in 1 .. Len(q) /\ i + 1 # 1 /\ 1 \in 1 .. Len(q)
    BY <1>1
  <2> QED
    BY <1>1, <2>1, <2>2 DEF Waiting, Distinct
<1>5. ASSUME NEW x \in Waiting(q) \ {Head(q)} PROVE x \in Waiting(Tail(q))
  <2>1. PICK i \in 1 .. Len(q) : x = q[i]
    BY DEF Waiting
  <2>2. i # 1
    BY <1>1, <2>1
  <2>3. i - 1 \in 1 .. Len(q) - 1 /\ Tail(q)[i - 1] = x
    BY <1>1, <2>1, <2>2
  <2> QED
    BY <1>1, <2>3 DEF Waiting
<1> QED
  BY <1>1, <1>2, <1>3, <1>4, <1>5

-------------------------------------------------------------------------------
(* What the clients do keeps the invariant. *)

Input(c) == rx[c] > 0 \/ link[c] \in {"eof", "reset"}

\* The connection of c alone changes, and what is readable stays so.
LEMMA ClientEffect ==
  ASSUME ShapeOK, CountInv, NEW c \in Clients, ClientStep(c)
  PROVE  /\ UNCHANGED <<kind, conn, server>>
         /\ link' \in [Clients -> Links] /\ sent' \in [Clients -> Nat] /\ rx' \in [Clients -> Nat]
         /\ got' \in [Clients -> Nat] /\ tx' \in [Clients -> 0 .. SndBuf]
         /\ \A d \in Clients \ {c} : /\ link'[d] = link[d] /\ sent'[d] = sent[d] /\ rx'[d] = rx[d]
                                     /\ got'[d] = got[d] /\ tx'[d] = tx[d]
         /\ rx'[c] + tx'[c] + got'[c] + sent[c] <= rx[c] + tx[c] + got[c] + sent'[c] /\ sent'[c] <= K[c]
         /\ Input(c) => Input(c)'
         /\ \/ backlog' = backlog /\ (link'[c] = link[c] \/ (link[c] = "up" /\ link'[c] \in {"eof", "reset"}))
            \/ Running /\ link[c] = "off" /\ link'[c] = "up" /\ backlog' = Append(backlog, c)
<1> USE Types, Constants
<1>1. CASE Connect(c)
  <2>1. /\ link' = [link EXCEPT ![c] = "up"] /\ link[c] = "off" /\ Running /\ backlog' = Append(backlog, c)
        /\ UNCHANGED <<kind, sent, got, rx, tx, conn, server>>
    BY <1>1 DEF Connect, Running
  <2>2. link' \in [Clients -> Links] /\ link'[c] = "up" /\ \A d \in Clients \ {c} : link'[d] = link[d]
    BY <2>1 DEF Links
  <2>3. ~ (link[c] \in {"eof", "reset"}) /\ sent[c] <= K[c]
    BY <2>1 DEF CountInv
  <2>4. Input(c) => Input(c)'
    BY <2>1, <2>3 DEF Input
  <2>5. rx'[c] + tx'[c] + got'[c] + sent[c] <= rx[c] + tx[c] + got[c] + sent'[c] /\ sent'[c] <= K[c]
    BY <2>1, <2>3 DEF ShapeOK
  <2> QED
    BY <2>1, <2>2, <2>4, <2>5
<1>2. CASE Send(c)
  <2>1. /\ sent' = [sent EXCEPT ![c] = sent[c] + 1] /\ rx' = [rx EXCEPT ![c] = rx[c] + 1] /\ sent[c] < K[c]
        /\ UNCHANGED <<kind, link, backlog, got, tx, conn, server>>
    BY <1>2 DEF Send
  <2>2. sent' \in [Clients -> Nat] /\ rx' \in [Clients -> Nat] /\ rx'[c] = rx[c] + 1 /\ sent'[c] = sent[c] + 1
    <3>1. sent \in [Clients -> Nat] /\ rx \in [Clients -> Nat] /\ sent[c] \in Nat /\ rx[c] \in Nat
      BY DEF ShapeOK
    <3>2. sent' \in [Clients -> Nat] /\ sent'[c] = sent[c] + 1
      BY <2>1, <3>1
    <3>3. rx' \in [Clients -> Nat] /\ rx'[c] = rx[c] + 1
      BY <2>1, <3>1
    <3> QED
      BY <3>2, <3>3
  <2>3. \A d \in Clients \ {c} : sent'[d] = sent[d] /\ rx'[d] = rx[d]
    BY <2>1
  <2>4. rx'[c] + tx'[c] + got'[c] + sent[c] <= rx[c] + tx[c] + got[c] + sent'[c] /\ sent'[c] <= K[c]
    <3>1. sent[c] \in Nat /\ rx[c] \in Nat /\ tx[c] \in Nat /\ got[c] \in Nat /\ K[c] \in Nat
      BY DEF ShapeOK
    <3>2. tx'[c] = tx[c] /\ got'[c] = got[c] /\ sent[c] < K[c]
      BY <2>1
    <3> HIDE Types, Constants
    <3> QED
      BY <2>2, <3>1, <3>2
  <2>5. Input(c) => Input(c)'
    BY <2>1, <2>2 DEF Input
  <2>6. \A d \in Clients \ {c} : link'[d] = link[d] /\ got'[d] = got[d] /\ tx'[d] = tx[d]
    BY <2>1
  <2> QED
    BY <2>1, <2>2, <2>3, <2>4, <2>5, <2>6
<1>3. CASE Drain(c)
  <2>1. /\ tx' = [tx EXCEPT ![c] = 0] /\ got' = [got EXCEPT ![c] = got[c] + tx[c]]
        /\ UNCHANGED <<kind, link, backlog, sent, rx, conn, server>>
    BY <1>3 DEF Drain
  <2>2. /\ tx \in [Clients -> 0 .. SndBuf] /\ got \in [Clients -> Nat] /\ tx[c] \in Nat /\ got[c] \in Nat
        /\ sent[c] \in Nat /\ rx[c] \in Nat /\ 0 \in 0 .. SndBuf
    BY DEF ShapeOK
  <2>3. tx' \in [Clients -> 0 .. SndBuf] /\ tx'[c] = 0 /\ \A d \in Clients \ {c} : tx'[d] = tx[d]
    BY <2>1, <2>2
  <2>4. got' \in [Clients -> Nat] /\ got'[c] = got[c] + tx[c] /\ \A d \in Clients \ {c} : got'[d] = got[d]
    BY <2>1, <2>2
  <2>5. rx'[c] + tx'[c] + got'[c] + sent[c] <= rx[c] + tx[c] + got[c] + sent'[c] /\ sent'[c] <= K[c]
    BY <2>1, <2>2, <2>3, <2>4 DEF CountInv
  <2> QED
    BY <2>1, <2>3, <2>4, <2>5 DEF Input
<1>4. CASE Close(c)
  <2>1. /\ UNCHANGED <<kind, backlog, sent, got, tx, conn, server>> /\ link[c] = "up"
        /\ \/ link' = [link EXCEPT ![c] = "eof"] /\ rx' = rx
           \/ link' = [link EXCEPT ![c] = "reset"] /\ rx' = [rx EXCEPT ![c] = 0]
    BY <1>4 DEF Close
  <2>2. link' \in [Clients -> Links] /\ link'[c] \in {"eof", "reset"} /\ rx' \in [Clients -> Nat] /\ rx'[c] <= rx[c]
    <3>1. CASE link' = [link EXCEPT ![c] = "eof"] /\ rx' = rx
      BY <3>1 DEF Links
    <3>2. CASE link' = [link EXCEPT ![c] = "reset"] /\ rx' = [rx EXCEPT ![c] = 0]
      BY <3>2 DEF Links
    <3> QED
      BY <2>1, <3>1, <3>2
  <2>3. \A d \in Clients \ {c} : link'[d] = link[d] /\ rx'[d] = rx[d]
    BY <2>1
  <2>4. sent[c] <= K[c]
    BY DEF CountInv
  <2> QED
    BY <2>1, <2>2, <2>3, <2>4 DEF Input
<1> QED
  BY <1>1, <1>2, <1>3, <1>4 DEF ClientStep

\* What clients do preserves the invariant: they never touch a table of a server.
LEMMA ClientKeeps == ASSUME IInv, NEW c \in Clients, ClientStep(c) PROVE IInv'
<1>0. /\ ShapeOK /\ CountInv /\ ConnInv /\ TableInv /\ ScanInv /\ MarkInv /\ OffInv
      /\ backlog \in Seq(Clients) /\ owed \in Nat
      /\ \A f \in Fds : f # Sock /\ (f \in Open => conn[f] \in Clients)
  BY Types DEF IInv
<1> USE <1>0
<1>1. UNCHANGED <<kind, conn, table, interest, ready, pos, cur, owed, at>> /\ Open' = Open /\ Fds' = Fds
  BY ClientEffect DEF server, Open, Fds
<1>2. backlog' \in Seq(Clients) /\ (backlog # <<>> => backlog' # <<>>)
  <2>1. backlog' = backlog \/ backlog' = Append(backlog, c)
    BY ClientEffect
  <2>2. Append(backlog, c) \in Seq(Clients) /\ Append(backlog, c) # <<>>
    BY Queued
  <2> QED
    BY <2>1, <2>2
<1>3. ShapeOK'
  BY <1>1, <1>2, ClientEffect DEF ShapeOK
<1>4. CountInv'
  <2>1. \A d \in Clients : Owed(d)' = Owed(d) /\ Owed(d) \in Nat
    BY <1>1 DEF Owed
  <2>2. ASSUME NEW d \in Clients PROVE rx'[d] + Owed(d) + tx'[d] + got'[d] <= sent'[d] /\ sent'[d] <= K[d]
    <3>1. CASE d = c
      <4>1. /\ rx'[c] \in Nat /\ tx'[c] \in Nat /\ got'[c] \in Nat /\ sent'[c] \in Nat
            /\ rx[c] + Owed(c) + tx[c] + got[c] <= sent[c] /\ Owed(c) \in Nat
        BY <2>1, ClientEffect DEF CountInv
      <4>3. rx[c] \in Nat /\ tx[c] \in Nat /\ got[c] \in Nat /\ sent[c] \in Nat
        BY Types
      <4>2. rx'[c] + tx'[c] + got'[c] + sent[c] <= rx[c] + tx[c] + got[c] + sent'[c] /\ sent'[c] <= K[c]
        BY ClientEffect
      <4>4. rx'[c] + Owed(c) + tx'[c] + got'[c] <= sent'[c]
        <5> HIDE <1>0
        <5> QED
          BY <4>1, <4>2, <4>3
      <4> QED
        BY <3>1, <4>2, <4>4, Zenon
    <3>2. CASE d # c
      BY <3>2, ClientEffect DEF CountInv
    <3> QED
      BY <3>1, <3>2
  <2> QED
    BY <2>1, <2>2 DEF CountInv
<1>5. ConnInv'
  <2>1. \A d \in Clients : link[d] \in Live => link'[d] \in Live
    BY ClientEffect DEF Live
  <2>2. CASE backlog' = backlog
    <3>1. \A d \in Waiting(backlog) : d \in Clients /\ link'[d] \in Live
      BY <2>1 DEF ConnInv
    <3>2. \A f \in Open : f \in Fds /\ link'[conn[f]] \in Live
      BY <2>1 DEF ConnInv, Open
    <3> QED
      BY <1>1, <2>2, <3>1, <3>2 DEF ConnInv
  <2>3. CASE link[c] = "off" /\ link'[c] = "up" /\ backlog' = Append(backlog, c)
    <3>1. c \notin Waiting(backlog) /\ \A f \in Open : conn[f] # c
      BY <2>3 DEF ConnInv, Live
    <3>2. Distinct(backlog') /\ Waiting(backlog') = Waiting(backlog) \cup {c}
      BY <2>3, <3>1, Queued DEF ConnInv
    <3>3. \A d \in Waiting(backlog') : d \in Clients /\ link'[d] \in Live
      BY <2>1, <2>3, <3>2 DEF ConnInv, Live
    <3>4. \A f \in Open : f \in Fds /\ link'[conn[f]] \in Live /\ conn[f] \notin Waiting(backlog')
      BY <2>1, <3>1, <3>2 DEF ConnInv, Open
    <3> QED
      BY <1>1, <3>2, <3>3, <3>4 DEF ConnInv
  <2> QED
    BY <2>2, <2>3, ClientEffect
<1>6. TableInv' /\ MarkInv' /\ OffInv'
  BY <1>1 DEF TableInv, MarkInv, OffInv, Running, Scanning, Slots
<1>7. ScanInv'
  <2>1. Left' = Left
    BY <1>1 DEF Left, Hit, First, Slots
  <2>2. ASSUME NEW f \in Open \cup {Sock}, Readable(f) PROVE Readable(f)'
    <3>1. CASE f = Sock
      BY <1>2, <2>2, <3>1 DEF Readable
    <3>2. CASE f \in Open
      <4>1. f # Sock /\ conn[f] \in Clients /\ Input(conn[f])
        BY <2>2, <3>2 DEF Open, Readable, Input
      <4>2. Input(conn[f])'
        <5>1. CASE conn[f] = c
          BY <4>1, <5>1, <1>1, ClientEffect DEF Input
        <5>2. CASE conn[f] # c
          BY <4>1, <5>2, <1>1, ClientEffect DEF Input
        <5> QED
          BY <5>1, <5>2
      <4> QED
        BY <1>1, <4>1, <4>2 DEF Readable, Input
    <3> QED
      BY <3>1, <3>2
  <2> QED
    BY <1>1, <2>1, <2>2 DEF ScanInv, Scanning, Readable, Slots
<1> QED
  BY <1>3, <1>4, <1>5, <1>6, <1>7 DEF IInv

-------------------------------------------------------------------------------
(* What the servers do keeps the invariant. *)

Handling == at \in {"accept", "recv", "write"}

\* Slot 0 is the listening socket's, and only its.
LEMMA SlotZero ==
  ASSUME IInv, Handling, kind # "epoll"
  PROVE  pos \in Slots /\ cur = table[pos] /\ (at = "accept" <=> pos = 0)
<1>1. pos \in Slots /\ cur = table[pos]
  BY DEF IInv, ScanInv, Scanning, Handling
<1>2. at = "accept" => pos = 0
  BY <1>1 DEF IInv, ScanInv, TableInv
<1>3. at # "accept" => cur \in Fds
  BY DEF Handling, IInv, ScanInv, Open
<1>4. table[0] = Sock /\ Sock \notin Fds
  BY Types DEF IInv, TableInv, Running, Handling
<1> QED
  BY <1>1, <1>2, <1>3, <1>4

\* When the handling of a descriptor is over, what is left to visit is what was left before,
\* if no slot that is still to come is filled with something marked.
LEMMA LeftShrinks ==
  ASSUME ShapeOK, Handling, Continue,
         kind # "epoll" => \A s \in Slots : s >= pos + 1 => table'[s] \in {table[s], None} \/ ~ Hit(s)'
  PROVE  Left' \subseteq Left
<1>1. kind' = kind /\ ready' = ready /\ at' = "scan" /\ at # "scan"
  BY DEF Continue, Handling
<1>2. CASE kind = "epoll"
  BY <1>1, <1>2 DEF Left
<1>3. CASE kind # "epoll"
  <2>1. pos' = pos + 1
    BY <1>3 DEF Continue
  <2>2. ASSUME NEW f \in Left' PROVE f \in Left
    <3>1. PICK s \in Slots : f = table'[s] /\ s >= pos + 1 /\ Hit(s)'
      BY <1>1, <1>3, <2>1 DEF Left, First, Slots
    <3>2. table'[s] = table[s] /\ Hit(s)
      BY <1>1, <1>3, <3>1 DEF Hit
    <3> QED
      BY <1>1, <1>3, <3>1, <3>2 DEF Left, First
  <2> QED
    BY <2>2
<1> QED
  BY <1>2, <1>3

\* Then the scan goes on, if what is left stays open and readable.
LEMMA ContinueKeeps ==
  ASSUME IInv, Handling, Continue, Left' \subseteq Left,
         \A f \in Left : f # cur => f \in Open' \cup {Sock} /\ (Readable(f) => Readable(f)')
  PROVE  ScanInv' /\ MarkInv'
<1>1. Left \subseteq Open \cup {Sock} /\ (\A f \in Left : Readable(f)) /\ cur \notin Left
  BY DEF IInv, ScanInv, Scanning, Handling
<1>2. at' = "scan" /\ kind' = kind /\ (kind # "epoll" => pos' = pos + 1) /\ pos \in Nat
  BY DEF Continue, IInv, ShapeOK
<1>3. ScanInv'
  <2>1. Left' \subseteq Open' \cup {Sock} /\ \A f \in Left' : Readable(f)'
    BY <1>1
  <2> QED
    BY <1>2, <2>1 DEF ScanInv, Scanning, Readable
<1>4. MarkInv'
  BY <1>2 DEF MarkInv
<1> QED
  BY <1>3, <1>4

\* What a step of a server that does not write and after which it does not write has to keep
\* besides its connections, its table and its scan.
LEMMA Frame ==
  ASSUME IInv, kind' = kind, at' # "write", at # "write", UNCHANGED <<sent, got, tx>>,
         \A c \in Clients : rx'[c] \in Nat /\ rx'[c] <= rx[c]
  PROVE  CountInv' /\ Fds' = Fds /\ Slots' = Slots
<1>1. CountInv'
  <2>1. \A c \in Clients : Owed(c) = 0 /\ Owed(c)' = 0
    BY DEF Owed
  <2>2. ASSUME NEW c \in Clients PROVE rx'[c] + Owed(c)' + tx'[c] + got'[c] <= sent'[c] /\ sent'[c] <= K[c]
    <3>1. /\ rx[c] + 0 + tx[c] + got[c] <= sent[c] /\ sent[c] <= K[c] /\ rx'[c] \in Nat /\ rx'[c] <= rx[c]
          /\ rx[c] \in Nat /\ tx[c] \in Nat /\ got[c] \in Nat /\ sent[c] \in Nat
      BY <2>1, Types DEF IInv, CountInv
    <3>2. rx'[c] + 0 + tx[c] + got[c] <= sent[c]
      BY <3>1
    <3> QED
      BY <2>1, <3>1, <3>2
  <2> QED
    BY <2>2 DEF CountInv
<1> QED
  BY <1>1 DEF Fds, Slots

\* The start.
LEMMA StartKeeps == ASSUME IInv, SelectStart \/ PollStart \/ EpollStart PROVE IInv'
<1>0. /\ ShapeOK /\ CountInv /\ ConnInv /\ TableInv /\ ScanInv /\ MarkInv /\ OffInv
      /\ 0 \in Slots /\ None # Sock /\ (\A f \in Fds : f # Sock /\ f # None)
      /\ rx \in [Clients -> Nat] /\ table \in [Slots -> Fds \cup {Sock, None}]
  BY Types, Constants DEF IInv
<1>1. /\ at = "off" /\ UNCHANGED <<kind, link, backlog, sent, got, rx, tx, conn, pos, ready, cur, owed>>
      /\ \/ at' = "dead" /\ UNCHANGED <<table, interest>>
         \/ at' = "wait" /\ kind # "epoll" /\ table' = [table EXCEPT ![0] = Sock] /\ UNCHANGED interest
         \/ at' = "wait" /\ kind = "epoll" /\ interest' = {Sock} /\ UNCHANGED table
  BY DEF SelectStart, PollStart, EpollStart, net, clients
<1>2. CountInv' /\ Fds' = Fds /\ Slots' = Slots
  BY <1>0, <1>1, Frame
<1>3. ShapeOK'
  <2>1. table' \in [Slots -> Fds \cup {Sock, None}] /\ interest' \subseteq Fds \cup {Sock}
    BY <1>0, <1>1 DEF ShapeOK
  <2> QED
    BY <1>0, <1>1, <1>2, <2>1 DEF ShapeOK
<1>4. ConnInv' /\ Open' = Open
  BY <1>0, <1>1, <1>2 DEF ConnInv, Open
<1>5. TableInv'
  <2>1. CASE at' = "dead" /\ UNCHANGED <<table, interest>>
    BY <1>0, <1>1, <1>2, <1>4, <2>1 DEF TableInv, Running
  <2>2. CASE at' = "wait" /\ kind # "epoll" /\ table' = [table EXCEPT ![0] = Sock]
    <3>1. Open = {} /\ \A s \in Slots : table'[s] = IF s = 0 THEN Sock ELSE None
      BY <1>0, <1>1, <2>2 DEF OffInv
    <3> QED
      BY <1>0, <1>1, <1>2, <1>4, <2>2, <3>1 DEF TableInv, Running
  <2>3. CASE at' = "wait" /\ kind = "epoll" /\ interest' = {Sock} /\ UNCHANGED table
    <3>1. Open = {}
      BY <1>0, <1>1 DEF OffInv
    <3> QED
      BY <1>0, <1>1, <1>2, <1>4, <2>3, <3>1 DEF TableInv, Running
  <2> QED
    BY <1>1, <2>1, <2>2, <2>3
<1>6. ScanInv' /\ MarkInv' /\ OffInv'
  BY <1>0, <1>1 DEF ScanInv, MarkInv, OffInv, Scanning
<1> QED
  BY <1>2, <1>3, <1>4, <1>5, <1>6 DEF IInv

\* Waiting marks what is readable.
LEMMA WaitKeeps == ASSUME IInv, SelectWait \/ PollWait \/ EpollWait PROVE IInv'
<1>0. /\ ShapeOK /\ CountInv /\ ConnInv /\ TableInv /\ ScanInv /\ MarkInv /\ OffInv
      /\ 0 \in Slots /\ None # Sock /\ (\A f \in Fds : f # Sock /\ f # None)
      /\ rx \in [Clients -> Nat] /\ table \in [Slots -> Fds \cup {Sock, None}] /\ interest \subseteq Fds \cup {Sock}
  BY Types, Constants DEF IInv
<1>1. /\ at = "wait" /\ at' = "scan" /\ UNCHANGED <<kind, link, backlog, sent, got, rx, tx, conn, table, interest, cur, owed>>
      /\ kind # "epoll" => pos' = 0
      /\ kind = "epoll" => pos' = pos
      /\ kind = "select" => ready' = {table[s] : s \in {t \in Slots : table[t] # None /\ Readable(table[t])}}
      /\ kind = "poll" => ready' = {s \in Slots : table[s] # None /\ Readable(table[s])}
      /\ kind = "epoll" => ready' = {f \in interest : Readable(f)}
  BY DEF SelectWait, PollWait, EpollWait, net, clients
<1>2. CountInv' /\ Fds' = Fds /\ Slots' = Slots
  BY <1>0, <1>1, Frame
<1>3. ShapeOK'
  <2>1. ready' \subseteq Fds \cup Slots \cup {Sock} /\ pos' \in Nat
    BY <1>0, <1>1 DEF ShapeOK, Kinds
  <2> QED
    BY <1>0, <1>1, <1>2, <2>1 DEF ShapeOK
<1>4. ConnInv' /\ Open' = Open /\ OffInv'
  BY <1>0, <1>1, <1>2 DEF ConnInv, Open, OffInv
<1>5. TableInv'
  BY <1>0, <1>1, <1>2, <1>4 DEF TableInv, Running
<1>6. \A f \in Open \cup {Sock} : Readable(f)' <=> Readable(f)
  BY <1>1 DEF Readable
<1>7. ScanInv' /\ MarkInv'
  <2>1. CASE kind = "select"
    <3>1. \A s \in Slots : table[s] # None => table[s] \in Open \cup {Sock}
      BY <1>0, <2>1 DEF TableInv
    <3>2. ready' \subseteq Open \cup {Sock} /\ \A f \in ready' : Readable(f)
      BY <1>1, <2>1, <3>1
    <3>3. Left' \subseteq ready'
      BY <1>1, <2>1 DEF Left, Hit
    <3> QED
      BY <1>1, <1>4, <1>6, <2>1, <3>2, <3>3 DEF ScanInv, MarkInv
  <2>2. CASE kind = "poll"
    <3>1. \A s \in Slots : table[s] # None => table[s] \in Open \cup {Sock}
      BY <1>0, <2>2 DEF TableInv
    <3>2. Left' \subseteq {table[s] : s \in ready'}
      BY <1>1, <2>2 DEF Left, Hit
    <3>3. Left' \subseteq Open \cup {Sock} /\ \A f \in Left' : Readable(f)
      BY <1>1, <2>2, <3>1, <3>2
    <3>4. \A s \in ready' : s \in Slots /\ table[s] # None
      BY <1>1, <2>2
    <3> QED
      BY <1>1, <1>2, <1>4, <1>6, <2>2, <3>3, <3>4 DEF ScanInv, MarkInv
  <2>3. CASE kind = "epoll"
    <3>1. Left' = ready'
      BY <1>1, <2>3 DEF Left
    <3>2. ready' \subseteq Open \cup {Sock} /\ \A f \in ready' : Readable(f)
      BY <1>0, <1>1, <2>3 DEF TableInv
    <3> QED
      BY <1>1, <1>4, <1>6, <2>3, <3>1, <3>2 DEF ScanInv, MarkInv
  <2> QED
    BY <1>0, <2>1, <2>2, <2>3 DEF ShapeOK, Kinds
<1> QED
  BY <1>2, <1>3, <1>4, <1>5, <1>7 DEF IInv

\* The scan goes to the first slot that is marked, or ends.
LEMMA VisitKeeps == ASSUME IInv, SelectScan \/ PollScan PROVE IInv'
<1>0. /\ ShapeOK /\ CountInv /\ ConnInv /\ TableInv /\ ScanInv /\ MarkInv /\ OffInv
      /\ Slots \subseteq Nat /\ None # Sock /\ (\A f \in Fds : f # Sock /\ f # None)
      /\ rx \in [Clients -> Nat] /\ table \in [Slots -> Fds \cup {Sock, None}] /\ pos \in Nat
  BY Types, Constants DEF IInv
<1> DEFINE hits == {s \in Slots : s >= pos /\ Hit(s)}
           m == Min(hits)
<1>1. at = "scan" /\ kind # "epoll" /\ Visit(hits)
  <2>1. CASE SelectScan
    <3>1. kind = "select" /\ hits = {s \in Slots : s >= pos /\ table[s] # None /\ table[s] \in ready}
      BY <2>1 DEF SelectScan, Hit
    <3> QED
      BY <2>1, <3>1 DEF SelectScan
  <2>2. CASE PollScan
    <3>1. kind = "poll" /\ hits = {s \in Slots : s >= pos /\ table[s] # None /\ s \in ready}
      BY <2>2 DEF PollScan, Hit
    <3> QED
      BY <2>2, <3>1 DEF PollScan
  <2> QED
    BY <2>1, <2>2
<1>2. UNCHANGED <<kind, link, backlog, sent, got, rx, tx, conn, table, interest, owed>>
  BY <1>1 DEF Visit, net, clients
<1>3. Left = {table[s] : s \in hits}
  BY <1>1 DEF Left, First
<1>4. CASE hits = {}
  <2>1. at' = "wait" /\ pos' = 0 /\ cur' = None /\ ready' = {}
    BY <1>1, <1>4 DEF Visit
  <2>2. CountInv' /\ Fds' = Fds /\ Slots' = Slots
    BY <1>0, <1>1, <1>2, <2>1, Frame
  <2>3. ShapeOK'
    BY <1>0, <1>2, <2>1, <2>2 DEF ShapeOK
  <2>4. ConnInv' /\ Open' = Open /\ OffInv'
    BY <1>0, <1>2, <2>1, <2>2 DEF ConnInv, Open, OffInv
  <2>5. TableInv'
    BY <1>0, <1>1, <1>2, <2>1, <2>2, <2>4 DEF TableInv, Running
  <2>6. ScanInv' /\ MarkInv'
    BY <2>1 DEF ScanInv, MarkInv, Scanning
  <2> QED
    BY <2>2, <2>3, <2>4, <2>5, <2>6 DEF IInv
<1>5. CASE hits # {}
  <2>1. pos' = m /\ cur' = table[m] /\ ready' = ready /\ at' = IF cur' = Sock THEN "accept" ELSE "recv"
    BY <1>1, <1>5 DEF Visit
  <2>2. m \in hits
    <3>1. hits \in SUBSET Nat
      BY <1>0
    <3> HIDE DEF hits
    <3> QED
      BY <1>5, <3>1, Least
  <2>3. m \in Slots /\ Hit(m) /\ m >= pos /\ m \in Nat
    BY <1>0, <2>2
  <2> HIDE DEF m, hits
  <2>4. CountInv' /\ Fds' = Fds /\ Slots' = Slots
    BY <1>0, <1>1, <1>2, <2>1, Frame
  <2>5. ShapeOK'
    BY <1>0, <1>2, <2>1, <2>3, <2>4 DEF ShapeOK
  <2>6. ConnInv' /\ Open' = Open /\ OffInv'
    BY <1>0, <1>2, <2>1, <2>4 DEF ConnInv, Open, OffInv
  <2>7. TableInv'
    BY <1>0, <1>1, <1>2, <2>1, <2>4, <2>6 DEF TableInv, Running
  <2>8. MarkInv'
    BY <1>0, <1>1, <1>2, <2>1, <2>3, <2>4, <2>6 DEF MarkInv, Scanning
  <2>9. Left' \subseteq Left /\ cur' \in Left /\ cur' \notin Left'
    <3>1. \A s \in Slots : Hit(s)' <=> Hit(s)
      BY <1>2, <2>1 DEF Hit
    <3>2. Left' = {table[s] : s \in {t \in Slots : t >= m + 1 /\ Hit(t)}}
      BY <1>1, <1>2, <2>1, <2>4, <3>1 DEF Left, First
    <3>3. \A s \in Slots : s >= m + 1 /\ Hit(s) => s \in hits /\ s # m
      BY <1>0, <2>3 DEF hits
    <3>4. cur' \in Left
      BY <1>3, <2>1, <2>2
    <3>5. cur' \notin Left'
      BY <1>0, <1>1, <2>1, <2>3, <3>2, <3>3 DEF TableInv, Hit
    <3> QED
      BY <1>3, <3>2, <3>3, <3>4, <3>5
  <2>10. Left \subseteq Open \cup {Sock} /\ \A f \in Left : Readable(f)'
    BY <1>0, <1>1, <1>2 DEF ScanInv, Scanning, Readable
  <2>11. ScanInv'
    BY <1>0, <1>2, <2>1, <2>3, <2>4, <2>6, <2>9, <2>10 DEF ScanInv, Scanning, Readable
  <2> QED
    BY <2>4, <2>5, <2>6, <2>7, <2>8, <2>11 DEF IInv
<1> QED
  BY <1>4, <1>5

\* epoll's next event, in any order.
LEMMA EpollScanKeeps == ASSUME IInv, EpollScan PROVE IInv'
<1>0. /\ ShapeOK /\ CountInv /\ ConnInv /\ TableInv /\ ScanInv /\ MarkInv /\ OffInv
      /\ rx \in [Clients -> Nat] /\ ready \subseteq Fds \cup Slots \cup {Sock}
  BY Types DEF IInv
<1>1. /\ at = "scan" /\ kind = "epoll"
      /\ UNCHANGED <<kind, link, backlog, sent, got, rx, tx, conn, table, interest, pos, owed>>
      /\ \/ ready = {} /\ at' = "wait" /\ cur' = None /\ ready' = {}
         \/ \E f \in ready : ready' = ready \ {f} /\ cur' = f /\ at' = IF f = Sock THEN "accept" ELSE "recv"
  BY DEF EpollScan, net, clients
<1>2. Left = ready /\ Left' = ready' /\ at' \in {"wait", "accept", "recv"}
  BY <1>1 DEF Left
<1>3. ready \subseteq Open \cup {Sock} /\ \A f \in ready : Readable(f)
  BY <1>0, <1>1, <1>2 DEF ScanInv, Scanning
<1>4. CountInv' /\ Fds' = Fds /\ Slots' = Slots
  BY <1>0, <1>1, <1>2, Frame
<1>5. ShapeOK'
  <2>1. ready' \subseteq ready /\ cur' \in Fds \cup {Sock, None}
    BY <1>1, <1>3 DEF Open
  <2> QED
    BY <1>0, <1>1, <1>2, <1>4, <2>1 DEF ShapeOK
<1>6. ConnInv' /\ Open' = Open /\ OffInv'
  BY <1>0, <1>1, <1>2, <1>4 DEF ConnInv, Open, OffInv
<1>7. TableInv'
  BY <1>0, <1>1, <1>2, <1>4, <1>6 DEF TableInv, Running
<1>8. MarkInv'
  BY <1>1 DEF MarkInv
<1>9. ScanInv'
  <2>1. \A f : Readable(f)' <=> Readable(f)
    BY <1>1 DEF Readable
  <2> QED
    BY <1>0, <1>1, <1>2, <1>3, <1>6, <2>1 DEF ScanInv, Scanning, Readable
<1> QED
  BY <1>4, <1>5, <1>6, <1>7, <1>8, <1>9 DEF IInv

\* accept fails.
LEMMA AcceptFailsKeeps == ASSUME IInv, AcceptFails PROVE IInv'
<1>0. /\ ShapeOK /\ CountInv /\ ConnInv /\ TableInv /\ ScanInv /\ MarkInv /\ OffInv
      /\ rx \in [Clients -> Nat] /\ pos \in Nat
  BY Types DEF IInv
<1>1. /\ at = "accept" /\ at' = "scan" /\ Continue /\ pos' \in {pos, pos + 1}
      /\ UNCHANGED <<kind, link, backlog, sent, got, rx, tx, conn, table, interest, owed, ready, cur>>
  BY DEF AcceptFails, Continue, net, clients
<1>2. CountInv' /\ Fds' = Fds /\ Slots' = Slots
  BY <1>0, <1>1, Frame
<1>3. ShapeOK'
  BY <1>0, <1>1, <1>2 DEF ShapeOK
<1>4. ConnInv' /\ Open' = Open /\ OffInv'
  BY <1>0, <1>1, <1>2 DEF ConnInv, Open, OffInv
<1>5. TableInv'
  BY <1>0, <1>1, <1>2, <1>4 DEF TableInv, Running
<1>6. Left' \subseteq Left
  BY <1>0, <1>1, LeftShrinks DEF Handling
<1>7. Left \subseteq Open \cup {Sock} /\ \A f : Readable(f)' <=> Readable(f)
  BY <1>0, <1>1 DEF ScanInv, Scanning, Readable
<1>8. ScanInv' /\ MarkInv'
  BY <1>1, <1>4, <1>6, <1>7, ContinueKeeps DEF Handling
<1> QED
  BY <1>2, <1>3, <1>4, <1>5, <1>8 DEF IInv

\* A connection leaves the backlog: what is left to visit stays readable if the open ones do.
LEMMA Accepting ==
  ASSUME IInv, NEW c \in Clients, NEW f \in Fds, Taken(c, f)
  PROVE  /\ at = "accept" /\ cur = Sock /\ Running /\ backlog' \in Seq(Clients) /\ f \notin Open /\ conn[f] = None
         /\ UNCHANGED <<sent, got, tx>> /\ c \in Waiting(backlog) /\ link[c] \in Live
         /\ Distinct(backlog') /\ Waiting(backlog') = Waiting(backlog) \ {c}
         /\ \A g \in Open : conn[g] # c
         /\ Left \subseteq Open \cup {Sock} /\ Sock \notin Left /\ f \notin Left
<1>0. ShapeOK /\ ConnInv /\ ScanInv /\ backlog \in Seq(Clients) /\ f # Sock
  BY Types DEF IInv
<1>1. /\ at = "accept" /\ backlog # <<>> /\ c = Head(backlog) /\ f \notin Open /\ conn[f] = None
      /\ backlog' = Tail(backlog) /\ UNCHANGED <<sent, got, tx>>
  BY DEF Taken, Open
<1>2. /\ backlog' \in Seq(Clients) /\ c \in Waiting(backlog)
      /\ Distinct(backlog') /\ Waiting(backlog') = Waiting(backlog) \ {c}
  BY <1>0, <1>1, Dequeued DEF ConnInv
<1>3. link[c] \in Live /\ \A g \in Open : conn[g] # c
  BY <1>0, <1>2 DEF ConnInv
<1>4. cur = Sock /\ Left \subseteq Open \cup {Sock} /\ Sock \notin Left
  BY <1>0, <1>1 DEF ScanInv, Scanning
<1> QED
  BY <1>0, <1>1, <1>2, <1>3, <1>4 DEF Running

\* After accept the connection is served under its descriptor.
LEMMA ServedConn ==
  ASSUME IInv, NEW c \in Clients, NEW f \in Fds, Taken(c, f), kind' = kind,
         conn' = [conn EXCEPT ![f] = c], UNCHANGED link
  PROVE  ConnInv' /\ Open' = Open \cup {f} /\ \A g \in Open : conn'[g] = conn[g]
<1>0. /\ ConnInv /\ conn \in [Fds -> Clients \cup {None}] /\ Fds' = Fds /\ c # None
      /\ f \notin Open /\ c \in Waiting(backlog) /\ link[c] \in Live
      /\ Distinct(backlog') /\ Waiting(backlog') = Waiting(backlog) \ {c} /\ \A g \in Open : conn[g] # c
  BY Accepting, Types, Constants DEF IInv, Fds
<1>1. conn'[f] = c /\ \A g \in Fds \ {f} : conn'[g] = conn[g]
  BY <1>0
<1>2. Open' = Open \cup {f}
  BY <1>0, <1>1 DEF Open
<1>3. \A g, h \in Fds : conn'[g] = conn'[h] /\ conn'[g] # None => g = h
  BY <1>0, <1>1 DEF ConnInv, Open
<1>4. \A g \in Open' : link'[conn'[g]] \in Live /\ conn'[g] \notin Waiting(backlog')
  BY <1>0, <1>1, <1>2 DEF ConnInv, Open
<1> QED
  BY <1>0, <1>1, <1>2, <1>3, <1>4 DEF ConnInv

\* select and poll accept a connection: it gets a slot, or is closed.
LEMMA AcceptKeeps == ASSUME IInv, SelectAccept \/ PollAccept PROVE IInv'
<1>0. /\ ShapeOK /\ CountInv /\ ConnInv /\ TableInv /\ ScanInv /\ MarkInv /\ OffInv
      /\ Slots \subseteq Nat /\ 0 \in Slots /\ None # Sock /\ (\A f \in Fds : f # Sock /\ f # None)
      /\ rx \in [Clients -> Nat] /\ table \in [Slots -> Fds \cup {Sock, None}] /\ pos \in Nat
      /\ link \in [Clients -> Links] /\ conn \in [Fds -> Clients \cup {None}]
  BY Types, Constants DEF IInv
<1> PICK c \in Clients, f \in Fds : Taken(c, f) /\ Enter(c, f)
  BY DEF SelectAccept, PollAccept
<1>1. /\ kind # "epoll" /\ Continue /\ UNCHANGED <<interest, owed>>
      /\ at = "accept" /\ at' = "scan" /\ pos' = pos + 1 /\ UNCHANGED <<kind, ready, cur>>
  BY DEF SelectAccept, PollAccept, Continue, Taken
<1>2. pos = 0 /\ table[0] = Sock
  BY <1>0, <1>1, SlotZero DEF Handling, TableInv, Running
<1>3. \A g \in Left : g \in Open
  BY Accepting
<1>4. \A c2 \in Clients : rx'[c2] \in Nat /\ rx'[c2] <= rx[c2]
  <2>1. rx' = rx \/ rx' = [rx EXCEPT ![c] = 0]
    BY DEF Enter
  <2> QED
    BY <1>0, <2>1
<1>5. CountInv' /\ Fds' = Fds /\ Slots' = Slots
  BY <1>1, <1>4, Accepting, Frame
<1> DEFINE free == {s \in Slots : table[s] = None}
<1>6. CASE free # {}
  <2>1. PICK s0 \in Slots : /\ table[s0] = None /\ table' = [table EXCEPT ![s0] = f]
                            /\ conn' = [conn EXCEPT ![f] = c] /\ UNCHANGED <<link, rx>>
    <3>1. /\ table' = [table EXCEPT ![Min(free)] = f]
          /\ conn' = [conn EXCEPT ![f] = c] /\ UNCHANGED <<link, rx>>
      BY <1>6 DEF Enter
    <3>2. free \in SUBSET Nat
      BY <1>0
    <3>3. Min(free) \in free
      <4> HIDE DEF free
      <4> QED
        BY <1>6, <3>2, Least
    <3> QED
      BY <3>1, <3>3
  <2>2. s0 \in Slots /\ table[s0] = None
    BY <2>1
  <2> HIDE DEF free
  <2>3. ShapeOK'
    <3>1. /\ table' \in [Slots -> Fds \cup {Sock, None}] /\ conn' \in [Fds -> Clients \cup {None}]
          /\ backlog' \in Seq(Clients)
      BY <1>0, <2>1, Accepting
    <3> QED
      BY <1>0, <1>1, <1>5, <2>1, <3>1, Accepting DEF ShapeOK
  <2>4. ConnInv' /\ Open' = Open \cup {f} /\ \A g \in Open : conn'[g] = conn[g]
    BY <1>1, <2>1, ServedConn
  <2>5. TableInv'
    <3>1. table'[s0] = f /\ \A s \in Slots \ {s0} : table'[s] = table[s]
      BY <1>0, <2>1, <2>2
    <3>2. \A s \in Slots : table[s] # f
      BY <1>0, <1>1, Accepting DEF TableInv
    <3>3. s0 # 0
      BY <1>0, <1>2, <2>2
    <3>4. \A s, t \in Slots : table'[s] = table'[t] => s = t \/ table'[s] = None
      BY <1>0, <1>1, <3>1, <3>2 DEF TableInv
    <3>5. \A g \in Fds : g \in Open \cup {f} <=> \E s \in Slots : table'[s] = g
      BY <1>0, <1>1, <2>2, <3>1, <3>2 DEF TableInv
    <3>6. (\A s \in Slots : table'[s] = Sock => s = 0) /\ table'[0] = Sock
      BY <1>0, <1>1, <1>2, <3>1, <3>3 DEF TableInv
    <3> QED
      BY <1>1, <1>5, <2>4, <3>4, <3>5, <3>6 DEF TableInv
  <2>6. ScanInv' /\ MarkInv'
    <3>1. table'[s0] = f /\ \A s \in Slots \ {s0} : table'[s] = table[s]
      BY <1>0, <2>1, <2>2
    <3>2. ~ Hit(s0)'
      <4>1. kind = "select" => f \notin ready
        BY <1>0, <1>1, <1>2, Accepting DEF MarkInv, Scanning
      <4>2. kind # "select" => s0 \notin ready
        BY <1>0, <1>1, <1>2, <2>2 DEF MarkInv, Scanning, ShapeOK, Kinds
      <4>3. CASE kind = "select"
        <5>1. kind' = "select" /\ ready' = ready /\ table'[s0] \notin ready
          BY <1>1, <3>1, <4>1, <4>3
        <5> QED
          BY <5>1 DEF Hit
      <4>4. CASE kind # "select"
        <5>1. kind' # "select" /\ ready' = ready /\ s0 \notin ready
          BY <1>1, <4>2, <4>4
        <5> QED
          BY <5>1 DEF Hit
      <4> QED
        BY <4>3, <4>4
    <3>3. Left' \subseteq Left
      <4>1. ASSUME NEW s \in Slots, s >= pos + 1 PROVE table'[s] \in {table[s], None} \/ ~ Hit(s)'
        <5>1. CASE s = s0
          BY <3>2, <5>1
        <5>2. CASE s # s0
          BY <3>1, <5>2
        <5> QED
          BY <5>1, <5>2
      <4> QED
        BY <1>0, <1>1, <4>1, LeftShrinks DEF Handling
    <3>4. \A g \in Open : Readable(g) => Readable(g)'
      BY <1>0, <2>1, <2>4 DEF Readable, Open
    <3> QED
      BY <1>1, <1>3, <2>4, <3>3, <3>4, ContinueKeeps DEF Handling
  <2>7. OffInv'
    BY <1>1 DEF OffInv
  <2> QED
    BY <1>5, <2>3, <2>4, <2>5, <2>6, <2>7 DEF IInv
<1>7. CASE free = {}
  <2>1. link' = [link EXCEPT ![c] = "cut"] /\ rx' = [rx EXCEPT ![c] = 0] /\ UNCHANGED <<table, conn>>
    BY <1>7 DEF Enter
  <2> HIDE DEF free
  <2>2. ShapeOK'
    <3>1. link' \in [Clients -> Links] /\ rx' \in [Clients -> Nat] /\ backlog' \in Seq(Clients)
      BY <1>0, <2>1, Accepting DEF Links
    <3> QED
      BY <1>0, <1>1, <1>5, <2>1, <3>1, Accepting DEF ShapeOK
  <2>3. Open' = Open /\ \A g \in Open : g \in Fds /\ conn[g] \in Clients \ {c}
    BY <1>0, <1>5, <2>1, Accepting DEF Open
  <2>4. ConnInv'
    <3>1. \A d \in Clients \ {c} : link'[d] = link[d]
      BY <1>0, <2>1
    <3>2. \A d \in Waiting(backlog') : d \in Waiting(backlog) /\ d \in Clients \ {c}
      BY <1>0, Accepting DEF ConnInv
    <3>3. \A d \in Waiting(backlog') : d \in Clients /\ link'[d] \in Live
      BY <1>0, <3>1, <3>2 DEF ConnInv
    <3>4. \A g \in Open : link'[conn[g]] \in Live /\ conn[g] \notin Waiting(backlog')
      BY <1>0, <2>3, <3>1, <3>2 DEF ConnInv
    <3> QED
      BY <1>0, <1>5, <2>1, <2>3, <3>3, <3>4, Accepting DEF ConnInv
  <2>5. TableInv' /\ OffInv'
    BY <1>0, <1>1, <1>5, <2>1, <2>3 DEF TableInv, OffInv, Running
  <2>6. ScanInv' /\ MarkInv'
    <3>1. Left' \subseteq Left
      BY <1>0, <1>1, <2>1, LeftShrinks DEF Handling
    <3>2. \A g \in Open : Readable(g) => Readable(g)'
      <4>1. \A d \in Clients \ {c} : link'[d] = link[d] /\ rx'[d] = rx[d]
        BY <1>0, <2>1
      <4> QED
        BY <1>0, <2>1, <2>3, <4>1 DEF Readable
    <3> QED
      BY <1>1, <1>3, <2>3, <3>1, <3>2, ContinueKeeps DEF Handling
  <2> QED
    BY <1>5, <2>2, <2>4, <2>5, <2>6 DEF IInv
<1> QED
  BY <1>6, <1>7

\* epoll accepts a connection and registers it.
LEMMA EpollAcceptKeeps == ASSUME IInv, EpollAccept PROVE IInv'
<1>0. /\ ShapeOK /\ CountInv /\ ConnInv /\ TableInv /\ ScanInv /\ MarkInv /\ OffInv
      /\ (\A f \in Fds : f # Sock /\ f # None) /\ rx \in [Clients -> Nat]
      /\ conn \in [Fds -> Clients \cup {None}] /\ interest \subseteq Fds \cup {Sock}
  BY Types DEF IInv
<1> PICK c \in Clients, f \in Fds : /\ Taken(c, f) /\ conn' = [conn EXCEPT ![f] = c]
                                   /\ interest' = interest \cup {f}
  BY DEF EpollAccept
<1>1. /\ kind = "epoll" /\ Continue /\ UNCHANGED <<link, rx, table, owed>>
      /\ at = "accept" /\ at' = "scan" /\ UNCHANGED <<kind, pos, ready, cur>>
  BY DEF EpollAccept, Continue, Taken
<1>2. CountInv' /\ Fds' = Fds /\ Slots' = Slots
  BY <1>0, <1>1, Accepting, Frame
<1>3. ConnInv' /\ Open' = Open \cup {f} /\ \A g \in Open : conn'[g] = conn[g]
  BY <1>1, ServedConn
<1>4. ShapeOK'
  <2>1. conn' \in [Fds -> Clients \cup {None}] /\ interest' \subseteq Fds \cup {Sock} /\ backlog' \in Seq(Clients)
    BY <1>0, Accepting
  <2> QED
    BY <1>0, <1>1, <1>2, <2>1, Accepting DEF ShapeOK
<1>5. TableInv' /\ OffInv'
  BY <1>0, <1>1, <1>2, <1>3 DEF TableInv, OffInv, Running
<1>6. ScanInv' /\ MarkInv'
  <2>1. Left' \subseteq Left
    BY <1>0, <1>1, LeftShrinks DEF Handling
  <2>2. \A g \in Open : Readable(g) => Readable(g)'
    BY <1>0, <1>1, <1>3 DEF Readable, Open
  <2>3. \A g \in Left : g \in Open
    BY Accepting
  <2> QED
    BY <1>1, <1>3, <2>1, <2>2, <2>3, ContinueKeeps DEF Handling
<1> QED
  BY <1>2, <1>3, <1>4, <1>5, <1>6 DEF IInv

\* What reading and writing need to know of the descriptor that is handled.
LEMMA Handled ==
  ASSUME IInv, at \in {"recv", "write"}
  PROVE  /\ cur \in Fds /\ cur \in Open /\ conn[cur] \in Clients /\ conn[cur] # None /\ cur \notin Left
         /\ Left \subseteq Open \cup {Sock}
         /\ \A g \in Open \ {cur} : g \in Fds /\ conn[g] \in Clients \ {conn[cur]}
         /\ kind # "epoll" => pos \in Slots /\ cur = table[pos] /\ pos # 0
         /\ link[conn[cur]] \in Live /\ conn[cur] \notin Waiting(backlog)
<1>0. /\ ConnInv /\ ScanInv /\ ShapeOK /\ \A f \in Fds : f # Sock /\ f # None /\ (f \in Open => conn[f] \in Clients)
  BY Types DEF IInv
<1>1. cur \in Open /\ cur \in Fds /\ conn[cur] \in Clients /\ conn[cur] # None
  BY <1>0 DEF ScanInv, Open
<1>2. cur \notin Left /\ Left \subseteq Open \cup {Sock}
  BY <1>0 DEF ScanInv, Scanning
<1>3. \A g \in Open \ {cur} : g \in Fds /\ conn[g] \in Clients \ {conn[cur]}
  BY <1>0, <1>1 DEF ConnInv, Open
<1>4. kind # "epoll" => pos \in Slots /\ cur = table[pos] /\ pos # 0
  BY SlotZero DEF Handling
<1>5. link[conn[cur]] \in Live /\ conn[cur] \notin Waiting(backlog)
  BY <1>0, <1>1 DEF ConnInv
<1> QED
  BY <1>1, <1>2, <1>3, <1>4, <1>5

\* A connection that ended is closed, its slot freed or its registration taken back.
LEMMA EndedKeeps ==
  ASSUME IInv, Ended,
         \/ kind # "epoll" /\ table' = [table EXCEPT ![pos] = None] /\ UNCHANGED interest
         \/ kind = "epoll" /\ interest' = interest \ {cur} /\ UNCHANGED table
  PROVE  IInv'
<1>0. /\ ShapeOK /\ CountInv /\ ConnInv /\ TableInv /\ ScanInv /\ MarkInv /\ OffInv
      /\ Slots \subseteq Nat /\ 0 \in Slots /\ None # Sock /\ (\A f \in Fds : f # Sock /\ f # None)
      /\ rx \in [Clients -> Nat] /\ table \in [Slots -> Fds \cup {Sock, None}] /\ pos \in Nat
      /\ link \in [Clients -> Links] /\ conn \in [Fds -> Clients \cup {None}] /\ interest \subseteq Fds \cup {Sock}
  BY Types, Constants DEF IInv
<1>1. /\ at = "recv" /\ at' = "scan" /\ Continue /\ UNCHANGED <<kind, ready, cur>>
      /\ UNCHANGED <<backlog, sent, got, rx, tx, owed>> /\ pos' \in {pos, pos + 1}
      /\ conn' = [conn EXCEPT ![cur] = None] /\ link' = [link EXCEPT ![conn[cur]] = "cut"]
  BY DEF Ended, Continue
<1>2. /\ cur \in Fds /\ cur \in Open /\ conn[cur] \in Clients /\ cur \notin Left
      /\ Left \subseteq Open \cup {Sock} /\ conn[cur] \notin Waiting(backlog)
      /\ \A g \in Open \ {cur} : g \in Fds /\ conn[g] \in Clients \ {conn[cur]}
      /\ kind # "epoll" => pos \in Slots /\ cur = table[pos] /\ pos # 0
  BY <1>1, Handled
<1>3. CountInv' /\ Fds' = Fds /\ Slots' = Slots
  BY <1>0, <1>1, Frame
<1>4. conn'[cur] = None /\ \A g \in Fds \ {cur} : conn'[g] = conn[g]
  BY <1>0, <1>1, <1>2
<1>5. \A d \in Clients \ {conn[cur]} : link'[d] = link[d]
  BY <1>0, <1>1, <1>2
<1>6. Open' = Open \ {cur}
  BY <1>3, <1>4 DEF Open
<1>7. ShapeOK'
  <2>1. /\ table' \in [Slots -> Fds \cup {Sock, None}] /\ interest' \subseteq Fds \cup {Sock}
        /\ conn' \in [Fds -> Clients \cup {None}] /\ link' \in [Clients -> Links]
    BY <1>0, <1>1, <1>2 DEF Links
  <2> QED
    BY <1>0, <1>1, <1>3, <2>1 DEF ShapeOK
<1>8. ConnInv'
  <2>1. \A f, g \in Fds : conn'[f] = conn'[g] /\ conn'[f] # None => f = g
    BY <1>0, <1>4 DEF ConnInv
  <2>2. \A f \in Open' : link'[conn'[f]] \in Live /\ conn'[f] \notin Waiting(backlog)
    BY <1>0, <1>2, <1>4, <1>5, <1>6 DEF ConnInv
  <2>3. \A c \in Waiting(backlog) : c \in Clients /\ link'[c] \in Live
    BY <1>0, <1>2, <1>5 DEF ConnInv
  <2> QED
    BY <1>0, <1>1, <1>3, <2>1, <2>2, <2>3 DEF ConnInv
<1>9. TableInv' /\ OffInv'
  <2>1. CASE kind = "epoll"
    <3>1. \A f \in Fds : f \in interest' <=> f \in Open'
      BY <1>0, <1>6, <2>1 DEF TableInv
    <3>2. Sock \in interest'
      BY <1>0, <1>1, <1>2, <2>1 DEF TableInv, Running
    <3> QED
      BY <1>0, <1>1, <1>3, <2>1, <3>1, <3>2 DEF TableInv, OffInv
  <2>2. CASE kind # "epoll"
    <3>1. table'[pos] = None /\ \A s \in Slots \ {pos} : table'[s] = table[s]
      BY <1>0, <1>2, <2>2
    <3>2. \A s, t \in Slots : table'[s] = table'[t] => s = t \/ table'[s] = None
      BY <1>0, <2>2, <3>1 DEF TableInv
    <3>3. \A f \in Fds : f \in Open \ {cur} <=> \E s \in Slots : table'[s] = f
      BY <1>0, <1>2, <2>2, <3>1 DEF TableInv
    <3>4. (\A s \in Slots : table'[s] = Sock => s = 0) /\ table'[0] = Sock
      BY <1>0, <1>1, <1>2, <2>2, <3>1 DEF TableInv, Running
    <3> QED
      BY <1>1, <1>3, <1>6, <2>2, <3>2, <3>3, <3>4 DEF TableInv, OffInv
  <2> QED
    BY <2>1, <2>2
<1>10. ScanInv' /\ MarkInv'
  <2>1. Left' \subseteq Left
    <3>1. kind # "epoll" => \A s \in Slots : s >= pos + 1 => table'[s] \in {table[s], None}
      BY <1>0
    <3> QED
      BY <1>0, <1>1, <3>1, LeftShrinks DEF Handling
  <2>2. \A g \in Open \ {cur} : Readable(g) => Readable(g)'
    BY <1>0, <1>1, <1>2, <1>4, <1>5 DEF Readable
  <2>3. Readable(Sock) => Readable(Sock)'
    BY <1>1 DEF Readable
  <2> QED
    BY <1>1, <1>2, <1>6, <2>1, <2>2, <2>3, ContinueKeeps DEF Handling
<1> QED
  BY <1>3, <1>7, <1>8, <1>9, <1>10 DEF IInv

\* What is read is owed, in one answer or as it was sent.
LEMMA DataKeeps == ASSUME IInv, Data PROVE IInv'
<1>0. /\ ShapeOK /\ CountInv /\ ConnInv /\ TableInv /\ ScanInv /\ MarkInv /\ OffInv
      /\ (\A f \in Fds : f # Sock /\ f # None) /\ rx \in [Clients -> Nat]
      /\ ReadBuf \in Nat \ {0}
  BY Types, Constants DEF IInv
<1> DEFINE e == conn[cur]
<1>1. PICK n \in Nat : /\ n > 0 /\ n <= rx[e] /\ n <= ReadBuf /\ rx' = [rx EXCEPT ![e] = rx[e] - n]
                       /\ owed' = Reply(n) /\ at = "recv" /\ at' = "write"
  <2>1. e \in Clients /\ rx[e] \in Nat
    BY <1>0, Handled DEF Data
  <2> DEFINE m == IF rx[e] > ReadBuf THEN ReadBuf ELSE rx[e]
  <2>2. m > 0 /\ rx' = [rx EXCEPT ![e] = rx[e] - m] /\ owed' = Reply(m) /\ at = "recv" /\ at' = "write"
    BY DEF Data
  <2>3. m \in Nat /\ m <= rx[e] /\ m <= ReadBuf
    BY <1>0, <2>1
  <2> HIDE DEF m
  <2> QED
    BY <2>2, <2>3
<1>2. UNCHANGED <<kind, link, backlog, sent, got, tx, conn, table, interest, ready, pos, cur>>
  BY DEF Data, clients
<1>3. /\ cur \in Fds /\ cur \in Open /\ e \in Clients /\ cur \notin Left
      /\ Left \subseteq Open \cup {Sock}
      /\ \A g \in Open \ {cur} : g \in Fds /\ conn[g] \in Clients \ {e}
      /\ kind # "epoll" => pos \in Slots /\ cur = table[pos] /\ pos # 0
  BY <1>1, Handled
<1>4. Fds' = Fds /\ Slots' = Slots /\ Open' = Open
  BY <1>2 DEF Fds, Slots, Open
<1>5. owed' \in 1 .. n /\ owed' \in 0 .. ReadBuf
  BY <1>0, <1>1 DEF Reply
<1>6. rx' \in [Clients -> Nat] /\ rx'[e] = rx[e] - n /\ \A d \in Clients \ {e} : rx'[d] = rx[d]
  <2>1. rx[e] - n \in Nat
    BY <1>0, <1>1, <1>3
  <2> HIDE DEF e
  <2> QED
    BY <1>0, <1>1, <1>3, <2>1
<1> HIDE DEF e
<1>7. ShapeOK'
  BY <1>0, <1>1, <1>2, <1>4, <1>5, <1>6 DEF ShapeOK
<1>8. CountInv'
  <2>1. ASSUME NEW d \in Clients PROVE rx'[d] + Owed(d)' + tx[d] + got[d] <= sent[d] /\ sent[d] <= K[d]
    <3>1. /\ rx[d] + Owed(d) + tx[d] + got[d] <= sent[d] /\ sent[d] <= K[d] /\ Owed(d) = 0
          /\ rx[d] \in Nat /\ tx[d] \in Nat /\ got[d] \in Nat /\ sent[d] \in Nat
      BY <1>0, <1>1, Types DEF CountInv, Owed
    <3>2. CASE d = e
      <4>1. Owed(d)' = owed'
        BY <1>1, <1>2, <3>2 DEF Owed, e
      <4> QED
        BY <1>5, <1>6, <3>1, <3>2, <4>1
    <3>3. CASE d # e
      <4>1. Owed(d)' = 0
        BY <1>2, <3>3 DEF Owed, e
      <4> QED
        BY <1>6, <3>1, <3>3, <4>1
    <3> QED
      BY <3>2, <3>3
  <2> QED
    BY <1>2, <2>1 DEF CountInv
<1>9. ConnInv' /\ TableInv' /\ OffInv' /\ MarkInv'
  BY <1>0, <1>1, <1>2, <1>4 DEF ConnInv, TableInv, OffInv, MarkInv, Running, Scanning
<1>10. ScanInv'
  <2>1. Left' = Left
    BY <1>1, <1>2, <1>4 DEF Left, First, Hit
  <2>2. \A g \in Open \ {cur} : Readable(g) => Readable(g)'
    BY <1>0, <1>2, <1>3, <1>6 DEF Readable
  <2>3. Readable(Sock) => Readable(Sock)'
    BY <1>2 DEF Readable
  <2>4. \A f \in Left : Readable(f)'
    BY <1>0, <1>1, <1>3, <2>2, <2>3 DEF ScanInv, Scanning
  <2> QED
    BY <1>1, <1>2, <1>3, <1>4, <2>1, <2>4 DEF ScanInv, Scanning
<1> QED
  BY <1>4, <1>7, <1>8, <1>9, <1>10 DEF IInv

\* A write takes from what is owed, and may end with the connection reset.
LEMMA WriteKeeps ==
  ASSUME IInv, WriteSome \/ WriteToClosed \/ WriteToReset
  PROVE  /\ IInv' /\ UNCHANGED <<kind, conn, table, interest, ready, backlog, sent, got>> /\ at = "write"
         /\ Open' = Open /\ Running
<1>0. /\ ShapeOK /\ CountInv /\ ConnInv /\ TableInv /\ ScanInv /\ MarkInv /\ OffInv
      /\ Slots \subseteq Nat /\ (\A f \in Fds : f # Sock /\ f # None) /\ rx \in [Clients -> Nat]
      /\ ReadBuf \in Nat \ {0} /\ SndBuf \in Nat \ {0} /\ owed \in 0 .. ReadBuf
      /\ link \in [Clients -> Links] /\ tx \in [Clients -> 0 .. SndBuf] /\ pos \in Nat
  BY Types, Constants DEF IInv
<1> DEFINE e == conn[cur]
<1>1. /\ at = "write" /\ at' \in {"write", "scan", "dead"} /\ (at' = "scan" => Continue)
      /\ at' # "scan" => pos' = pos
      /\ UNCHANGED <<kind, conn, table, interest, ready, cur, backlog, sent, got>>
  BY DEF WriteSome, WriteToClosed, WriteToReset, Continue, net, clients
<1>2. /\ cur \in Fds /\ cur \in Open /\ e \in Clients /\ cur \notin Left /\ e \notin Waiting(backlog)
      /\ Left \subseteq Open \cup {Sock} /\ link[e] \in Live
      /\ \A g \in Open \ {cur} : g \in Fds /\ conn[g] \in Clients \ {e}
      /\ kind # "epoll" => pos \in Slots /\ cur = table[pos] /\ pos # 0
  BY <1>1, Handled
<1>3. Fds' = Fds /\ Slots' = Slots /\ Open' = Open
  BY <1>1 DEF Fds, Slots, Open
<1>4. /\ link' \in [Clients -> Links] /\ rx' \in [Clients -> Nat] /\ tx' \in [Clients -> 0 .. SndBuf]
      /\ owed' \in 0 .. ReadBuf /\ rx'[e] <= rx[e] /\ link'[e] \in Live
      /\ tx'[e] + owed' <= tx[e] + owed
      /\ \A d \in Clients \ {e} : link'[d] = link[d] /\ rx'[d] = rx[d] /\ tx'[d] = tx[d]
  <2>1. link[e] \in Links /\ tx[e] \in 0 .. SndBuf /\ rx[e] \in Nat
    BY <1>0, <1>2
  <2>2. CASE WriteSome
    <3>1. PICK n \in Nat : /\ n <= owed /\ n <= SndBuf - tx[e] /\ tx' = [tx EXCEPT ![e] = tx[e] + n] /\ owed' = owed - n
      <4> DEFINE m == IF owed > SndBuf - tx[e] THEN SndBuf - tx[e] ELSE owed
      <4>1. m > 0 /\ tx' = [tx EXCEPT ![e] = tx[e] + m] /\ owed' = owed - m
        BY <2>2 DEF WriteSome
      <4>2. m \in Nat /\ m <= owed /\ m <= SndBuf - tx[e]
        BY <1>0, <2>1
      <4> HIDE DEF m
      <4> QED
        BY <4>1, <4>2
    <3>2. UNCHANGED <<link, rx>>
      BY <2>2 DEF WriteSome, clients
    <3>3. tx[e] + n \in 0 .. SndBuf /\ owed' \in 0 .. ReadBuf /\ (tx[e] + n) + owed' <= tx[e] + owed
      BY <1>0, <2>1, <3>1
    <3>4. tx' \in [Clients -> 0 .. SndBuf] /\ tx'[e] = tx[e] + n /\ \A d \in Clients \ {e} : tx'[d] = tx[d]
      BY <1>0, <1>2, <3>1, <3>3
    <3> QED
      BY <1>0, <1>2, <2>1, <3>2, <3>3, <3>4
  <2>3. CASE WriteToClosed
    <3>1. link' = [link EXCEPT ![e] = "reset"] /\ rx' = [rx EXCEPT ![e] = 0] /\ owed' = 0 /\ tx' = tx
      BY <2>3 DEF WriteToClosed
    <3>2. link' \in [Clients -> Links] /\ link'[e] = "reset" /\ \A d \in Clients \ {e} : link'[d] = link[d]
      BY <1>0, <1>2, <3>1 DEF Links
    <3>3. rx' \in [Clients -> Nat] /\ rx'[e] = 0 /\ \A d \in Clients \ {e} : rx'[d] = rx[d]
      BY <1>0, <1>2, <3>1
    <3> QED
      BY <1>0, <2>1, <3>1, <3>2, <3>3 DEF Live
  <2>4. CASE WriteToReset
    <3>1. owed' = 0 /\ UNCHANGED <<link, rx, tx>>
      BY <2>4 DEF WriteToReset, net, clients
    <3> QED
      BY <1>0, <1>2, <2>1, <3>1
  <2> QED
    BY <2>2, <2>3, <2>4
<1>5. e' = e
  BY <1>1
<1> HIDE DEF e
<1>6. ShapeOK'
  <2>1. pos' \in Nat
    BY <1>0, <1>1 DEF Continue
  <2> QED
    BY <1>0, <1>1, <1>3, <1>4, <2>1 DEF ShapeOK
<1>7. CountInv'
  <2>1. ASSUME NEW d \in Clients PROVE rx'[d] + Owed(d)' + tx'[d] + got[d] <= sent[d] /\ sent[d] <= K[d]
    <3>1. /\ rx[d] + Owed(d) + tx[d] + got[d] <= sent[d] /\ sent[d] <= K[d]
          /\ rx[d] \in Nat /\ tx[d] \in Nat /\ got[d] \in Nat /\ sent[d] \in Nat /\ owed \in Nat
          /\ rx'[d] \in Nat /\ tx'[d] \in Nat /\ owed' \in Nat
      BY <1>0, <1>4, Types DEF CountInv
    <3>2. CASE d = e
      <4>1. Owed(d)' \in {0, owed'} /\ Owed(d) = owed
        BY <1>1, <3>2 DEF Owed, e
      <4>2. CASE Owed(d)' = 0
        <5>1. rx'[d] <= rx[d] /\ tx'[d] + owed' <= tx[d] + owed
          BY <1>4, <3>2
        <5> HIDE <1>0, <1>4
        <5> QED
          BY <3>1, <4>1, <4>2, <5>1
      <4>3. CASE Owed(d)' = owed'
        <5>1. rx'[d] <= rx[d] /\ tx'[d] + owed' <= tx[d] + owed
          BY <1>4, <3>2
        <5> HIDE <1>0, <1>4
        <5> QED
          BY <3>1, <4>1, <4>3, <5>1
      <4> QED
        BY <4>1, <4>2, <4>3
    <3>3. CASE d # e
      <4>1. Owed(d)' = 0 /\ Owed(d) = 0
        BY <1>1, <3>3 DEF Owed, e
      <4> QED
        BY <1>4, <3>1, <3>3, <4>1
    <3> QED
      BY <3>2, <3>3
  <2> QED
    BY <1>1, <2>1 DEF CountInv
<1>8. ConnInv'
  <2>1. \A d \in Clients : link[d] \in Live => link'[d] \in Live
    BY <1>4
  <2>2. \A g \in Open : link'[conn[g]] \in Live
    BY <1>0, <1>2, <2>1 DEF ConnInv, e
  <2> QED
    BY <1>0, <1>1, <1>3, <2>1, <2>2 DEF ConnInv
<1>9. TableInv' /\ OffInv'
  BY <1>0, <1>1, <1>3 DEF TableInv, OffInv, Running
<1>10. \A g \in Open \ {cur} : Readable(g) => Readable(g)'
  BY <1>0, <1>1, <1>2, <1>4 DEF Readable
<1>11. Readable(Sock) => Readable(Sock)'
  BY <1>1 DEF Readable
<1>12. ScanInv' /\ MarkInv'
  <2>1. CASE at' = "scan"
    <3>1. Left' \subseteq Left
      BY <1>0, <1>1, <2>1, LeftShrinks DEF Handling
    <3> QED
      BY <1>1, <1>2, <1>3, <1>10, <1>11, <2>1, <3>1, ContinueKeeps DEF Handling
  <2>2. CASE at' = "write"
    <3>1. Left' = Left
      BY <1>1, <1>3, <2>2 DEF Left, First, Hit
    <3>2. \A f \in Left : Readable(f)'
      BY <1>0, <1>1, <1>2, <1>10, <1>11 DEF ScanInv, Scanning
    <3> QED
      BY <1>0, <1>1, <1>2, <1>3, <2>2, <3>1, <3>2 DEF ScanInv, MarkInv, Scanning
  <2>3. CASE at' = "dead"
    BY <2>3 DEF ScanInv, MarkInv, Scanning
  <2> QED
    BY <1>1, <2>1, <2>2, <2>3
<1>13. IInv'
  BY <1>6, <1>7, <1>8, <1>9, <1>12 DEF IInv
<1> QED
  BY <1>1, <1>3, <1>13 DEF Running

-------------------------------------------------------------------------------
(* The invariant holds. *)

\* The invariant holds at the start.
LEMMA InitIInv == Init => IInv
<1> SUFFICES ASSUME Init PROVE IInv
  OBVIOUS
<1>0. /\ 0 \in Nat /\ 0 \in 0 .. ReadBuf /\ 0 \in 0 .. SndBuf /\ <<>> \in Seq(Clients)
      /\ \A c \in Clients : K[c] \in Nat
  BY Constants
<1>1. ShapeOK
  BY <1>0 DEF Init, ShapeOK, Links
<1>2. CountInv
  BY <1>0 DEF Init, CountInv, Owed
<1>3. Open = {}
  BY DEF Init, Open
<1>4. ConnInv
  BY <1>3 DEF Init, ConnInv, Waiting, Distinct, Open
<1>5. TableInv /\ OffInv
  BY <1>3, Constants, Types, <1>1 DEF Init, TableInv, OffInv, Running
<1>6. ScanInv /\ MarkInv
  BY DEF Init, ScanInv, MarkInv, Scanning
<1> QED
  BY <1>1, <1>2, <1>4, <1>5, <1>6 DEF IInv

\* Every step keeps it.
LEMMA StepIInv == IInv /\ [Next]_vars => IInv'
<1> SUFFICES ASSUME IInv, [Next]_vars PROVE IInv'
  OBVIOUS
<1>1. CASE SelectStart \/ PollStart \/ EpollStart
  BY <1>1, StartKeeps
<1>2. CASE SelectWait \/ PollWait \/ EpollWait
  BY <1>2, WaitKeeps
<1>3. CASE SelectScan \/ PollScan
  BY <1>3, VisitKeeps
<1>4. CASE EpollScan
  BY <1>4, EpollScanKeeps
<1>5. CASE SelectAccept \/ PollAccept
  BY <1>5, AcceptKeeps
<1>6. CASE EpollAccept
  BY <1>6, EpollAcceptKeeps
<1>7. CASE SelectRecv \/ PollRecv \/ EpollRecv
  BY <1>7, EndedKeeps, DataKeeps DEF SelectRecv, PollRecv, EpollRecv
<1>8. CASE AcceptFails
  BY <1>8, AcceptFailsKeeps
<1>9. CASE Write
  BY <1>9, WriteKeeps DEF Write
<1>10. ASSUME NEW c \in Clients, ClientStep(c) PROVE IInv'
  BY <1>10, ClientKeeps
<1>11. CASE UNCHANGED vars
  <2>1. /\ UNCHANGED <<kind, link, backlog, sent, got, rx, tx, conn>>
        /\ UNCHANGED <<table, interest, ready, pos, cur, owed, at>>
    BY <1>11 DEF vars, net, clients, server
  <2>2. ShapeOK' <=> ShapeOK
    BY <2>1 DEF ShapeOK, Fds, Slots
  <2>3. CountInv' <=> CountInv
    BY <2>1 DEF CountInv, Owed
  <2>4. Open' = Open /\ Fds' = Fds /\ Slots' = Slots /\ Left' = Left /\ \A f : Readable(f)' <=> Readable(f)
    BY <2>1 DEF Open, Fds, Slots, Left, Hit, First, Readable
  <2>5. ConnInv' <=> ConnInv
    BY <2>1, <2>4 DEF ConnInv
  <2>6. (TableInv' <=> TableInv) /\ (MarkInv' <=> MarkInv) /\ (OffInv' <=> OffInv)
    BY <2>1, <2>4 DEF TableInv, MarkInv, OffInv, Running, Scanning
  <2>7. ScanInv' <=> ScanInv
    BY <2>1, <2>4 DEF ScanInv, Scanning, Readable
  <2> QED
    BY <2>2, <2>3, <2>5, <2>6, <2>7 DEF IInv
<1> QED
  BY <1>1, <1>2, <1>3, <1>4, <1>5, <1>6, <1>7, <1>8, <1>9, <1>10, <1>11
     DEF Next, ServerStep, SelectStep, PollStep, EpollStep

\* The inductive invariant holds in every behaviour.
LEMMA AlwaysIInv == Spec => []IInv
  BY InitIInv, StepIInv, PTL DEF Spec

\* The tables and the descriptors agree, for any clients and sizes.
THEOREM TablesSafe == Spec => []Safe
<1>1. ASSUME IInv PROVE Safe
  <2>0. ShapeOK /\ CountInv /\ TableInv
    BY <1>1 DEF IInv
  <2>1. \A c \in Clients : {sent[c], rx[c], got[c]} \subseteq 0 .. K[c]
    <3>1. ASSUME NEW c \in Clients PROVE {sent[c], rx[c], got[c]} \subseteq 0 .. K[c]
      <4>1. /\ rx[c] + Owed(c) + tx[c] + got[c] <= sent[c] /\ sent[c] <= K[c]
            /\ rx[c] \in Nat /\ got[c] \in Nat /\ tx[c] \in Nat /\ sent[c] \in Nat /\ K[c] \in Nat /\ Owed(c) \in Nat
        BY <2>0, Types DEF CountInv, Owed
      <4> QED
        BY <4>1
    <3> QED
      BY <3>1
  <2>2. TypeOK
    BY <2>0, <2>1 DEF ShapeOK, TypeOK, Links
  <2>3. WatchesWhatIsOpen
    <3>1. CASE at = "wait" /\ kind = "epoll"
      <4>1. interest \subseteq Fds \cup {Sock} /\ Open \subseteq Fds
        BY <2>0 DEF ShapeOK, Open
      <4>2. Watched = interest /\ Sock \in interest /\ \A s \in Slots : table[s] = None
        BY <2>0, <3>1 DEF TableInv, Running, Watched
      <4>3. interest = Open \cup {Sock}
        BY <2>0, <3>1, <4>1, <4>2 DEF TableInv
      <4> QED
        BY <4>2, <4>3 DEF WatchesWhatIsOpen
    <3>2. CASE at = "wait" /\ kind # "epoll"
      <4>1. /\ 0 \in Slots /\ None # Sock /\ \A f \in Fds : f # None
            /\ \A s \in Slots : table[s] \in Fds \cup {Sock, None}
        BY <2>0, Types, Constants
      <4>2. Watched = {table[s] : s \in {t \in Slots : table[t] # None}} /\ table[0] = Sock
        BY <2>0, <3>2 DEF TableInv, Running, Watched
      <4>3. \A f : f \in Watched <=> f \in Open \cup {Sock}
        BY <2>0, <3>2, <4>1, <4>2 DEF TableInv, Open
      <4> QED
        BY <2>0, <3>2, <4>3 DEF WatchesWhatIsOpen, TableInv
    <3> QED
      BY <3>1, <3>2 DEF WatchesWhatIsOpen
  <2> QED
    BY <2>2, <2>3 DEF Safe
<1> QED
  BY <1>1, AlwaysIInv, PTL

\* No call of accept or read blocks the server, whatever the order of the events and though
\* descriptors are closed and given out again while the scan goes on.
THEOREM NeverBlocks == Spec => []NeverBlocksReading
<1>1. IInv => NeverBlocksReading
  BY DEF IInv, ScanInv, NeverBlocksReading, Readable, Open
<1> QED
  BY <1>1, AlwaysIInv, PTL

-------------------------------------------------------------------------------
(* The servers implement EchoService. *)

Held(c) == \E f \in Open : conn[f] = c
Gone == {c \in Clients : link[c] \in {"eof", "reset"}}
AnsweredTo == [c \in Clients |-> tx[c] + got[c]]
Room == IF kind = "epoll" THEN Cardinality(Fds) ELSE Cap - 1

\* A client's phase, in the terms of the invariant.
LEMMA PhaseOf ==
  ASSUME IInv, NEW c \in Clients
  PROVE  /\ Phase[c] = "away" <=> link[c] = "off"
         /\ Phase[c] = "over" <=> link[c] = "cut"
         /\ Phase[c] = "served" <=> Held(c)
         /\ Phase[c] = "waiting" <=> link[c] \in Live /\ ~ Held(c)
<1>1. Held(c) => link[c] \in Live
  BY DEF IInv, ConnInv, Held
<1>2. link[c] \in Links
  BY DEF IInv, ShapeOK
<1>3. Phase[c] = IF link[c] = "off" THEN "away" ELSE IF link[c] = "cut" THEN "over"
                 ELSE IF Held(c) THEN "served" ELSE "waiting"
  BY DEF Phase, Held
<1> QED
  BY <1>1, <1>2, <1>3 DEF Live, Links

\* There are as many open descriptors as connections served.
LEMMA AsManyServed ==
  ASSUME IInv
  PROVE  IsFiniteSet(Fds) /\ IsFiniteSet(Open) /\ Cardinality(Service!Served) = Cardinality(Open)
<1>0. ConnInv /\ kind \in Kinds /\ \A f \in Open : f \in Fds /\ conn[f] \in Clients
  BY Types DEF IInv, Open
<1>1. IsFiniteSet(Fds) /\ IsFiniteSet(Open)
  <2>1. IsFiniteSet(Fds)
    BY <1>0, Constants DEF Fds
  <2>2. Open \in SUBSET Fds
    BY DEF Open
  <2> QED
    BY <2>1, <2>2, FS_Subset
<1>2. \A c : c \in Service!Served <=> c \in Clients /\ Held(c)
  BY PhaseOf DEF Service!Served
<1> DEFINE m == [f \in Open |-> conn[f]]
<1>3. m \in Bijection(Open, Service!Served)
  <2>1. m \in [Open -> Service!Served]
    BY <1>0, <1>2 DEF Held
  <2>2. \A f, g \in Open : m[f] = m[g] => f = g
    BY <1>0 DEF ConnInv, Open
  <2>3. \A c \in Service!Served : \E f \in Open : m[f] = c
    BY <1>2 DEF Held
  <2> HIDE DEF m
  <2>4. m \in Injection(Open, Service!Served)
    BY <2>1, <2>2 DEF Injection, IsInjective
  <2>5. m \in Surjection(Open, Service!Served)
    BY <2>1, <2>3 DEF Surjection
  <2> QED
    BY <2>4, <2>5 DEF Bijection
<1> QED
  BY <1>1, <1>3, FS_Bijection DEF ExistsBijection

\* Every slot but the first holds an open descriptor or nothing.
LEMMA SlotsHold ==
  ASSUME IInv, Running, kind # "epoll"
  PROVE  /\ Cardinality(Open) <= Cap - 1
         /\ Cardinality(Open) = Cap - 1 <=> \A s \in Slots : table[s] # None
<1>0. /\ TableInv /\ 0 \in Slots /\ table \in [Slots -> Fds \cup {Sock, None}]
      /\ None # Sock /\ (\A f \in Fds : f # Sock /\ f # None) /\ Cap \in Nat \ {0}
  BY Types, Constants DEF IInv
<1> DEFINE others == 1 .. Cap - 1
           slot == [f \in Open |-> CHOOSE s \in Slots : table[s] = f]
<1>1. others = Slots \ {0} /\ IsFiniteSet(others) /\ Cardinality(others) = Cap - 1
  <2>1. 1 \in Int /\ Cap - 1 \in Int /\ Cap >= 1
    BY <1>0
  <2>3. IsFiniteSet(others) /\ Cardinality(others) = IF 1 > Cap - 1 THEN 0 ELSE (Cap - 1) - 1 + 1
    BY <2>1, FS_Interval
  <2>2. IsFiniteSet(others) /\ Cardinality(others) = Cap - 1
    BY <1>0, <2>1, <2>3
  <2> QED
    BY <1>0, <2>2 DEF Slots
<1>2. \A f \in Open : slot[f] \in others /\ table[slot[f]] = f
  BY <1>0, <1>1 DEF TableInv, Running, Open
<1> HIDE DEF slot, others
<1>3. slot \in Injection(Open, others)
  <2>1. slot \in [Open -> others]
    BY <1>2 DEF slot
  <2>2. \A f, g \in Open : slot[f] = slot[g] => f = g
    BY <1>2
  <2> QED
    BY <2>1, <2>2 DEF Injection, IsInjective
<1>4. Cardinality(Open) <= Cap - 1 /\ (Cardinality(Open) = Cap - 1 <=> slot \in Surjection(Open, others))
  BY <1>1, <1>3, FS_Injection
<1>5. (\A s \in Slots : table[s] # None) => slot \in Surjection(Open, others)
  <2> SUFFICES ASSUME \A s \in Slots : table[s] # None PROVE \A t \in others : \E f \in Open : slot[f] = t
    BY <1>3 DEF Injection, Surjection
  <2> TAKE t \in others
  <2>1. t \in Slots /\ table[t] \in Fds /\ table[t] \in Open
    BY <1>0, <1>1 DEF TableInv
  <2>2. slot[table[t]] = t
    BY <1>0, <1>1, <1>2, <2>1 DEF TableInv
  <2> QED
    BY <2>1, <2>2
<1>6. slot \in Surjection(Open, others) => \A s \in Slots : table[s] # None
  <2> SUFFICES ASSUME slot \in Surjection(Open, others), NEW s \in Slots PROVE table[s] # None
    OBVIOUS
  <2>1. CASE s = 0
    BY <1>0, <2>1 DEF TableInv
  <2>2. CASE s # 0
    <3>1. PICK f \in Open : slot[f] = s
      BY <1>1, <2>2 DEF Surjection
    <3> QED
      BY <1>0, <1>2, <3>1 DEF Open
  <2> QED
    BY <2>1, <2>2
<1> QED
  BY <1>4, <1>5, <1>6

\* A step that opens, closes, counts, cuts and starts nothing is one of the abstract service
\* in which nothing happens.
LEMMA Stutters ==
  ASSUME IInv, IInv', kind' = kind, sent' = sent, conn' = conn, Running' <=> Running,
         \A c \in Clients : tx'[c] + got'[c] = tx[c] + got[c],
         \A c \in Clients : /\ link'[c] = "off" <=> link[c] = "off"
                            /\ link'[c] = "cut" <=> link[c] = "cut"
                            /\ link'[c] \in {"eof", "reset"} <=> link[c] \in {"eof", "reset"}
  PROVE  UNCHANGED <<Room, Phase, sent, AnsweredTo, Gone, Running>>
<1>1. Fds' = Fds /\ Room' = Room
  BY DEF Fds, Room
<1>2. Open' = Open
  BY <1>1 DEF Open
<1>3. Phase' = Phase
  BY <1>2 DEF Phase
<1>4. AnsweredTo' = AnsweredTo /\ Gone' = Gone
  BY DEF AnsweredTo, Gone
<1>5. Running' = Running
  BY Zenon DEF Running
<1> QED
  BY <1>1, <1>3, <1>4, <1>5

\* The phase of one client changes if the others' ends and descriptors stay what they are.
LEMMA PhaseChanges ==
  ASSUME NEW c \in Clients, NEW x,
         \A d \in Clients \ {c} : /\ link'[d] = link[d]
                                  /\ Held(d)' <=> Held(d),
         x = IF link'[c] = "off" THEN "away" ELSE IF link'[c] = "cut" THEN "over"
             ELSE IF Held(c)' THEN "served" ELSE "waiting"
  PROVE  Phase' = [Phase EXCEPT ![c] = x]
<1>1. Phase = [d \in Clients |-> IF link[d] = "off" THEN "away" ELSE IF link[d] = "cut" THEN "over"
                                 ELSE IF Held(d) THEN "served" ELSE "waiting"]
  BY DEF Phase, Held
<1>2. Phase' = [d \in Clients |-> IF link'[d] = "off" THEN "away" ELSE IF link'[d] = "cut" THEN "over"
                                  ELSE IF Held(d)' THEN "served" ELSE "waiting"]
  BY DEF Phase, Held
<1> HIDE DEF Held
<1>3. [Phase EXCEPT ![c] = x] = [d \in Clients |-> IF d = c THEN x ELSE Phase[d]]
  BY <1>1
<1>4. \A d \in Clients : Phase'[d] = IF d = c THEN x ELSE Phase[d]
  BY <1>1, <1>2
<1> QED
  BY <1>2, <1>3, <1>4

\* The size of a set is the same for the abstract service, whose module has its own name for it.
LEMMA SameCardinality == ASSUME NEW S PROVE Service!Cardinality(S) = Cardinality(S)
  BY Zenon DEF Service!Cardinality, Cardinality

\* What a step of the abstract service is, in the terms of the servers.
LEMMA AbstractStep ==
  ASSUME Room' = Room,
         \/ Service!Start \/ Service!Die
         \/ \E c \in Clients : \/ Service!Connect(c) \/ Service!Ask(c) \/ Service!Leave(c)
                               \/ Service!Serve(c) \/ Service!Refuse(c) \/ Service!Answer(c) \/ Service!End(c)
  PROVE  Service!Next
  BY DEF Service!Next, Room

\* The clients' steps are the abstract clients' or change nothing that counts.
LEMMA ClientRefines ==
  ASSUME IInv, IInv', NEW c \in Clients, ClientStep(c)
  PROVE  Service!Next \/ UNCHANGED <<Room, Phase, sent, AnsweredTo, Gone, Running>>
<1>0. /\ ConnInv /\ link \in [Clients -> Links] /\ tx \in [Clients -> 0 .. SndBuf] /\ got \in [Clients -> Nat]
      /\ SndBuf \in Nat
  BY Types, Constants DEF IInv
<1>1. UNCHANGED <<kind, conn, table, interest, ready, pos, cur, owed, at>>
  BY ClientEffect DEF IInv, server
<1>2. Fds' = Fds /\ Open' = Open /\ Room' = Room /\ Running' = Running /\ \A d : Held(d)' <=> Held(d)
  BY <1>1 DEF Fds, Open, Room, Running, Held
<1>3. CASE Connect(c)
  <2>1. /\ Running /\ link[c] = "off" /\ link' = [link EXCEPT ![c] = "up"] /\ UNCHANGED <<sent, tx, got>>
    BY <1>3 DEF Connect, Running
  <2>2. link'[c] = "up" /\ \A d \in Clients \ {c} : link'[d] = link[d]
    BY <1>0, <2>1
  <2>3. Phase[c] = "away" /\ ~ Held(c)
    BY <1>0, <2>1, PhaseOf DEF ConnInv, Held, Live
  <2>4. Phase' = [Phase EXCEPT ![c] = "waiting"]
    BY <1>2, <2>2, <2>3, PhaseChanges
  <2>5. Gone' = Gone /\ AnsweredTo' = AnsweredTo
    BY <2>1, <2>2 DEF Gone, AnsweredTo
  <2>6. Service!Connect(c)
    BY <1>2, <2>1, <2>3, <2>4, <2>5 DEF Service!Connect, Gone, AnsweredTo, Running
  <2> QED
    BY <1>2, <2>6, AbstractStep
<1>4. CASE Send(c)
  <2>1. link[c] = "up" /\ sent' = [sent EXCEPT ![c] = @ + 1] /\ UNCHANGED <<link, tx, got>>
    BY <1>4 DEF Send
  <2>2. Phase' = Phase /\ Gone' = Gone /\ AnsweredTo' = AnsweredTo
    BY <1>2, <2>1 DEF Phase, Held, Gone, AnsweredTo
  <2>3. Phase[c] \in {"waiting", "served"} /\ c \notin Gone
    BY <2>1, PhaseOf DEF Gone, Live
  <2>4. Service!Ask(c)
    BY <1>2, <2>1, <2>2, <2>3 DEF Service!Ask, Gone, AnsweredTo, Running
  <2> QED
    BY <1>2, <2>4, AbstractStep
<1>5. CASE Drain(c)
  <2>1. /\ tx' = [tx EXCEPT ![c] = 0] /\ got' = [got EXCEPT ![c] = got[c] + tx[c]] /\ UNCHANGED <<link, sent>>
    BY <1>5 DEF Drain
  <2>2. \A d \in Clients : tx'[d] + got'[d] = tx[d] + got[d]
    BY <1>0, <2>1
  <2> QED
    BY <1>1, <1>2, <2>1, <2>2, Stutters
<1>6. CASE Close(c)
  <2>1. /\ link[c] = "up" /\ UNCHANGED <<sent, tx, got>>
        /\ link' = [link EXCEPT ![c] = "eof"] \/ link' = [link EXCEPT ![c] = "reset"]
    BY <1>6 DEF Close
  <2>2. link'[c] \in {"eof", "reset"} /\ \A d \in Clients \ {c} : link'[d] = link[d]
    BY <1>0, <2>1
  <2>3. Phase[c] \in {"waiting", "served"} /\ c \notin Gone
    BY <2>1, PhaseOf DEF Gone, Live
  <2>4. Gone' = Gone \cup {c} /\ AnsweredTo' = AnsweredTo
    BY <2>1, <2>2 DEF Gone, AnsweredTo
  <2>5. Phase' = Phase
    BY <1>2, <2>1, <2>2 DEF Phase, Held
  <2>6. Service!Leave(c)
    BY <1>2, <2>1, <2>3, <2>4, <2>5 DEF Service!Leave, Gone, AnsweredTo, Running
  <2> QED
    BY <1>2, <2>6, AbstractStep
<1> QED
  BY <1>3, <1>4, <1>5, <1>6 DEF ClientStep

\* A connection accepted is served when it gets a descriptor and a slot, and else refused.
LEMMA AcceptRefines ==
  ASSUME IInv, IInv', SelectAccept \/ PollAccept \/ EpollAccept
  PROVE  Service!Next
<1>0. /\ ConnInv /\ link \in [Clients -> Links] /\ conn \in [Fds -> Clients \cup {None}] /\ None # Sock
      /\ Slots \subseteq Nat /\ IsFiniteSet(Fds) /\ table \in [Slots -> Fds \cup {Sock, None}] /\ Cap \in Nat
  BY Types, Constants, AsManyServed DEF IInv
<1>1. PICK c \in Clients, f \in Fds :
        /\ Taken(c, f)
        /\ \/ kind # "epoll" /\ Enter(c, f)
           \/ kind = "epoll" /\ conn' = [conn EXCEPT ![f] = c] /\ UNCHANGED link
  BY DEF SelectAccept, PollAccept, EpollAccept
<1>2. /\ at = "accept" /\ Running /\ Running' /\ kind' = kind /\ UNCHANGED <<sent, got, tx>> /\ f \notin Open
      /\ link[c] \in Live /\ ~ Held(c) /\ conn[f] = None
  BY <1>1, Accepting DEF SelectAccept, PollAccept, EpollAccept, Continue, Running, Held
<1>3. Room' = Room /\ Fds' = Fds /\ AnsweredTo' = AnsweredTo /\ Running' = Running
  <2>1. Running' = Running
    BY <1>2, Zenon DEF Running
  <2> QED
    BY <1>2, <2>1 DEF Room, Fds, AnsweredTo
<1>4. Phase[c] = "waiting"
  BY <1>2, PhaseOf
<1>5. Cardinality(Service!Served) = Cardinality(Open) /\ Cardinality(Open) \in Nat
  BY AsManyServed, FS_CardinalityType
<1>6. CASE conn' = [conn EXCEPT ![f] = c] /\ link' = link /\ Cardinality(Open) < Room
  <2>1. Open' = Open \cup {f} /\ \A g \in Open : conn'[g] = conn[g] /\ g # f
    BY <1>0, <1>1, <1>2, <1>6, ServedConn
  <2>2. conn'[f] = c
    BY <1>0, <1>6
  <2>3. Held(c)' /\ \A d \in Clients \ {c} : Held(d)' <=> Held(d)
    BY <2>1, <2>2 DEF Held
  <2>4. Phase' = [Phase EXCEPT ![c] = "served"]
    <3>1. link[c] # "off" /\ link[c] # "cut"
      BY <1>2 DEF Live
    <3> QED
      BY <1>6, <2>3, <3>1, PhaseChanges
  <2>5. Gone' = Gone
    BY <1>6 DEF Gone
  <2>6. Service!Serve(c)
    <3>1. Cardinality(Service!Served) < Room
      BY <1>5, <1>6
    <3>2. Service!Serve(c) <=> /\ Running /\ Phase[c] = "waiting" /\ Cardinality(Service!Served) < Room
                               /\ Phase' = [Phase EXCEPT ![c] = "served"]
                               /\ UNCHANGED <<sent, AnsweredTo, Gone, Running>>
      BY SameCardinality DEF Service!Serve, Gone, AnsweredTo, Running, Room
    <3> QED
      BY <1>2, <1>3, <1>4, <2>4, <2>5, <3>1, <3>2
  <2> QED
    BY <1>3, <2>6, AbstractStep
<1>7. CASE link' = [link EXCEPT ![c] = "cut"] /\ conn' = conn /\ Cardinality(Open) = Room
  <2>1. link'[c] = "cut" /\ \A d \in Clients \ {c} : link'[d] = link[d]
    BY <1>0, <1>7
  <2>2. \A d : Held(d)' <=> Held(d)
    BY <1>3, <1>7 DEF Held, Open
  <2>3. Phase' = [Phase EXCEPT ![c] = "over"]
    BY <2>1, <2>2, PhaseChanges
  <2>4. Gone' = Gone \ {c}
    BY <2>1 DEF Gone
  <2>5. Service!Refuse(c)
    <3>1. Cardinality(Service!Served) = Room
      BY <1>5, <1>7
    <3>2. Service!Refuse(c) <=> /\ Running /\ Phase[c] = "waiting" /\ Cardinality(Service!Served) = Room
                                /\ Phase' = [Phase EXCEPT ![c] = "over"] /\ Gone' = Gone \ {c}
                                /\ UNCHANGED <<sent, AnsweredTo, Running>>
      BY SameCardinality DEF Service!Refuse, Gone, AnsweredTo, Running, Room
    <3> QED
      BY <1>2, <1>3, <1>4, <2>3, <2>4, <3>1, <3>2
  <2> QED
    BY <1>3, <2>5, AbstractStep
<1>8. CASE kind = "epoll"
  <2>1. Open \in SUBSET Fds /\ Open # Fds
    BY <1>2 DEF Open
  <2>2. Cardinality(Open) <= Cardinality(Fds) /\ Cardinality(Open) # Cardinality(Fds)
    BY <1>0, <2>1, FS_Subset
  <2>3. Cardinality(Open) < Room
    BY <1>0, <1>5, <1>8, <2>2, FS_CardinalityType DEF Room
  <2> QED
    BY <1>1, <1>6, <1>8, <2>3
<1>9. CASE kind # "epoll"
  <2>1. /\ Cardinality(Open) <= Cap - 1 /\ Room = Cap - 1
        /\ Cardinality(Open) = Cap - 1 <=> \A s \in Slots : table[s] # None
    BY <1>2, <1>9, SlotsHold DEF Room
  <2>2. CASE {s \in Slots : table[s] = None} # {}
    <3>1. conn' = [conn EXCEPT ![f] = c] /\ link' = link
      BY <1>1, <1>9, <2>2 DEF Enter
    <3>2. Cardinality(Open) < Room
      <4>1. Cardinality(Open) # Cap - 1
        BY <2>1, <2>2
      <4> HIDE <1>1, <1>2
      <4> QED
        BY <1>0, <1>5, <2>1, <4>1
    <3> QED
      BY <1>6, <3>1, <3>2
  <2>3. CASE {s \in Slots : table[s] = None} = {}
    <3>1. link' = [link EXCEPT ![c] = "cut"] /\ conn' = conn
      BY <1>1, <1>9, <2>3 DEF Enter
    <3> QED
      BY <1>7, <2>1, <2>3, <3>1
  <2> QED
    BY <2>2, <2>3
<1> QED
  BY <1>8, <1>9

\* A connection is only closed after its client has left.
LEMMA EndedRefines == ASSUME IInv, IInv', Ended PROVE Service!Next
<1>0. /\ ConnInv /\ link \in [Clients -> Links] /\ conn \in [Fds -> Clients \cup {None}]
      /\ \A f \in Fds : conn[f] # None => conn[f] \in Clients
  BY Types DEF IInv, Open
<1> DEFINE e == conn[cur]
<1>1. /\ at = "recv" /\ at' = "scan" /\ kind' = kind /\ UNCHANGED <<sent, got, tx>> /\ link[e] \in {"eof", "reset"}
      /\ conn' = [conn EXCEPT ![cur] = None] /\ link' = [link EXCEPT ![e] = "cut"]
  BY DEF Ended, Continue
<1>2. cur \in Fds /\ cur \in Open /\ e \in Clients /\ \A g \in Open \ {cur} : g \in Fds /\ conn[g] # e
  BY <1>1, Handled
<1>3. Room' = Room /\ Fds' = Fds /\ AnsweredTo' = AnsweredTo /\ Running' = Running /\ Running
  BY <1>1 DEF Room, Fds, AnsweredTo, Running
<1>4. link'[e] = "cut" /\ \A d \in Clients \ {e} : link'[d] = link[d]
  BY <1>0, <1>1, <1>2
<1>5. \A d \in Clients \ {e} : Held(d)' <=> Held(d)
  <2>1. conn'[cur] = None /\ \A g \in Fds \ {cur} : conn'[g] = conn[g]
    BY <1>0, <1>1, <1>2
  <2>2. Open' = Open \ {cur}
    BY <1>3, <2>1 DEF Open
  <2>3. Open \subseteq Fds
    BY DEF Open
  <2> QED
    BY <1>0, <2>1, <2>2, <2>3 DEF Held
<1>6. Held(e)
  BY <1>2 DEF Held
<1>7. PICK c \in Clients : c = e
  BY <1>2
<1> HIDE DEF e
<1>8. Phase[c] = "served" /\ c \in Gone
  BY <1>1, <1>6, <1>7, PhaseOf DEF Gone
<1>9. Phase' = [Phase EXCEPT ![c] = "over"]
  BY <1>4, <1>5, <1>7, PhaseChanges
<1>10. Gone' = Gone \ {c}
  BY <1>4, <1>7 DEF Gone
<1>11. Service!End(c)
  BY <1>1, <1>3, <1>8, <1>9, <1>10 DEF Service!End, Gone, AnsweredTo, Running
<1> QED
  BY <1>3, <1>11, AbstractStep

\* What is written answers requests that were made; a write may end the server.
LEMMA WriteRefines ==
  ASSUME IInv, IInv', Write
  PROVE  Service!Next \/ UNCHANGED <<Room, Phase, sent, AnsweredTo, Gone, Running>>
<1>0. /\ CountInv /\ link \in [Clients -> Links] /\ tx \in [Clients -> 0 .. SndBuf] /\ got \in [Clients -> Nat]
      /\ SndBuf \in Nat /\ owed \in 0 .. ReadBuf /\ ReadBuf \in Nat
  BY Types, Constants DEF IInv
<1> DEFINE e == conn[cur]
<1>1. /\ at = "write" /\ Running /\ Open' = Open /\ UNCHANGED <<kind, conn, sent, got>>
  BY WriteKeeps DEF Write
<1>2. cur \in Fds /\ cur \in Open /\ e \in Clients
  BY <1>1, Handled
<1>3. Room' = Room /\ \A d : Held(d)' <=> Held(d)
  BY <1>1 DEF Room, Fds, Held
<1>4. PICK c \in Clients : c = e
  BY <1>2
<1>5. Phase[c] = "served"
  BY <1>2, <1>4, PhaseOf DEF Held
<1>6. CASE WriteSome
  <2> DEFINE m == IF owed > SndBuf - tx[e] THEN SndBuf - tx[e] ELSE owed
  <2>1. /\ m > 0 /\ tx' = [tx EXCEPT ![c] = tx[c] + m] /\ UNCHANGED link /\ at' \in {"write", "scan"}
    BY <1>1, <1>4, <1>6 DEF WriteSome, clients, Continue
  <2>2. m \in Nat /\ m <= owed
    BY <1>0, <1>2
  <2> HIDE DEF m, e
  <2>3. rx[c] + owed + tx[c] + got[c] <= sent[c] /\ rx[c] \in Nat /\ sent[c] \in Nat /\ tx[c] \in Nat /\ got[c] \in Nat
    <3>1. Owed(c) = owed
      BY <1>1, <1>4 DEF Owed, e
    <3>2. rx[c] + Owed(c) + tx[c] + got[c] <= sent[c]
      BY <1>0 DEF CountInv
    <3>3. rx[c] \in Nat /\ sent[c] \in Nat /\ tx[c] \in Nat /\ got[c] \in Nat
      BY Types DEF IInv
    <3> QED
      BY <3>1, <3>2, <3>3
  <2>4. tx[c] + m + got[c] \in tx[c] + got[c] + 1 .. sent[c]
    <3> HIDE <1>0
    <3>1. owed \in Nat
      BY <1>0
    <3> QED
      BY <2>1, <2>2, <2>3, <3>1
  <2>5. AnsweredTo[c] = tx[c] + got[c]
    BY DEF AnsweredTo
  <2>6. AnsweredTo' = [AnsweredTo EXCEPT ![c] = tx[c] + m + got[c]]
    <3>1. tx'[c] = tx[c] + m /\ \A d \in Clients \ {c} : tx'[d] = tx[d]
      BY <1>0, <2>1
    <3>2. tx'[c] + got'[c] = tx[c] + m + got[c]
      BY <1>1, <3>1
    <3>3. AnsweredTo' = [d \in Clients |-> tx'[d] + got'[d]]
      BY DEF AnsweredTo
    <3>4. \A d \in Clients \ {c} : tx'[d] + got'[d] = tx[d] + got[d]
      BY <1>1, <3>1
    <3> QED
      BY <3>2, <3>3, <3>4 DEF AnsweredTo
  <2>7. Phase' = Phase /\ Gone' = Gone /\ Running' = Running
    BY <1>1, <1>3, <2>1 DEF Phase, Held, Gone, Running
  <2>8. \E n \in AnsweredTo[c] + 1 .. sent[c] : AnsweredTo' = [AnsweredTo EXCEPT ![c] = n]
    BY <2>4, <2>5, <2>6
  <2>9. Service!Answer(c)
    BY <1>1, <1>5, <2>7, <2>8 DEF Service!Answer, Gone, AnsweredTo, Running
  <2> QED
    BY <1>3, <2>9, AbstractStep
<1>7. CASE WriteToClosed
  <2>1. link[c] = "eof" /\ link' = [link EXCEPT ![c] = "reset"] /\ tx' = tx /\ at' = "scan"
    BY <1>4, <1>7 DEF WriteToClosed, Continue
  <2>2. link'[c] = "reset" /\ \A d \in Clients \ {c} : link'[d] = link[d]
    BY <1>0, <2>1
  <2>3. Running'
    BY <2>1 DEF Running
  <2> QED
    BY <1>1, <2>1, <2>2, <2>3, Stutters
<1>8. CASE WriteToReset
  <2>1. UNCHANGED <<link, tx>> /\ at' \in {"scan", "dead"}
    BY <1>8 DEF WriteToReset, net, clients, Continue
  <2>2. CASE at' = "scan"
    <3>1. Running'
      BY <2>2 DEF Running
    <3> QED
      BY <1>1, <2>1, <3>1, Stutters
  <2>3. CASE at' = "dead"
    <3>1. Phase' = Phase /\ Gone' = Gone /\ AnsweredTo' = AnsweredTo
      BY <1>1, <1>3, <2>1 DEF Phase, Held, Gone, AnsweredTo
    <3>2. Service!Die
      BY <1>1, <2>3, <3>1 DEF Service!Die, Gone, AnsweredTo, Running
    <3> QED
      BY <1>3, <3>2, AbstractStep
  <2> QED
    BY <2>1, <2>2, <2>3
<1> QED
  BY <1>6, <1>7, <1>8 DEF Write

\* Every step of the servers is one of the abstract service or changes none of its state.
LEMMA StepService ==
  ASSUME IInv, IInv', [Next]_vars
  PROVE  Service!Next \/ UNCHANGED <<Room, Phase, sent, AnsweredTo, Gone, Running>>
<1>1. ASSUME NEW c \in Clients, ClientStep(c)
      PROVE  Service!Next \/ UNCHANGED <<Room, Phase, sent, AnsweredTo, Gone, Running>>
  BY <1>1, ClientRefines
<1>2. CASE SelectStart \/ PollStart \/ EpollStart
  <2>1. ~ Running /\ at' \in {"wait", "dead"} /\ UNCHANGED <<kind, link, sent, got, tx, conn>>
    BY <1>2 DEF SelectStart, PollStart, EpollStart, net, clients, Running
  <2>2. Room' = Room /\ Phase' = Phase /\ Gone' = Gone /\ AnsweredTo' = AnsweredTo
    BY <2>1 DEF Room, Phase, Gone, AnsweredTo, Open, Fds
  <2>3. CASE at' = "wait"
    <3>1. Service!Start
      BY <2>1, <2>2, <2>3 DEF Service!Start, Gone, AnsweredTo, Running
    <3> QED
      BY <2>2, <3>1, AbstractStep
  <2>4. CASE at' = "dead"
    <3>1. Running' = Running
      BY <2>1, <2>4 DEF Running
    <3> QED
      BY <2>1, <2>2, <3>1
  <2> QED
    BY <2>1, <2>3, <2>4
<1>3. CASE SelectAccept \/ PollAccept \/ EpollAccept
  BY <1>3, AcceptRefines
<1>4. CASE (SelectRecv \/ PollRecv \/ EpollRecv) /\ Ended
  BY <1>4, EndedRefines
<1>5. CASE Write
  BY <1>5, WriteRefines
<1>6. CASE \/ SelectWait \/ PollWait \/ EpollWait \/ SelectScan \/ PollScan \/ EpollScan \/ AcceptFails \/ Data
  <2>1. UNCHANGED <<kind, link, sent, got, tx, conn>> /\ Running /\ Running'
    <3>1. CASE SelectWait \/ PollWait \/ EpollWait
      BY <3>1 DEF SelectWait, PollWait, EpollWait, net, clients, Running
    <3>2. CASE SelectScan \/ PollScan
      BY <3>2 DEF SelectScan, PollScan, Visit, net, clients, Running
    <3>3. CASE EpollScan
      BY <3>3 DEF EpollScan, net, clients, Running
    <3>4. CASE AcceptFails
      BY <3>4 DEF AcceptFails, Continue, net, clients, Running
    <3>5. CASE Data
      BY <3>5 DEF Data, clients, Running
    <3> QED
      BY <1>6, <3>1, <3>2, <3>3, <3>4, <3>5
  <2> QED
    BY <2>1, Stutters
<1>7. CASE UNCHANGED vars
  <2>1. UNCHANGED <<kind, link, sent, got, tx, conn, at>>
    BY <1>7 DEF vars, net, clients, server
  <2>2. Running' <=> Running
    BY <2>1 DEF Running
  <2> QED
    BY <2>1, <2>2, Stutters
<1> QED
  BY <1>1, <1>2, <1>3, <1>4, <1>5, <1>6, <1>7
     DEF Next, ServerStep, SelectStep, PollStep, EpollStep, SelectRecv, PollRecv, EpollRecv

\* All three servers implement the abstract service, for any clients, tables and buffers:
\* every connection accepted is served while there is room and else refused, an answer
\* follows its request, and a connection lasts until its client has left it.
THEOREM ServersRefine == Spec => ImplementsService
<1>1. Init /\ IInv => Service!Init
  <2> SUFFICES ASSUME Init, IInv PROVE Service!Init
    OBVIOUS
  <2>1. Room \in Nat
    <3>1. Cardinality(Fds) \in Nat /\ Cap - 1 \in Nat
      BY AsManyServed, FS_CardinalityType, Constants
    <3> QED
      BY <3>1 DEF Room
  <2>2. Phase = [c \in Clients |-> "away"] /\ Gone = {} /\ ~ Running
    BY DEF Init, Phase, Gone, Running
  <2>3. AnsweredTo = [c \in Clients |-> 0] /\ sent = [c \in Clients |-> 0]
    BY DEF Init, AnsweredTo
  <2> QED
    BY <2>1, <2>2, <2>3 DEF Service!Init, Room, Gone, AnsweredTo, Running
<1>2. IInv /\ IInv' /\ [Next]_vars => [Service!Next]_(Service!vars)
  BY StepService DEF Service!vars, Room, Gone, AnsweredTo, Running
<1> QED
  BY <1>1, <1>2, InitIInv, AlwaysIInv, PTL DEF Spec, ImplementsService, Service!Spec
===============================================================================
