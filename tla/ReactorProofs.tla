----------------------------- MODULE ReactorProofs -----------------------------
(***************************************************************************)
(* Proofs about Reactor for any clients, descriptors, sizes of the buffers *)
(* and either handler: events go to the connection they were reported for, *)
(* no edge is forgotten, a live connection is closed for two reasons only; *)
(* and when no read ends inside a request, for one, and the server lives   *)
(* while nothing is reset or expires.                                      *)
(***************************************************************************)
EXTENDS Reactor, FiniteSetTheorems, SequenceTheorems, TLAPS

\* No read ends inside a request.
WholeRequests == ~ Split /\ ReadBuf % 2 = 0

-------------------------------------------------------------------------------
(* The inductive invariant, by parts. *)

\* A client sends whole requests when they are not split, and the pieces unread pair up.
Paired(s) == Len(s) % 2 = 0 /\ \A i \in 1 .. Len(s) : i % 2 = 0 => s[i]
PairInv == ~ Split => \A c \in Clients : sent[c] % 2 = 0
WholeInv == WholeRequests => \A c \in Clients : Paired(rx[c])

\* A connection is registered under one descriptor, and not before it is accepted or after
\* it is cut.
ConnInv == /\ \A f, g \in Fds : conns[f] = conns[g] /\ conns[f] # None => f = g
           /\ \A f \in Fds : conns[f] # None => conns[f] \notin backlog /\ link[conns[f]] \notin {"off", "cut"}
           /\ \A c \in backlog : link[c] \notin {"off", "cut"}

\* While a batch is dispatched, each event in it is about a connection that is still
\* registered under its descriptor; there is one event for each, and none for that in hand.
EventInv == /\ \A e \in batch : e.conn # Listen =>
                 e.fd \in Fds /\ e.conn \in Clients /\ conns[e.fd] = e.conn /\ e.ev # {}
            /\ \A e, d \in batch : e.conn # Listen /\ d.conn # Listen /\ e.fd = d.fd => e = d
            /\ at \in {"recv", "write"} =>
                 /\ cur.fd \in Fds /\ cur.conn \in Clients /\ conns[cur.fd] = cur.conn
                 /\ \A e \in batch : e.conn # Listen => e.fd # cur.fd
            /\ at \in {"wait", "scan"} => batch = {}

\* What a read would return at once.
Pending(c) == rx[c] # <<>> \/ link[c] \in {"eof", "reset"}

\* A connection with something to read has an event to come, in epoll or in the batch, or it
\* is the one whose recver is at work or will go on, unless the server is broken.
Covered(c) == \/ edge[c] \cap {"in", "err"} # {}
              \/ \E e \in batch : e.conn = c /\ e.ev \cap {"in", "err"} # {}
              \/ cur.conn = c /\ (at = "recv" \/ (at = "write" /\ back = "recv"))
              \/ at = "broken"
EdgeInv == \A f \in Fds : conns[f] # None =>
             "in" \in want[conns[f]] /\ (Pending(conns[f]) => Covered(conns[f]))

\* EPOLLOUT is never registered, and errors are reported of reset connections only.
OnlyIn(c, events) == events \subseteq {"in", "err"} /\ ("err" \in events => link[c] \in {"reset", "cut"})
EventsInv == /\ \A c \in Clients : want[c] \subseteq {"in"} /\ OnlyIn(c, edge[c])
             /\ \A e \in batch \cup {cur} : e.conn \in Clients => OnlyIn(e.conn, e.ev)

\* The read ended inside a request, of which cal_IO kept the start.
Halved(c) == ~ WholeRequests /\ Handler = "cal" /\ inbuf[c]

\* writer is called with output, but for the second half of an error and after a read that
\* ended inside a request; and the server lives when there is neither, and nothing expires.
OutputInv == /\ at = "write" => \/ outbuf[cur.conn] > 0 \/ link[cur.conn] = "reset"
                                \/ Halved(cur.conn)
             /\ WholeRequests /\ ~ Reset /\ ~ Expire => NotBroken

\* Nothing is reset and nothing expires unless it may.
QuietInv == /\ ~ Reset => \A c \in Clients : link[c] # "reset"
            /\ ~ Expire => \A c \in Clients : ~ stale[c]

\* As long as there are descriptors for all, a connection in the backlog has an event to
\* come, or acceptor is at work.
BacklogInv == Cardinality(Fds) >= Cardinality(Clients) /\ backlog # {} =>
                newEdge \/ at = "accept" \/ \E e \in batch : e.conn = Listen

\* The inductive invariant.
RestInv == ConnInv /\ EventInv /\ EdgeInv /\ EventsInv /\ QuietInv /\ BacklogInv

IInv == TypeOK /\ PairInv /\ WholeInv /\ RestInv

-------------------------------------------------------------------------------
(* Lemmas about the operators. *)

\* The constants' assumptions, as the provers use them.
LEMMA Constants ==
  /\ SndBuf \in Nat \ {0} /\ RespLen \in Nat \ {0} /\ ReadBuf \in Nat \ {0} /\ K \in Nat
  /\ None \notin Clients /\ Listen \notin Clients /\ Fds \subseteq Nat
  BY ReactorAssumption

\* Even numbers.
LEMMA Even == ASSUME NEW m \in Nat, NEW n \in Nat, m % 2 = 0
              PROVE  /\ (m + n) % 2 = n % 2 /\ (n % 2 = 0 /\ m >= n => (m - n) % 2 = 0)
                     /\ n > 0 /\ n % 2 = 0 => n >= 2
                     /\ (m + 1) % 2 = 1 /\ (m + 2) % 2 = 0
  OBVIOUS

\* Sequences of one and of two elements, and what a function is after an update.
LEMMA One == ASSUME NEW S, NEW x \in S PROVE <<x>> \in Seq(S) /\ Len(<<x>>) = 1
  OBVIOUS

\* A sequence of two elements.
LEMMA Two == ASSUME NEW S, NEW x \in S, NEW y \in S
             PROVE  <<x, y>> \in Seq(S) /\ Len(<<x, y>>) = 2 /\ <<x, y>>[2] = y
  OBVIOUS

\* An assignment to one field of a connection keeps the type of the function.
LEMMA Updated == ASSUME NEW S, NEW T, NEW f \in [S -> T], NEW c, NEW x \in T
                 PROVE  [f EXCEPT ![c] = x] \in [S -> T]
  OBVIOUS

\* A number of answers takes that many units, and at least one if there is any.
LEMMA Units ==
  ASSUME NEW n \in Nat
  PROVE  n * RespLen \in Nat /\ (n > 0 => n * RespLen > 0)
  BY Constants

\* What a read returns, and what it leaves.
LEMMA Reading ==
  ASSUME NEW c \in Clients, rx[c] \in Seq(BOOLEAN), rx[c] # <<>>
  PROVE  /\ Chunk(c) \in Seq(BOOLEAN) /\ Len(Chunk(c)) \in 1 .. Len(rx[c])
         /\ Len(Chunk(c)) = IF Len(rx[c]) > ReadBuf THEN ReadBuf ELSE Len(rx[c])
         /\ \A i \in 1 .. Len(Chunk(c)) : Chunk(c)[i] = rx[c][i]
         /\ Unread(c) \in Seq(BOOLEAN) /\ Len(Unread(c)) = Len(rx[c]) - Len(Chunk(c))
         /\ \A i \in 1 .. Len(Unread(c)) : Unread(c)[i] = rx[c][Len(Chunk(c)) + i]
<1> DEFINE n == IF Len(rx[c]) > ReadBuf THEN ReadBuf ELSE Len(rx[c])
<1>1. Len(rx[c]) \in Nat \ {0} /\ \A i \in 1 .. Len(rx[c]) : rx[c][i] \in BOOLEAN
  BY EmptySeq, ElementOfSeq
<1>2. n \in 1 .. Len(rx[c])
  BY <1>1, Constants
<1>3. /\ Chunk(c) \in Seq(BOOLEAN) /\ Len(Chunk(c)) = n
      /\ \A i \in 1 .. n : Chunk(c)[i] = rx[c][i]
  <2>1. \A i \in 1 .. n : rx[c][i] \in BOOLEAN
    BY <1>1, <1>2
  <2>2. /\ SubSeq(rx[c], 1, n) \in Seq(BOOLEAN)
        /\ Len(SubSeq(rx[c], 1, n)) = IF 1 <= n THEN n - 1 + 1 ELSE 0
        /\ \A i \in 1 .. n - 1 + 1 : SubSeq(rx[c], 1, n)[i] = rx[c][1 + i - 1]
    BY <1>2, <2>1, SubSeqProperties
  <2> QED
    BY <1>2, <2>2 DEF Chunk
<1>4. /\ Unread(c) \in Seq(BOOLEAN) /\ Len(Unread(c)) = Len(rx[c]) - n
      /\ \A i \in 1 .. Len(rx[c]) - n : Unread(c)[i] = rx[c][n + i]
  <2> DEFINE m == n + 1
             k == Len(rx[c])
  <2>1. m \in Int /\ k \in Int /\ \A i \in m .. k : rx[c][i] \in BOOLEAN
    BY <1>1, <1>2
  <2>2. /\ SubSeq(rx[c], m, k) \in Seq(BOOLEAN)
        /\ Len(SubSeq(rx[c], m, k)) = IF m <= k THEN k - m + 1 ELSE 0
        /\ \A i \in 1 .. k - m + 1 : SubSeq(rx[c], m, k)[i] = rx[c][m + i - 1]
    BY <2>1, SubSeqProperties
  <2>3. Unread(c) = SubSeq(rx[c], m, k)
    BY <1>3 DEF Unread
  <2>4. k \in Nat /\ n \in 1 .. k
    BY <1>1, <1>2
  <2> HIDE DEF k
  <2>5. (IF m <= k THEN k - m + 1 ELSE 0) = k - n /\ k - m + 1 = k - n
    BY <2>4
  <2>6. \A i \in 1 .. k - n : m + i - 1 = n + i
    BY <2>4
  <2>7. \A i \in 1 .. k - n : SubSeq(rx[c], m, k)[i] = rx[c][n + i]
    BY <2>2, <2>5, <2>6
  <2> QED
    BY <2>2, <2>3, <2>5, <2>7 DEF k
<1> QED
  BY <1>1, <1>2, <1>3, <1>4

\* The answers to what a read returns; there is one when a request ends there, as when
\* pieces come in pairs.
LEMMA Answering ==
  ASSUME NEW c \in Clients, rx[c] \in Seq(BOOLEAN), rx[c] # <<>>
  PROVE  /\ Answers(c) \in Nat
         /\ Chunk(c)[Len(Chunk(c))] => Answers(c) > 0
         /\ Paired(rx[c]) /\ ReadBuf % 2 = 0 => Answers(c) > 0 /\ Paired(Unread(c))
<1> DEFINE ends == {i \in 1 .. Len(Chunk(c)) : Chunk(c)[i]}
<1>1. Len(Chunk(c)) \in Nat \ {0} /\ Len(rx[c]) \in Nat
  BY Reading, EmptySeq
<1>2. IsFiniteSet(ends) /\ Cardinality(ends) \in Nat
  <2>1. IsFiniteSet(1 .. Len(Chunk(c))) /\ ends \in SUBSET (1 .. Len(Chunk(c)))
    BY <1>1, FS_Interval
  <2> QED
    BY <2>1, FS_Subset, FS_CardinalityType
<1>3. Answers(c) = Cardinality(ends) * RespLen
  BY DEF Answers
<1>4. ASSUME NEW i \in ends PROVE Answers(c) > 0
  <2>1. ends # {}
    OBVIOUS
  <2> HIDE DEF ends
  <2>2. Cardinality(ends) > 0
    BY <1>2, <2>1, FS_EmptySet
  <2> QED
    BY <1>2, <1>3, <2>2, Units
<1>5. Chunk(c)[Len(Chunk(c))] => Answers(c) > 0
  BY <1>1, <1>4
<1>6. ASSUME Paired(rx[c]), ReadBuf % 2 = 0 PROVE Answers(c) > 0 /\ Paired(Unread(c))
  <2>1. Len(Chunk(c)) % 2 = 0 /\ Len(rx[c]) % 2 = 0
    BY <1>6, Reading DEF Paired
  <2>2. 2 \in 1 .. Len(Chunk(c)) /\ Len(Chunk(c)) <= Len(rx[c])
    BY <1>1, <2>1, Reading
  <2>3. 2 \in ends
    BY <1>1, <1>6, <2>2, Reading DEF Paired
  <2>5. Answers(c) > 0
    BY <1>4, <2>3
  <2>6. Len(Unread(c)) = Len(rx[c]) - Len(Chunk(c)) /\ Len(Unread(c)) % 2 = 0
    <3>1. Len(Unread(c)) = Len(rx[c]) - Len(Chunk(c))
      BY Reading
    <3> QED
      BY <1>1, <2>1, <2>2, <3>1, Even
  <2>7. ASSUME NEW i \in 1 .. Len(Unread(c)), i % 2 = 0 PROVE Unread(c)[i]
    <3> DEFINE j == Len(Chunk(c)) + i
    <3>1. j \in 1 .. Len(rx[c]) /\ j % 2 = 0
      BY <1>1, <2>1, <2>2, <2>6, <2>7
    <3>2. rx[c][j]
      BY <1>6, <3>1 DEF Paired
    <3>3. Unread(c)[i] = rx[c][j]
      BY Reading
    <3> QED
      BY <3>2, <3>3
  <2> QED
    BY <2>5, <2>6, <2>7 DEF Paired
<1> QED
  BY <1>2, <1>3, <1>5, <1>6, Units

-------------------------------------------------------------------------------
(* Types, and pieces that come in pairs. *)

TypeInv == TypeOK /\ PairInv /\ WholeInv

\* No pieces are paired.
LEMMA NothingPaired == Paired(<<>>)
  <1>1. Len(<<>>) = 0
    OBVIOUS
  <1> QED
    BY <1>1 DEF Paired

\* What the clients and the network do.
LEMMA ClientTypes == ASSUME TypeInv, NEW c \in Clients, ClientStep(c) PROVE TypeInv'
<1> USE Constants
<1>0. /\ TypeOK /\ PairInv /\ WholeInv
      /\ \A d \in Clients : rx[d] \in Seq(BOOLEAN) /\ sent[d] \in 0 .. 2 * K /\ edge[d] \subseteq {"in", "out", "err"}
  BY DEF TypeInv, TypeOK
<1>1. \A events \in SUBSET {"in", "out", "err"} : Notice(c, events) \subseteq {"in", "out", "err"}
  BY <1>0 DEF Notice
<1>2. CASE Connect(c)
  BY <1>0, <1>2 DEF Connect, TypeInv, TypeOK, PairInv, WholeInv, Paired, objects, server
<1>3. CASE Send(c)
  <2> DEFINE half == sent[c] % 2
             pieces == IF Split THEN <<half = 1>> ELSE <<FALSE, TRUE>>
  <2>1. /\ sent[c] < 2 * K /\ sent' = [sent EXCEPT ![c] = sent[c] + Len(pieces)]
        /\ rx' = [rx EXCEPT ![c] = rx[c] \o pieces]
        /\ edge' = [edge EXCEPT ![c] = Notice(c, {"in"})]
        /\ UNCHANGED <<link, backlog, tx, got, newEdge, objects, server>>
    BY <1>3 DEF Send
  <2>2. pieces \in Seq(BOOLEAN) /\ Len(pieces) = IF Split THEN 1 ELSE 2
    <3>1. (half = 1) \in BOOLEAN
      BY Zenon
    <3>2. <<half = 1>> \in Seq(BOOLEAN) /\ Len(<<half = 1>>) = 1
      BY <3>1, One, Zenon
    <3>3. <<FALSE, TRUE>> \in Seq(BOOLEAN) /\ Len(<<FALSE, TRUE>>) = 2
      BY Two, Zenon
    <3> QED
      BY <3>2, <3>3, Zenon
  <2>3. sent[c] + Len(pieces) \in 0 .. 2 * K /\ (~ Split => (sent[c] + Len(pieces)) % 2 = 0)
    <3> HIDE DEF pieces
    <3>1. sent[c] \in 0 .. 2 * K /\ sent[c] < 2 * K /\ Len(pieces) \in {1, 2} /\ (Split => Len(pieces) = 1)
      BY <1>0, <2>1, <2>2
    <3>2. sent[c] + Len(pieces) \in 0 .. 2 * K
      <4>1. CASE Split
        <5>1. Len(pieces) = 1
          BY <2>2, <4>1
        <5> QED
          BY <3>1, <5>1, Constants
      <4>2. CASE ~ Split
        <5>1. sent[c] % 2 = 0 /\ Len(pieces) = 2
          BY <1>0, <2>2, <4>2 DEF PairInv
        <5>2. sent[c] # 2 * K - 1
          BY <1>0, <5>1, Constants
        <5> QED
          BY <3>1, <5>1, <5>2
      <4> QED
        BY <4>1, <4>2
    <3> QED
      <4>1. ~ Split => sent[c] % 2 = 0 /\ Len(pieces) = 2 /\ sent[c] \in Nat
        BY <1>0, <2>2 DEF PairInv
      <4> QED
        BY <3>2, <4>1, Even
  <2>4. /\ rx[c] \o pieces \in Seq(BOOLEAN) /\ Len(rx[c] \o pieces) = Len(rx[c]) + Len(pieces)
        /\ \A i \in 1 .. Len(rx[c]) + Len(pieces) :
             (rx[c] \o pieces)[i] = IF i <= Len(rx[c]) THEN rx[c][i] ELSE pieces[i - Len(rx[c])]
    <3> HIDE DEF pieces
    <3> QED
      BY <1>0, <2>2, ConcatProperties, ZenonT(30)
  <2>5. WholeRequests => Paired(rx[c] \o pieces)
    <3> SUFFICES ASSUME WholeRequests, ~ Split, ReadBuf % 2 = 0 PROVE Paired(rx[c] \o pieces)
      BY DEF WholeRequests
    <3>1. Paired(rx[c]) /\ Len(rx[c]) \in Nat /\ pieces = <<FALSE, TRUE>> /\ Len(pieces) = 2
      <4> HIDE DEF pieces
      <4>1. Paired(rx[c]) /\ Len(rx[c]) \in Nat /\ Len(pieces) = 2
        BY <1>0, <2>2 DEF WholeInv
      <4> QED
        BY <4>1 DEF pieces
    <3> HIDE DEF pieces
    <3>2. Len(rx[c] \o pieces) % 2 = 0
      <4>1. (Len(rx[c]) + 2) % 2 = 0
        BY <3>1, Even DEF Paired
      <4> QED
        BY <2>4, <3>1, <4>1
    <3>4. pieces[2]
      BY <3>1
    <3>3. ASSUME NEW i \in 1 .. Len(rx[c] \o pieces), i % 2 = 0 PROVE (rx[c] \o pieces)[i]
      <4>1. CASE i <= Len(rx[c])
        BY <2>4, <3>1, <3>3, <4>1 DEF Paired
      <4>2. CASE i > Len(rx[c])
        <5>1. i = Len(rx[c]) + 1 \/ i = Len(rx[c]) + 2
          BY <2>4, <3>1, <4>2
        <5>2. i # Len(rx[c]) + 1
          <6>1. (Len(rx[c]) + 1) % 2 = 1
            BY <3>1, Even DEF Paired
          <6> QED
            BY <3>3, <6>1, 0 # 1, Zenon
        <5>3. i - Len(rx[c]) = 2
          BY <3>1, <5>1, <5>2
        <5> QED
          <6>1. (rx[c] \o pieces)[i] = pieces[2]
            <7>1. i \in 1 .. Len(rx[c]) + Len(pieces) /\ ~ (i <= Len(rx[c]))
              BY <2>4, <3>1, <4>2
            <7> QED
              BY <2>4, <5>3, <7>1, Zenon
          <6> QED
            BY <3>4, <6>1, Zenon
      <4> QED
        BY <2>4, <3>1, <4>1, <4>2
    <3> QED
      BY <3>2, <3>3 DEF Paired
  <2> HIDE DEF pieces, half
  <2>6. TypeOK'
    <3>1. /\ sent' \in [Clients -> 0 .. 2 * K] /\ rx' \in [Clients -> Seq(BOOLEAN)]
          /\ edge' \in [Clients -> SUBSET {"in", "out", "err"}]
      BY <1>0, <1>1, <2>1, <2>3, <2>4, Updated DEF TypeOK
    <3> QED
      BY <1>0, <2>1, <3>1 DEF TypeOK, objects, server
  <2>7. PairInv' /\ WholeInv'
    BY <1>0, <2>1, <2>3, <2>5 DEF PairInv, WholeInv, TypeOK
  <2> QED
    BY <2>6, <2>7 DEF TypeInv
<1>4. CASE Drain(c)
  <2>1. TypeOK'
    <3>1. tx[c] \in Nat /\ got[c] + tx[c] \in Nat
      BY <1>0 DEF TypeOK
    <3>2. /\ got' = [got EXCEPT ![c] = got[c] + tx[c]] /\ tx' = [tx EXCEPT ![c] = 0]
          /\ edge' = [edge EXCEPT ![c] = Notice(c, {"out"})]
          /\ UNCHANGED <<link, backlog, sent, rx, newEdge, objects, server>>
      BY <1>4 DEF Drain
    <3>3. tx' \in [Clients -> 0 .. SndBuf] /\ got' \in [Clients -> Nat]
      BY <1>0, <3>1, <3>2 DEF TypeOK
    <3>4. edge' \in [Clients -> SUBSET {"in", "out", "err"}]
      BY <1>0, <1>1, <3>2 DEF TypeOK
    <3> QED
      BY <1>0, <3>2, <3>3, <3>4 DEF TypeOK, objects, server
  <2> QED
    BY <1>0, <1>4, <2>1 DEF Drain, TypeInv, PairInv, WholeInv
<1>5. CASE Close(c)
  <2>1. TypeOK'
    BY <1>0, <1>1, <1>5 DEF Close, TypeOK, objects, server
  <2> QED
    BY <1>0, <1>5, <2>1 DEF Close, TypeInv, PairInv, WholeInv
<1>6. CASE Abort(c)
  <2>1. TypeOK'
    <3>1. /\ link' = [link EXCEPT ![c] = "reset"] /\ rx' = [rx EXCEPT ![c] = <<>>]
          /\ tx' = [tx EXCEPT ![c] = 0] /\ edge' = [edge EXCEPT ![c] = Notice(c, {"in", "out", "err"})]
          /\ UNCHANGED <<backlog, sent, got, newEdge, objects, server>>
      BY <1>6 DEF Abort
    <3>2. rx' \in [Clients -> Seq(BOOLEAN)] /\ tx' \in [Clients -> 0 .. SndBuf]
      BY <1>0, <3>1, EmptySeq DEF TypeOK
    <3>3. edge' \in [Clients -> SUBSET {"in", "out", "err"}]
      BY <1>0, <1>1, <3>1 DEF TypeOK
    <3> QED
      BY <1>0, <3>1, <3>2, <3>3 DEF TypeOK, objects, server
  <2>2. PairInv' /\ WholeInv'
    BY <1>0, <1>6, NothingPaired DEF Abort, TypeOK, PairInv, WholeInv
  <2> QED
    BY <2>1, <2>2 DEF TypeInv
<1>7. CASE Elapse(c)
  BY <1>0, <1>7 DEF Elapse, TypeInv, TypeOK, PairInv, WholeInv, Paired, kernel, server
<1> QED
  BY <1>2, <1>3, <1>4, <1>5, <1>6, <1>7 DEF ClientStep

\* Closing a connection.
LEMMA ReleaseTypes == ASSUME TypeInv, NEW f \in Fds, Release(f), at' \in {"wait", "dispatch", "scan", "write", "broken"},
                             UNCHANGED <<batch, cur, back>>
                      PROVE  TypeInv'
<1>1. TypeOK /\ PairInv /\ WholeInv
  BY DEF TypeInv
<1>2. TypeOK'
  BY <1>1, Constants, EmptySeq DEF Release, TypeOK
<1>3. PairInv' /\ WholeInv'
  <2>1. sent' = sent /\ rx' = [rx EXCEPT ![conns[f]] = <<>>] /\ rx \in [Clients -> Seq(BOOLEAN)]
    BY <1>1 DEF Release, TypeOK
  <2> QED
    BY <1>1, <2>1, NothingPaired DEF PairInv, WholeInv
<1> QED
  BY <1>2, <1>3 DEF TypeInv

\* The server's steps.
LEMMA ServerTypes == ASSUME TypeInv, ConnInv, EventInv, ServerStep PROVE TypeInv'
<1> USE Constants
<1>0. TypeOK /\ PairInv /\ WholeInv
  BY DEF TypeInv
<1>1. CASE EpollWait
  <2>1. TypeOK'
    <3> DEFINE ready == {f \in Fds : conns[f] # None /\ edge[conns[f]] # {}}
               report == {[fd |-> f, conn |-> conns[f], ev |-> edge[conns[f]]] : f \in ready}
    <3>1. /\ batch' = report \cup (IF newEdge THEN {[fd |-> 0, conn |-> Listen, ev |-> {"in"}]} ELSE {})
          /\ edge' = [d \in Clients |-> {}] /\ newEdge' = FALSE /\ at' = "dispatch"
          /\ UNCHANGED <<link, backlog, sent, rx, tx, got, objects, cur, back>>
      BY <1>1 DEF EpollWait
    <3>2. \A e \in report : /\ e.fd \in Nat /\ e.conn \in Clients \cup {None, Listen}
                            /\ e.ev \subseteq {"in", "out", "err"}
      BY <1>0 DEF TypeOK
    <3> HIDE DEF report
    <3>3. \A e \in (batch \cup {cur})' : /\ e.fd \in Nat /\ e.conn \in Clients \cup {None, Listen}
                                       /\ e.ev \subseteq {"in", "out", "err"}
      BY <1>0, <3>1, <3>2 DEF TypeOK
    <3>4. edge' \in [Clients -> SUBSET {"in", "out", "err"}]
      BY <3>1
    <3> QED
      BY <1>0, <3>1, <3>3, <3>4 DEF TypeOK, objects
  <2> QED
    BY <1>0, <1>1, <2>1 DEF EpollWait, TypeInv, PairInv, WholeInv
<1>2. CASE Dispatch
  <2>1. UNCHANGED <<kernel, objects>> /\ batch' \cup {cur'} \subseteq batch \cup {cur} /\ back' \in {back, "dispatch"}
    BY <1>2 DEF Dispatch
  <2>2. at' \in {"scan", "accept", "dispatch", "recv", "write"}
    BY <1>2 DEF Dispatch
  <2>3. TypeOK'
    BY <1>0, <2>1, <2>2 DEF TypeOK, kernel, objects
  <2> QED
    BY <1>0, <2>1, <2>3 DEF TypeInv, PairInv, WholeInv, kernel
<1>3. CASE Accept
  <2>1. ASSUME NEW c \in backlog, NEW f \in Fds, backlog' = backlog \ {c}, conns' = [conns EXCEPT ![f] = c],
               want' = [want EXCEPT ![c] = {"in"}], stale' = [stale EXCEPT ![c] = FALSE],
               edge' = [edge EXCEPT ![c] = Ready(c, {"in"})],
               UNCHANGED <<link, sent, rx, tx, got, newEdge, inbuf, outbuf, server>>
        PROVE  TypeOK'
    <3>1. Ready(c, {"in"}) \subseteq {"in", "out", "err"} /\ c \in Clients
      BY <1>0 DEF Ready, TypeOK
    <3>2. backlog' \subseteq Clients /\ conns' \in [Fds -> Clients \cup {None}] /\ stale' \in [Clients -> BOOLEAN]
      BY <1>0, <2>1, <3>1 DEF TypeOK
    <3>3. edge' \in [Clients -> SUBSET {"in", "out", "err"}] /\ want' \in [Clients -> SUBSET {"in", "out"}]
      BY <1>0, <2>1, <3>1 DEF TypeOK
    <3> QED
      BY <1>0, <2>1, <3>2, <3>3 DEF TypeOK, server
  <2>2. ASSUME at' = "dispatch", UNCHANGED <<kernel, objects, batch, cur, back>> PROVE TypeOK'
    BY <1>0, <2>2 DEF TypeOK, kernel, objects
  <2>3. TypeOK' /\ UNCHANGED <<rx, sent>>
    BY <1>3, <2>1, <2>2, Zenon DEF Accept, kernel
  <2> QED
    BY <1>0, <2>3 DEF TypeInv, PairInv, WholeInv
<1>4. ASSUME at \in {"recv", "write"}, NEW c, c = conns[cur.fd] PROVE c \in Clients /\ cur.fd \in Fds
  BY <1>4 DEF EventInv
<1>5. CASE RecvData
  <2> DEFINE c == conns[cur.fd]
  <2>1. c \in Clients /\ rx[c] \in Seq(BOOLEAN) /\ rx[c] # <<>>
    BY <1>0, <1>4, <1>5 DEF RecvData, TypeOK
  <2> HIDE DEF c
  <2>2. Answers(c) \in Nat /\ Unread(c) \in Seq(BOOLEAN) /\ Chunk(c)[Len(Chunk(c))] \in BOOLEAN
    <3>1. Len(Chunk(c)) \in 1 .. Len(Chunk(c)) /\ Chunk(c) \in Seq(BOOLEAN)
      BY <2>1, Reading
    <3> QED
      BY <2>1, <3>1, Reading, Answering, ElementOfSeq
  <2>3. /\ rx' = [rx EXCEPT ![c] = Unread(c)] /\ stale' = [stale EXCEPT ![c] = FALSE]
        /\ at' \in {"write", "broken"} /\ back' = "recv"
        /\ \/ /\ outbuf' = [outbuf EXCEPT ![c] = outbuf[c] + Answers(c)]
              /\ inbuf' = [inbuf EXCEPT ![c] = ~ Chunk(c)[Len(Chunk(c))]]
           \/ outbuf' = [outbuf EXCEPT ![c] = RespLen] /\ UNCHANGED inbuf
        /\ UNCHANGED <<link, backlog, sent, tx, got, edge, newEdge, conns, want, batch, cur>>
    BY <1>5 DEF RecvData, c
  <2>4. inbuf' \in [Clients -> BOOLEAN] /\ outbuf' \in [Clients -> Nat] /\ rx' \in [Clients -> Seq(BOOLEAN)]
    <3> HIDE DEF c
    <3>1. rx' \in [Clients -> Seq(BOOLEAN)]
      BY <1>0, <2>2, <2>3 DEF TypeOK
    <3>2. inbuf' \in [Clients -> BOOLEAN]
      <4>1. (~ Chunk(c)[Len(Chunk(c))]) \in BOOLEAN /\ inbuf \in [Clients -> BOOLEAN]
        BY <1>0, <2>2, Zenon DEF TypeOK
      <4>2. CASE inbuf' = inbuf
        BY <4>1, <4>2
      <4>3. CASE inbuf' = [inbuf EXCEPT ![c] = ~ Chunk(c)[Len(Chunk(c))]]
        <5> HIDE DEF c
        <5>1. [inbuf EXCEPT ![c] = ~ Chunk(c)[Len(Chunk(c))]] \in [Clients -> BOOLEAN]
          BY <4>1, Updated, Zenon
        <5> QED
          BY <4>3, <5>1
      <4> QED
        BY <2>3, <4>2, <4>3
    <3>3. outbuf' \in [Clients -> Nat]
      <4>1. outbuf \in [Clients -> Nat] /\ outbuf[c] + Answers(c) \in Nat
        BY <1>0, <2>1, <2>2 DEF TypeOK
      <4>2. \E n \in Nat : outbuf' = [outbuf EXCEPT ![c] = n]
        BY <2>3, <4>1, Constants
      <4> QED
        BY <4>1, <4>2
    <3> QED
      BY <3>1, <3>2, <3>3
  <2>5. TypeOK'
    BY <1>0, <2>3, <2>4 DEF TypeOK
  <2>6. WholeRequests => Paired(Unread(c))
    BY <1>0, <2>1, Answering DEF WholeInv, WholeRequests
  <2>7. PairInv' /\ WholeInv'
    BY <1>0, <2>1, <2>3, <2>6 DEF PairInv, WholeInv, TypeOK
  <2> QED
    BY <2>5, <2>7 DEF TypeInv
<1>6. CASE RecvAgain
  <2>1. AfterRecv(conns) \in {"write", "dispatch"}
    BY DEF AfterRecv
  <2>2. TypeOK'
    BY <1>0, <1>6, <2>1 DEF RecvAgain, TypeOK, kernel
  <2> QED
    BY <1>0, <1>6, <2>2 DEF RecvAgain, TypeInv, PairInv, WholeInv, kernel
<1>7. CASE RecvEof \/ RecvError \/ WriteNothing \/ WriteError
  <2>1. cur.fd \in Fds /\ Release(cur.fd) /\ UNCHANGED <<batch, cur, back>>
    BY <1>4, <1>7 DEF RecvEof, RecvError, WriteNothing, WriteError
  <2>2. at' \in {"dispatch", "write", "broken"}
    BY <1>7 DEF RecvEof, RecvError, WriteNothing, WriteError, AfterRecv
  <2> QED
    BY <2>1, <2>2, ReleaseTypes
<1>8. CASE WriteData
  <2> DEFINE c == conns[cur.fd]
  <2>1. c \in Clients /\ outbuf[c] \in Nat /\ tx[c] \in 0 .. SndBuf
    BY <1>0, <1>4, <1>8 DEF WriteData, TypeOK
  <2>2. Accepted(c) \in 0 .. outbuf[c] /\ (link[c] = "up" => tx[c] + Accepted(c) \in 0 .. SndBuf)
    BY <2>1 DEF Accepted
  <2>3. edge' \in [Clients -> SUBSET {"in", "out", "err"}]
    <3>1. Ready(c, {"in"}) \subseteq {"in", "out", "err"}
      BY DEF Ready
    <3>2. edge' = edge \/ edge' = [edge EXCEPT ![c] = edge[c] \cup Ready(c, {"in"})]
      BY <1>8 DEF WriteData
    <3>3. edge[c] \cup Ready(c, {"in"}) \subseteq {"in", "out", "err"}
      BY <1>0, <2>1, <3>1 DEF TypeOK
    <3> QED
      BY <1>0, <3>2, <3>3, Updated DEF TypeOK
  <2>4. TypeOK'
    <3>1. /\ outbuf' = [outbuf EXCEPT ![c] = outbuf[c] - Accepted(c)]
          /\ tx' = [tx EXCEPT ![c] = IF link[c] = "up" THEN tx[c] + Accepted(c) ELSE tx[c]]
          /\ want' = want \/ want' = [want EXCEPT ![c] = {"in"}]
          /\ stale' = stale \/ stale' = [stale EXCEPT ![c] = FALSE]
          /\ at' = at \/ at' = back
          /\ UNCHANGED <<link, backlog, sent, rx, got, newEdge, conns, inbuf, batch, cur, back>>
      BY <1>8 DEF WriteData
    <3> HIDE DEF c
    <3>2. outbuf' \in [Clients -> Nat] /\ tx' \in [Clients -> 0 .. SndBuf]
      BY <1>0, <2>1, <2>2, <3>1 DEF TypeOK
    <3>3. want' \in [Clients -> SUBSET {"in", "out"}] /\ stale' \in [Clients -> BOOLEAN]
      <4>1. want \in [Clients -> SUBSET {"in", "out"}] /\ stale \in [Clients -> BOOLEAN]
        BY <1>0 DEF TypeOK
      <4>2. /\ [want EXCEPT ![c] = {"in"}] \in [Clients -> SUBSET {"in", "out"}]
            /\ [stale EXCEPT ![c] = FALSE] \in [Clients -> BOOLEAN]
        BY <4>1
      <4> QED
        BY <3>1, <4>1, <4>2
    <3>4. at' \in {"wait", "dispatch", "accept", "recv", "write", "scan", "broken"}
      BY <1>0, <3>1 DEF TypeOK
    <3> QED
      BY <1>0, <2>3, <3>1, <3>2, <3>3, <3>4 DEF TypeOK
  <2> QED
    BY <1>0, <1>8, <2>4 DEF WriteData, TypeInv, PairInv, WholeInv
<1>9. CASE WriteAgain
  BY <1>0, <1>9 DEF WriteAgain, TypeInv, TypeOK, PairInv, WholeInv, kernel, objects
<1>10. CASE ScanClose
  BY <1>10, ReleaseTypes DEF ScanClose, Expired
<1>11. CASE ScanEnd
  BY <1>0, <1>11 DEF ScanEnd, Idle, TypeInv, TypeOK, PairInv, WholeInv, kernel, objects
<1> QED
  BY <1>1, <1>2, <1>3, <1>5, <1>6, <1>7, <1>8, <1>9, <1>10, <1>11 DEF ServerStep

-------------------------------------------------------------------------------
(* What the clients and the network do keeps the rest of the invariant. *)

Ended == {"reset", "cut"}

\* The connection of c alone changes, and no event is lost: what becomes readable is noted.
LEMMA ClientEffect ==
  ASSUME IInv, NEW c \in Clients, ClientStep(c)
  PROVE  /\ UNCHANGED <<conns, inbuf, outbuf, want, batch, at, cur, back>>
         /\ \A d \in Clients \ {c} : link'[d] = link[d] /\ rx'[d] = rx[d] /\ edge'[d] = edge[d]
         /\ edge[c] \subseteq edge'[c] /\ edge'[c] \subseteq edge[c] \cup {"in", "err"}
         /\ "err" \in edge'[c] => "err" \in edge[c] \/ link'[c] = "reset"
         /\ c \in Registered /\ Pending(c)' => Pending(c) \/ "in" \in edge'[c]
         /\ \/ link'[c] = link[c] /\ UNCHANGED <<backlog, newEdge>>
            \/ link[c] = "off" /\ link'[c] = "up" /\ backlog' = backlog \cup {c} /\ newEdge'
            \/ /\ link[c] \in {"up", "eof"} /\ UNCHANGED <<backlog, newEdge>>
               /\ link'[c] = "eof" \/ (link'[c] = "reset" /\ Reset)
         /\ \A d \in Clients : stale'[d] => stale[d] \/ Expire
<1>1. /\ link \in [Clients -> {"off", "up", "eof", "reset", "cut"}] /\ rx \in [Clients -> Seq(BOOLEAN)]
      /\ edge \in [Clients -> SUBSET {"in", "out", "err"}] /\ stale \in [Clients -> BOOLEAN]
      /\ want[c] \subseteq {"in"} /\ (c \in Registered => "in" \in want[c])
  BY DEF IInv, RestInv, TypeOK, EventsInv, EdgeInv, Registered
<1>2. /\ Notice(c, {"in"}) \subseteq edge[c] \cup {"in"} /\ edge[c] \subseteq Notice(c, {"in"})
      /\ (c \in Registered => "in" \in Notice(c, {"in"}))
      /\ Notice(c, {"out"}) = edge[c]
      /\ Notice(c, {"in", "out", "err"}) \subseteq edge[c] \cup {"in", "err"}
      /\ edge[c] \subseteq Notice(c, {"in", "out", "err"})
      /\ (c \in Registered => "in" \in Notice(c, {"in", "out", "err"}))
  BY <1>1 DEF Notice
<1>3. CASE Connect(c)
  BY <1>1, <1>3 DEF Connect, objects, server, Pending
<1>4. CASE Send(c)
  <2>1. /\ edge' = [edge EXCEPT ![c] = Notice(c, {"in"})] /\ \E s : rx' = [rx EXCEPT ![c] = s]
        /\ UNCHANGED <<link, backlog, newEdge, objects, server>>
    BY <1>4 DEF Send
  <2> QED
    BY <1>1, <1>2, <2>1 DEF objects, server, Pending
<1>5. CASE Drain(c)
  <2>1. /\ edge' = [edge EXCEPT ![c] = Notice(c, {"out"})]
        /\ UNCHANGED <<link, backlog, rx, newEdge, objects, server>>
    BY <1>5 DEF Drain
  <2> QED
    BY <1>1, <1>2, <2>1 DEF objects, server, Pending
<1>6. CASE Close(c)
  <2>1. /\ edge' = [edge EXCEPT ![c] = Notice(c, {"in"})] /\ link' = [link EXCEPT ![c] = "eof"]
        /\ link[c] = "up" /\ UNCHANGED <<backlog, rx, newEdge, objects, server>>
    BY <1>6 DEF Close
  <2> QED
    BY <1>1, <1>2, <2>1 DEF objects, server, Pending
<1>7. CASE Abort(c)
  <2>1. /\ edge' = [edge EXCEPT ![c] = Notice(c, {"in", "out", "err"})] /\ link' = [link EXCEPT ![c] = "reset"]
        /\ rx' = [rx EXCEPT ![c] = <<>>] /\ link[c] \in {"up", "eof"} /\ Reset
        /\ UNCHANGED <<backlog, newEdge, objects, server>>
    BY <1>7 DEF Abort
  <2> QED
    BY <1>1, <1>2, <2>1 DEF objects, server, Pending
<1>8. CASE Elapse(c)
  <2>1. Expire /\ UNCHANGED <<kernel, conns, inbuf, outbuf, want, server>> /\ stale' = [stale EXCEPT ![c] = TRUE]
    BY <1>8 DEF Elapse
  <2> QED
    BY <1>1, <2>1 DEF kernel, server, Pending
<1> QED
  BY <1>3, <1>4, <1>5, <1>6, <1>7, <1>8 DEF ClientStep

\* The rest of the invariant, of that.
LEMMA ClientKeeps ==
  ASSUME IInv, NEW c \in Clients, ClientStep(c)
  PROVE  RestInv'
<1>0. /\ conns \in [Fds -> Clients \cup {None}] /\ backlog \subseteq Clients
      /\ ConnInv /\ EventInv /\ EdgeInv /\ EventsInv /\ QuietInv /\ BacklogInv
  BY DEF IInv, RestInv, TypeOK
<1>1. UNCHANGED <<conns, outbuf, want, batch, at, cur, back>>
  BY ClientEffect
<1>2. ConnInv'
  <2>1. \A d \in Clients : link[d] \notin {"off", "cut"} => link'[d] \notin {"off", "cut"}
    BY ClientEffect
  <2>2. \A d \in backlog' : d \in backlog \/ (d = c /\ link[c] = "off" /\ link'[c] = "up")
    BY ClientEffect
  <2> QED
    BY <1>0, <1>1, <2>1, <2>2 DEF ConnInv
<1>3. EventInv'
  BY <1>0, <1>1 DEF EventInv
<1>4. EdgeInv'
  <2>1. ASSUME NEW f \in Fds, conns[f] # None, Pending(conns[f])'
        PROVE  \/ Pending(conns[f]) /\ edge[conns[f]] \subseteq edge'[conns[f]]
               \/ "in" \in edge'[conns[f]]
    <3>1. conns[f] \in Clients /\ conns[f] \in Registered /\ conns'[f] = conns[f]
      BY <1>0, <1>1, <2>1 DEF Registered
    <3>2. CASE conns[f] = c
      BY <1>1, <2>1, <3>1, <3>2, ClientEffect DEF Pending
    <3>3. CASE conns[f] # c
      BY <1>1, <2>1, <3>1, <3>3, ClientEffect DEF Pending
    <3> QED
      BY <3>2, <3>3
  <2> QED
    BY <1>0, <1>1, <2>1 DEF EdgeInv, Pending, Covered
<1>5. EventsInv'
  <2>1. \A d \in Clients : link[d] \in Ended => link'[d] \in Ended
    BY ClientEffect DEF Ended
  <2>2. \A d \in Clients : OnlyIn(d, edge[d]) => edge'[d] \subseteq {"in", "err"} /\ ("err" \in edge'[d] => link'[d] \in Ended)
    <3> SUFFICES ASSUME NEW d \in Clients, OnlyIn(d, edge[d])
                 PROVE  edge'[d] \subseteq {"in", "err"} /\ ("err" \in edge'[d] => link'[d] \in Ended)
      OBVIOUS
    <3>1. CASE d = c
      BY <2>1, <3>1, ClientEffect DEF OnlyIn, Ended
    <3>2. CASE d # c
      BY <2>1, <3>2, ClientEffect DEF OnlyIn, Ended
    <3> QED
      BY <3>1, <3>2
  <2> QED
    BY <1>0, <1>1, <2>1, <2>2 DEF EventsInv, OnlyIn, Ended
<1>6. QuietInv'
  <2>1. \A d \in Clients : link'[d] = "reset" => link[d] = "reset" \/ Reset
    BY ClientEffect
  <2> QED
    BY <1>0, <2>1, ClientEffect DEF QuietInv
<1>7. BacklogInv'
  BY <1>0, <1>1, ClientEffect DEF BacklogInv
<1> QED
  BY <1>2, <1>3, <1>4, <1>5, <1>6, <1>7 DEF RestInv

-------------------------------------------------------------------------------
(* What the server does keeps it too. *)

\* The conjuncts of the invariant and the types that the steps of the server use.
LEMMA Facts ==
  ASSUME IInv
  PROVE  /\ conns \in [Fds -> Clients \cup {None}] /\ backlog \subseteq Clients /\ newEdge \in BOOLEAN
         /\ link \in [Clients -> {"off", "up", "eof", "reset", "cut"}] /\ rx \in [Clients -> Seq(BOOLEAN)]
         /\ edge \in [Clients -> SUBSET {"in", "out", "err"}] /\ want \in [Clients -> SUBSET {"in", "out"}]
         /\ stale \in [Clients -> BOOLEAN] /\ outbuf \in [Clients -> Nat] /\ tx \in [Clients -> 0 .. SndBuf]
         /\ back \in {"recv", "dispatch"}
         /\ ConnInv /\ EventInv /\ EdgeInv /\ EventsInv /\ QuietInv /\ BacklogInv
         /\ None \notin Clients /\ Listen \notin Clients
  BY Constants DEF IInv, RestInv, TypeOK

\* Closing a connection, from recver, from writer or from the scan.
LEMMA ReleaseKeeps ==
  ASSUME IInv, NEW f \in Fds, conns[f] # None, Release(f), UNCHANGED <<batch, cur, back>>,
         \/ at \in {"recv", "write"} /\ f = cur.fd /\ at' \in {"dispatch", "broken"}
         \/ at = "scan" /\ at' \in {"scan", "wait", "broken"}
  PROVE  RestInv'
<1> USE Facts
<1> DEFINE c == conns[f]
<1>1. c \in Clients /\ c # None
  OBVIOUS
<1>2. /\ conns' = [conns EXCEPT ![f] = None] /\ link' = [link EXCEPT ![c] = "cut"]
      /\ rx' = [rx EXCEPT ![c] = <<>>] /\ edge' = [edge EXCEPT ![c] = {}]
      /\ want' = [want EXCEPT ![c] = {}] /\ stale' = [stale EXCEPT ![c] = FALSE]
      /\ UNCHANGED <<backlog, newEdge, batch, cur, back>>
  BY DEF Release
<1>3. /\ c \notin backlog /\ conns'[f] = None
      /\ \A g \in Fds \ {f} : conns'[g] = conns[g] /\ conns[g] # c
  BY <1>1, <1>2 DEF ConnInv
<1>4. \A d \in Clients \ {c} : link'[d] = link[d] /\ rx'[d] = rx[d] /\ edge'[d] = edge[d] /\ want'[d] = want[d]
  BY <1>2
<1>5. \A e \in batch : e.conn # Listen => e.fd # f
  BY DEF EventInv
<1> HIDE DEF c
<1>6. ConnInv'
  BY <1>1, <1>2, <1>3, <1>4 DEF ConnInv
<1>7. EventInv'
  BY <1>2, <1>3, <1>5 DEF EventInv
<1>8. EdgeInv'
  <2>1. ASSUME NEW g \in Fds, conns'[g] # None PROVE g # f /\ conns'[g] = conns[g] /\ conns[g] \in Clients \ {c}
    BY <1>3, <2>1
  <2>2. ASSUME NEW g \in Fds, conns'[g] # None PROVE "in" \in want'[conns'[g]]
    BY <1>4, <2>1, <2>2 DEF EdgeInv
  <2>3. ASSUME NEW g \in Fds, conns'[g] # None, Pending(conns[g])' PROVE Covered(conns[g])'
    <3>1. Pending(conns[g]) /\ edge'[conns[g]] = edge[conns[g]]
      BY <1>4, <2>1, <2>3 DEF Pending
    <3>2. at \in {"recv", "write"} => cur.conn = c
      BY <1>2 DEF EventInv, c
    <3> QED
      BY <1>2, <2>1, <2>3, <3>1, <3>2 DEF EdgeInv, Covered
  <2> QED
    BY <2>2, <2>3 DEF EdgeInv
<1>9. EventsInv'
  <2>1. \A d \in Clients : want'[d] \subseteq {"in"} /\ OnlyIn(d, edge[d]) /\ edge'[d] \subseteq edge[d]
    BY <1>2 DEF EventsInv
  <2>2. \A d \in Clients : link[d] \in Ended => link'[d] \in Ended
    BY <1>2 DEF Ended
  <2> QED
    BY <1>2, <2>1, <2>2 DEF EventsInv, OnlyIn, Ended
<1>10. QuietInv'
  BY <1>2 DEF QuietInv
<1>11. BacklogInv'
  BY <1>2 DEF BacklogInv
<1> QED
  BY <1>6, <1>7, <1>8, <1>9, <1>10, <1>11 DEF RestInv

\* epoll_wait takes the edges into the batch.
LEMMA WaitKeeps == ASSUME IInv, EpollWait PROVE RestInv'
<1> USE Facts
<1> DEFINE ready == {f \in Fds : conns[f] # None /\ edge[conns[f]] # {}}
           report == {[fd |-> f, conn |-> conns[f], ev |-> edge[conns[f]]] : f \in ready}
<1>1. /\ at = "wait" /\ batch = {} /\ at' = "dispatch"
      /\ batch' = report \cup (IF newEdge THEN {[fd |-> 0, conn |-> Listen, ev |-> {"in"}]} ELSE {})
      /\ edge' = [d \in Clients |-> {}]
      /\ UNCHANGED <<link, backlog, rx, conns, want, stale, cur, back>>
  BY DEF EpollWait, EventInv, objects
<1>2. /\ \A e \in report : /\ e.fd \in Fds /\ e.conn \in Clients /\ conns[e.fd] = e.conn /\ e.ev # {}
                           /\ e.ev = edge[e.conn]
      /\ \A e, d \in report : e.fd = d.fd => e = d
      /\ \A f \in Fds : conns[f] # None /\ edge[conns[f]] # {} =>
           \E e \in report : e.conn = conns[f] /\ e.ev = edge[conns[f]]
  <2>1. ASSUME NEW e \in report
        PROVE  /\ e.fd \in Fds /\ e.conn = conns[e.fd] /\ e.conn \in Clients /\ e.ev = edge[e.conn] /\ e.ev # {}
               /\ e = [fd |-> e.fd, conn |-> conns[e.fd], ev |-> edge[conns[e.fd]]]
    OBVIOUS
  <2>2. \A e, d \in report : e.fd = d.fd => e = d
    BY <2>1, Zenon
  <2>3. ASSUME NEW f \in Fds, conns[f] # None, edge[conns[f]] # {}
        PROVE  \E e \in report : e.conn = conns[f] /\ e.ev = edge[conns[f]]
    <3>1. f \in ready
      BY <2>3
    <3> DEFINE e == [fd |-> f, conn |-> conns[f], ev |-> edge[conns[f]]]
    <3>2. e \in report /\ e.conn = conns[f] /\ e.ev = edge[conns[f]]
      BY <3>1
    <3> HIDE DEF e, report
    <3> QED
      BY <3>2
  <2> QED
    BY <2>1, <2>2, <2>3
<1>3. (\A e \in batch' : e.conn # Listen => e \in report) /\ (newEdge => \E e \in batch' : e.conn = Listen)
  <2> DEFINE fresh == [fd |-> 0, conn |-> Listen, ev |-> {"in"}]
  <2>1. fresh.conn = Listen /\ batch' = report \cup (IF newEdge THEN {fresh} ELSE {})
    BY <1>1
  <2> HIDE DEF fresh, report
  <2> QED
    BY <2>1
<1>4. report \subseteq batch'
  BY <1>1
<1> HIDE DEF report
<1>5. ConnInv' /\ QuietInv'
  BY <1>1 DEF ConnInv, QuietInv
<1>6. EventInv'
  BY <1>1, <1>2, <1>3 DEF EventInv
<1>7. EdgeInv'
  <2>1. ASSUME NEW f \in Fds, conns[f] # None, Pending(conns[f]) PROVE Covered(conns[f])'
    <3>1. edge[conns[f]] \cap {"in", "err"} # {}
      BY <1>1, <2>1 DEF EdgeInv, Covered
    <3>2. \E e \in batch' : e.conn = conns[f] /\ e.ev \cap {"in", "err"} # {}
      BY <1>2, <1>4, <2>1, <3>1
    <3> QED
      BY <1>1, <3>2 DEF Covered
  <2> QED
    BY <1>1, <2>1 DEF EdgeInv, Pending
<1>8. EventsInv'
  <2>1. \A d \in Clients : OnlyIn(d, edge[d]) /\ want[d] \subseteq {"in"}
    BY DEF EventsInv
  <2>2. \A e \in batch' \cup {cur'} : e.conn \in Clients => OnlyIn(e.conn, e.ev)
    BY <1>1, <1>2, <1>3, <2>1 DEF EventsInv
  <2> QED
    BY <1>1, <2>1, <2>2 DEF EventsInv, OnlyIn
<1>9. BacklogInv'
  BY <1>1, <1>3 DEF BacklogInv
<1> QED
  BY <1>5, <1>6, <1>7, <1>8, <1>9 DEF RestInv

\* The next event is taken out of the batch.
LEMMA DispatchKeeps == ASSUME IInv, Dispatch PROVE RestInv'
<1> USE Facts
<1>1. at = "dispatch" /\ UNCHANGED <<kernel, objects>>
  BY DEF Dispatch
<1>2. CASE batch = {} /\ at' = "scan" /\ UNCHANGED <<batch, cur, back>>
  BY <1>1, <1>2 DEF RestInv, ConnInv, EventInv, EdgeInv, Covered, EventsInv, OnlyIn, QuietInv, BacklogInv, Pending, kernel, objects
<1>3. ASSUME NEW e \in batch, batch' = batch \ {e}, cur' = e, back' = "dispatch",
             at' = CASE e.conn = Listen -> "accept"
                     [] e.conn # Listen /\ ~is_alive(conns, e.fd) -> "dispatch"
                     [] e.conn # Listen /\ is_alive(conns, e.fd) ->
                          IF e.ev \cap {"in", "err"} # {} THEN "recv" ELSE "write"
      PROVE  RestInv'
  <2>1. /\ e.conn = Listen => at' = "accept"
        /\ e.conn # Listen => at' = IF e.ev \cap {"in", "err"} # {} THEN "recv" ELSE "write"
        /\ e.conn # Listen => e.fd \in Fds /\ e.conn \in Clients /\ conns[e.fd] = e.conn /\ e.ev # {}
    BY <1>3 DEF EventInv, is_alive
  <2>2. ConnInv' /\ QuietInv'
    BY <1>1 DEF ConnInv, QuietInv, kernel, objects
  <2>3. EventInv'
    BY <1>1, <1>3, <2>1 DEF EventInv, objects
  <2>4. EdgeInv'
    <3>1. ASSUME NEW f \in Fds, conns[f] # None, Covered(conns[f]) PROVE Covered(conns[f])'
      <4>1. UNCHANGED <<conns, edge>>
        BY <1>1 DEF kernel, objects
      <4>2. CASE edge[conns[f]] \cap {"in", "err"} # {}
        BY <4>1, <4>2 DEF Covered
      <4>3. ASSUME NEW d \in batch, d.conn = conns[f], d.ev \cap {"in", "err"} # {} PROVE Covered(conns[f])'
        <5>1. CASE d = e
          BY <1>3, <2>1, <3>1, <4>1, <4>3, <5>1 DEF Covered
        <5>2. CASE d # e
          BY <1>3, <4>1, <4>3, <5>2 DEF Covered
        <5> QED
          BY <5>1, <5>2
      <4> QED
        BY <1>1, <3>1, <4>2, <4>3 DEF Covered
    <3> QED
      BY <1>1, <3>1 DEF EdgeInv, Pending, kernel, objects
  <2>5. EventsInv'
    BY <1>1, <1>3 DEF EventsInv, OnlyIn, kernel, objects
  <2>6. BacklogInv'
    BY <1>1, <1>3, <2>1 DEF BacklogInv, kernel
  <2> QED
    BY <2>2, <2>3, <2>4, <2>5, <2>6 DEF RestInv
<1> QED
  BY <1>2, <1>3 DEF Dispatch

\* When every descriptor is taken and there are as many as clients, nobody waits.
LEMMA NobodyWaits ==
  ASSUME IInv, \A f \in Fds : conns[f] # None, Cardinality(Fds) >= Cardinality(Clients)
  PROVE  backlog = {}
<1> USE Facts
<1>1. SUFFICES ASSUME NEW c \in backlog PROVE FALSE
  OBVIOUS
<1> DEFINE others == Clients \ {c}
<1>2. c \in Clients /\ IsFiniteSet(Clients) /\ IsFiniteSet(Fds)
  BY ReactorAssumption
<1>3. IsFiniteSet(others) /\ Cardinality(others) = Cardinality(Clients) - 1
  BY <1>2, FS_RemoveElement
<1>4. conns \in [Fds -> others]
  BY DEF ConnInv
<1> HIDE DEF others
<1>5. Cardinality(Fds) \in Nat /\ Cardinality(Clients) \in Nat /\ Cardinality(others) \in Nat
  BY <1>2, <1>3, FS_CardinalityType
<1>6. Cardinality(Fds) > Cardinality(others)
  BY <1>3, <1>5
<1>7. \E f, g \in Fds : f # g /\ conns[f] = conns[g]
  BY <1>2, <1>3, <1>4, <1>6, FS_PigeonHole
<1> QED
  BY <1>7 DEF ConnInv

\* accept registers one connection, or ends.
LEMMA AcceptKeeps == ASSUME IInv, Accept PROVE RestInv'
<1> USE Facts
<1>1. ASSUME NEW c \in backlog, NEW f \in Fds, conns[f] = None, backlog' = backlog \ {c}, at = "accept",
             conns' = [conns EXCEPT ![f] = c], want' = [want EXCEPT ![c] = {"in"}],
             stale' = [stale EXCEPT ![c] = FALSE], edge' = [edge EXCEPT ![c] = Ready(c, {"in"})],
             UNCHANGED <<link, rx, newEdge, outbuf, server>>
      PROVE  RestInv'
  <2>1. c \in Clients /\ link[c] \notin {"off", "cut"} /\ \A g \in Fds : conns[g] # c
    BY DEF ConnInv
  <2>2. conns'[f] = c /\ \A g \in Fds \ {f} : conns'[g] = conns[g]
    BY <1>1
  <2>3. /\ \A d \in Clients \ {c} : want'[d] = want[d] /\ edge'[d] = edge[d]
        /\ want'[c] = {"in"} /\ edge'[c] \subseteq {"in"} /\ (Pending(c) => "in" \in edge'[c])
    BY <1>1, <2>1 DEF Ready, Pending
  <2>4. UNCHANGED <<batch, at, cur, back>>
    BY <1>1 DEF server
  <2>5. ConnInv'
    BY <1>1, <2>1, <2>2 DEF ConnInv
  <2>6. EventInv'
    BY <1>1, <2>2, <2>4 DEF EventInv
  <2>7. EdgeInv'
    <3>1. ASSUME NEW g \in Fds, conns'[g] # None
          PROVE  conns'[g] = c \/ (conns'[g] = conns[g] /\ conns[g] \in Clients \ {c})
      BY <2>1, <2>2, <3>1
    <3>2. ASSUME NEW g \in Fds, conns'[g] # None PROVE "in" \in want'[conns'[g]]
      BY <2>3, <3>1, <3>2 DEF EdgeInv
    <3>3. ASSUME NEW g \in Fds, conns'[g] # None, Pending(conns[g])' PROVE Covered(conns[g])'
      <4>1. Pending(conns'[g])
        BY <1>1, <3>3 DEF Pending
      <4>2. CASE conns'[g] = c
        BY <2>3, <4>1, <4>2 DEF Covered
      <4>3. CASE conns'[g] = conns[g] /\ conns[g] \in Clients \ {c}
        <5>1. Pending(conns[g])
          BY <1>1, <3>3, <4>1, <4>3 DEF Pending
        <5>2. Covered(conns[g])
          BY <4>3, <5>1 DEF EdgeInv
        <5> QED
          BY <1>1, <2>3, <2>4, <4>3, <5>2 DEF Covered
      <4> QED
        BY <3>1, <3>3, <4>2, <4>3
    <3> QED
      BY <3>2, <3>3 DEF EdgeInv
  <2>8. EventsInv'
    BY <1>1, <2>1, <2>3, <2>4 DEF EventsInv, OnlyIn
  <2>9. QuietInv'
    BY <1>1 DEF QuietInv
  <2>10. BacklogInv'
    BY <1>1, <2>4 DEF BacklogInv
  <2> QED
    BY <2>5, <2>6, <2>7, <2>8, <2>9, <2>10 DEF RestInv
<1>2. ASSUME backlog = {} \/ \A f \in Fds : conns[f] # None, at = "accept", at' = "dispatch",
             UNCHANGED <<kernel, objects, batch, cur, back>>
      PROVE  RestInv'
  <2>1. BacklogInv'
    BY <1>2, NobodyWaits DEF BacklogInv, kernel
  <2>2. ConnInv' /\ EventInv' /\ QuietInv'
    BY <1>2 DEF ConnInv, EventInv, QuietInv, kernel, objects
  <2>3. EdgeInv'
    BY <1>2 DEF EdgeInv, Covered, Pending, kernel, objects
  <2>4. EventsInv'
    BY <1>2 DEF EventsInv, OnlyIn, kernel, objects
  <2> QED
    BY <2>1, <2>2, <2>3, <2>4 DEF RestInv
<1> QED
  BY <1>1, <1>2 DEF Accept

\* recver reads and calls writer, or finds nothing.
LEMMA RecvKeeps == ASSUME IInv, RecvData \/ RecvAgain PROVE RestInv'
<1> USE Facts
<1> DEFINE c == conns[cur.fd]
<1>1. /\ at = "recv" /\ cur.fd \in Fds /\ c \in Clients /\ cur.conn = c
      /\ UNCHANGED <<link, backlog, edge, newEdge, conns, want, batch, cur>>
      /\ stale' = [stale EXCEPT ![c] = FALSE]
  BY DEF RecvData, RecvAgain, EventInv, kernel
<1>2. /\ \/ at' = "write" /\ back' = "recv"
         \/ at' = "broken"
         \/ at' \in {"write", "dispatch"} /\ ~ Pending(c)
      /\ \A d \in Clients \ {c} : rx'[d] = rx[d]
      /\ Pending(c)' => Pending(c)
  BY <1>1 DEF RecvData, RecvAgain, AfterRecv, Pending, kernel
<1> HIDE DEF c
<1>3. ConnInv'
  BY <1>1 DEF ConnInv
<1>4. EventInv'
  BY <1>1, <1>2 DEF EventInv
<1>5. EdgeInv'
  <2>1. ASSUME NEW f \in Fds, conns[f] # None, Pending(conns[f])' PROVE Covered(conns[f])'
    <3>1. CASE conns[f] = c
      BY <1>1, <1>2, <2>1, <3>1 DEF Covered, c
    <3>2. CASE conns[f] # c
      <4>1. Pending(conns[f])
        BY <1>1, <1>2, <2>1, <3>2 DEF Pending
      <4> QED
        BY <1>1, <2>1, <3>2, <4>1 DEF EdgeInv, Covered
    <3> QED
      BY <3>1, <3>2
  <2> QED
    BY <1>1, <2>1 DEF EdgeInv
<1>6. EventsInv' /\ QuietInv' /\ BacklogInv'
  BY <1>1 DEF EventsInv, OnlyIn, QuietInv, BacklogInv
<1> QED
  BY <1>3, <1>4, <1>5, <1>6 DEF RestInv

\* writer sends, or finds the socket full.
LEMMA WriteKeeps == ASSUME IInv, WriteData \/ WriteAgain PROVE RestInv'
<1> USE Facts
<1> DEFINE c == conns[cur.fd]
<1>1. /\ at = "write" /\ cur.fd \in Fds /\ c \in Clients /\ cur.conn = c
      /\ UNCHANGED <<link, backlog, rx, newEdge, conns, batch, cur, back>>
  BY DEF WriteData, WriteAgain, EventInv, kernel, objects
<1>2. \/ at' = at /\ UNCHANGED <<want, edge, stale>>
      \/ at' = back /\ UNCHANGED <<want, edge, stale>>
      \/ /\ at' = back /\ want' = [want EXCEPT ![c] = {"in"}] /\ stale' = [stale EXCEPT ![c] = FALSE]
         /\ edge' = [edge EXCEPT ![c] = edge[c] \cup Ready(c, {"in"})]
  BY DEF WriteData, WriteAgain, kernel, objects
<1> HIDE DEF c
<1>3. /\ \A d \in Clients : edge[d] \subseteq edge'[d] /\ edge'[d] \subseteq edge[d] \cup {"in"}
      /\ \A d \in Clients : "in" \in want[d] => "in" \in want'[d]
      /\ \A d \in Clients : want'[d] \subseteq want[d] \cup {"in"}
      /\ \A d \in Clients : stale'[d] => stale[d]
  <2>1. CASE UNCHANGED <<want, edge, stale>>
    BY <2>1
  <2>2. CASE /\ want' = [want EXCEPT ![c] = {"in"}] /\ stale' = [stale EXCEPT ![c] = FALSE]
             /\ edge' = [edge EXCEPT ![c] = edge[c] \cup Ready(c, {"in"})]
    <3>1. Ready(c, {"in"}) \subseteq {"in"}
      BY DEF Ready
    <3> QED
      BY <1>1, <2>2, <3>1
  <2> QED
    BY <1>2, <2>1, <2>2
<1>4. at' \in {"write", "recv", "dispatch"} /\ (back = "recv" => at' \in {"write", "recv"})
  BY <1>1, <1>2
<1>5. ConnInv'
  BY <1>1 DEF ConnInv
<1>6. EventInv'
  BY <1>1, <1>4 DEF EventInv
<1>7. EdgeInv'
  <2>1. ASSUME NEW f \in Fds, conns[f] # None, Covered(conns[f]) PROVE Covered(conns[f])'
    <3>1. conns[f] \in Clients
      BY <2>1
    <3> QED
      BY <1>1, <1>3, <1>4, <2>1, <3>1 DEF Covered
  <2>2. \A f \in Fds : conns[f] # None => conns[f] \in Clients
    OBVIOUS
  <2> QED
    BY <1>1, <1>3, <2>1, <2>2 DEF EdgeInv, Pending
<1>8. EventsInv'
  BY <1>1, <1>3 DEF EventsInv, OnlyIn
<1>9. QuietInv'
  BY <1>1, <1>3 DEF QuietInv
<1>10. BacklogInv'
  BY <1>1, <1>4 DEF BacklogInv
<1> QED
  BY <1>5, <1>6, <1>7, <1>8, <1>9, <1>10 DEF RestInv

\* The scan ends.
LEMMA ScanEndKeeps == ASSUME IInv, ScanEnd PROVE RestInv'
<1> USE Facts
<1>1. at = "scan" /\ at' = "wait" /\ cur' = Idle /\ UNCHANGED <<kernel, objects, batch, back>>
  BY DEF ScanEnd
<1>2. Idle.conn \notin Clients
  BY DEF Idle
<1>3. EdgeInv'
  BY <1>1 DEF EdgeInv, Pending, Covered, kernel, objects
<1>4. EventsInv'
  BY <1>1, <1>2 DEF EventsInv, OnlyIn, kernel, objects
<1> QED
  BY <1>1, <1>3, <1>4 DEF RestInv, ConnInv, EventInv, QuietInv, BacklogInv, kernel, objects

\* The step in which a connection is closed, and whose.
LEMMA Closing ==
  ASSUME IInv, NEW f \in Fds, conns[f] # None, Release(f)
  PROVE  /\ conns[f] \in Clients /\ conns'[f] = None /\ link[conns[f]] # "off"
         /\ \A d \in Clients : link'[d] = "cut" => link[d] = "cut" \/ d = conns[f]
         /\ \A d \in Clients : link[d] = "reset" /\ d # conns[f] => link'[d] = "reset"
  BY Facts DEF Release, ConnInv

\* recver only gives a connection up that has ended or was reset, and it is the one
\* whose event is handled.
LEMMA RecvCloses ==
  ASSUME IInv, RecvEof \/ RecvError
  PROVE  /\ at = "recv" /\ cur.fd \in Fds /\ conns[cur.fd] # None /\ cur.conn = conns[cur.fd]
         /\ Release(cur.fd) /\ UNCHANGED <<batch, cur, back>>
         /\ link[conns[cur.fd]] \in {"eof", "reset"}
         /\ at' = "dispatch" \/ (at' = "broken" /\ link[conns[cur.fd]] = "reset")
<1> USE Facts
<1>1. /\ at = "recv" /\ cur.fd \in Fds /\ conns[cur.fd] # None /\ cur.conn = conns[cur.fd]
      /\ Release(cur.fd) /\ UNCHANGED <<batch, cur, back>>
      /\ link[conns[cur.fd]] \in {"eof", "reset"}
      /\ at' = AfterRecv(conns') \/ (at' = "broken" /\ link[conns[cur.fd]] = "reset")
  BY DEF RecvEof, RecvError, EventInv
<1>2. AfterRecv(conns') = "dispatch"
  BY <1>1, Closing DEF AfterRecv, is_alive
<1> QED
  BY <1>1, <1>2

\* writer gives up a connection that was reset, or one without output (WriteNothing).
LEMMA WriteCloses ==
  ASSUME IInv, WriteNothing \/ WriteError
  PROVE  /\ at = "write" /\ cur.fd \in Fds /\ conns[cur.fd] # None /\ cur.conn = conns[cur.fd]
         /\ Release(cur.fd) /\ UNCHANGED <<batch, cur, back>> /\ at' \in {"dispatch", "broken"}
         /\ link[conns[cur.fd]] = "reset" \/ (link[conns[cur.fd]] # "reset" /\ outbuf[conns[cur.fd]] = 0)
  BY Facts DEF WriteNothing, WriteError, EventInv

\* Every step of the server preserves the untyped part of the invariant.
LEMMA ServerKeeps == ASSUME IInv, ServerStep PROVE RestInv'
<1>1. CASE RecvEof \/ RecvError
  BY <1>1, RecvCloses, ReleaseKeeps
<1>2. CASE WriteNothing \/ WriteError
  BY <1>2, WriteCloses, ReleaseKeeps
<1>3. CASE ScanClose
  BY <1>3, ReleaseKeeps DEF ScanClose, Expired, is_alive
<1> QED
  BY <1>1, <1>2, <1>3, WaitKeeps, DispatchKeeps, AcceptKeeps, RecvKeeps, WriteKeeps, ScanEndKeeps DEF ServerStep

\* The invariant holds at first, and every step keeps it.
LEMMA InitIInv == Init => IInv
<1> SUFFICES ASSUME Init PROVE IInv
  OBVIOUS
<1> USE Constants DEF Init
<1>1. Idle.fd = 0 /\ Idle.conn = None /\ Idle.ev = {}
  BY DEF Idle
<1>2. TypeOK
  <2>1. rx \in [Clients -> Seq(BOOLEAN)]
    BY EmptySeq
  <2>2. \A e \in batch \cup {cur} : /\ e.fd \in Nat /\ e.conn \in Clients \cup {None, Listen}
                                  /\ e.ev \subseteq {"in", "out", "err"}
    BY <1>1
  <2>3. sent \in [Clients -> 0 .. 2 * K] /\ tx \in [Clients -> 0 .. SndBuf]
    OBVIOUS
  <2> QED
    BY <2>1, <2>2, <2>3 DEF TypeOK
<1>3. PairInv /\ WholeInv
  BY NothingPaired DEF PairInv, WholeInv
<1>4. ConnInv /\ EventInv /\ EdgeInv /\ QuietInv /\ BacklogInv
  BY DEF ConnInv, EventInv, EdgeInv, QuietInv, BacklogInv
<1>5. EventsInv
  BY <1>1 DEF EventsInv, OnlyIn
<1> QED
  BY <1>2, <1>3, <1>4, <1>5 DEF IInv, RestInv

\* The invariant is inductive ...
LEMMA StepIInv == IInv /\ [Next]_vars => IInv'
<1> SUFFICES ASSUME IInv, [Next]_vars PROVE IInv'
  OBVIOUS
<1>1. ASSUME NEW c \in Clients, ClientStep(c) PROVE IInv'
  BY <1>1, ClientTypes, ClientKeeps DEF IInv, TypeInv
<1>2. CASE ServerStep
  BY <1>2, ServerTypes, ServerKeeps DEF IInv, RestInv, TypeInv
<1>3. CASE UNCHANGED vars
  <2>1. (TypeOK /\ PairInv /\ WholeInv)'
    BY <1>3 DEF IInv, TypeOK, PairInv, WholeInv, vars
  <2>2. (ConnInv /\ EventInv /\ QuietInv /\ BacklogInv)'
    BY <1>3 DEF IInv, RestInv, ConnInv, EventInv, QuietInv, BacklogInv, vars
  <2>3. (EdgeInv /\ EventsInv)'
    BY <1>3 DEF IInv, RestInv, EdgeInv, Covered, Pending, EventsInv, OnlyIn, vars
  <2> QED
    BY <2>1, <2>2, <2>3 DEF IInv, RestInv
<1> QED
  BY <1>1, <1>2, <1>3 DEF Next

\* ... so that it always holds.
LEMMA AlwaysIInv == Spec => []IInv
  BY InitIInv, StepIInv, PTL DEF Spec

-------------------------------------------------------------------------------
(* When writer has nothing to write. *)

\* A request that is read to its end is answered: writer has output.
LEMMA StepOutput == ASSUME IInv, OutputInv, [Next]_vars PROVE OutputInv'
<1> USE Facts
<1>1. ASSUME NEW c \in Clients, ClientStep(c) PROVE OutputInv'
  <2>1. UNCHANGED <<inbuf, outbuf, at, cur>> /\ \A d \in Clients : link[d] = "reset" => link'[d] = "reset"
    BY <1>1, ClientEffect
  <2>2. at = "write" => cur.conn \in Clients
    BY DEF EventInv
  <2> QED
    BY <2>1, <2>2 DEF OutputInv, Halved, NotBroken
<1>2. CASE EpollWait
  BY <1>2 DEF EpollWait, OutputInv, Halved, NotBroken
<1>3. CASE Dispatch
  <2>1. at' # "broken" /\ UNCHANGED <<link, outbuf>>
    BY <1>3 DEF Dispatch, kernel, objects
  <2>2. at' = "write" => link[cur'.conn] = "reset"
    <3> SUFFICES ASSUME at' = "write" PROVE FALSE
      OBVIOUS
    <3>1. PICK e \in batch : e.conn # Listen /\ e.ev \cap {"in", "err"} = {}
      BY <1>3 DEF Dispatch
    <3>2. e.conn \in Clients /\ e.ev # {}
      BY <3>1 DEF EventInv
    <3>3. e.ev \subseteq {"in", "err"}
      BY <3>2 DEF EventsInv, OnlyIn
    <3> QED
      BY <3>1, <3>2, <3>3
  <2> QED
    BY <2>1, <2>2 DEF OutputInv, Halved, NotBroken
<1>4. CASE Accept
  BY <1>4 DEF Accept, server, kernel, objects, OutputInv, Halved, NotBroken
<1>5. CASE RecvData
  <2> DEFINE c == conns[cur.fd]
  <2>1. c \in Clients /\ cur.conn = c /\ rx[c] # <<>> /\ rx[c] \in Seq(BOOLEAN) /\ outbuf[c] \in Nat
    BY <1>5 DEF RecvData, EventInv
  <2>2. /\ at' = "write" \/ (at' = "broken" /\ Len(Chunk(c)) = 1)
        /\ UNCHANGED cur
        /\ outbuf' = [outbuf EXCEPT ![c] = IF Handler = "cal" THEN outbuf[c] + Answers(c) ELSE RespLen]
        /\ Handler = "cal" => inbuf' = [inbuf EXCEPT ![c] = ~ Chunk(c)[Len(Chunk(c))]]
    BY <1>5 DEF RecvData
  <2> HIDE DEF c
  <2>3. Answers(c) \in Nat /\ (Chunk(c)[Len(Chunk(c))] \/ WholeRequests => Answers(c) > 0)
    BY <2>1, Answering DEF WholeRequests, IInv, WholeInv
  <2>4. outbuf'[c] > 0 \/ (~ WholeRequests /\ Handler = "cal" /\ inbuf'[c])
    <3>1. CASE Handler = "cal" /\ Answers(c) > 0
      BY <2>1, <2>2, <2>3, <3>1
    <3>2. CASE Handler # "cal"
      BY <2>1, <2>2, <3>2, Constants
    <3>3. CASE ~ Chunk(c)[Len(Chunk(c))] /\ ~ WholeRequests /\ Handler = "cal"
      BY <2>1, <2>2, <3>3 DEF IInv, TypeOK
    <3> QED
      BY <2>3, <3>1, <3>2, <3>3
  <2>5. WholeRequests => Len(Chunk(c)) # 1
    <3> SUFFICES ASSUME WholeRequests PROVE Len(Chunk(c)) # 1
      OBVIOUS
    <3>1. Len(rx[c]) % 2 = 0 /\ ReadBuf % 2 = 0
      BY <2>1 DEF WholeRequests, IInv, WholeInv, Paired
    <3>2. Len(Chunk(c)) = Len(rx[c]) \/ Len(Chunk(c)) = ReadBuf
      BY <2>1, Reading
    <3>3. 1 % 2 # 0
      OBVIOUS
    <3> QED
      BY <3>1, <3>2, <3>3
  <2> QED
    BY <2>1, <2>2, <2>4, <2>5 DEF OutputInv, Halved, NotBroken
<1>6. CASE RecvAgain
  <2>1. cur.conn = conns[cur.fd] /\ cur.conn \in Clients /\ link[cur.conn] = "up"
    BY <1>6 DEF RecvAgain, EventInv
  <2>2. cur.ev \cap {"out", "err"} = {}
    <3>1. OnlyIn(cur.conn, cur.ev)
      BY <2>1 DEF EventsInv
    <3> QED
      BY <2>1, <3>1 DEF OnlyIn
  <2> QED
    BY <1>6, <2>2 DEF RecvAgain, AfterRecv, OutputInv, Halved, NotBroken
<1>7. CASE RecvEof \/ RecvError
  BY <1>7, RecvCloses, Closing DEF OutputInv, Halved, NotBroken, QuietInv
<1>8. CASE WriteData
  <2> DEFINE c == conns[cur.fd]
  <2>1. c \in Clients /\ cur.conn = c /\ outbuf[c] \in Nat /\ tx[c] \in 0 .. SndBuf
    BY <1>8 DEF WriteData, EventInv
  <2>2. UNCHANGED <<link, inbuf, cur>> /\ outbuf' = [outbuf EXCEPT ![c] = outbuf[c] - Accepted(c)]
    BY <1>8 DEF WriteData
  <2>3. at' \in {"recv", "dispatch"} \/ (at' = "write" /\ Accepted(c) # outbuf[c])
    BY <1>8 DEF WriteData
  <2>4. Accepted(c) \in 0 .. outbuf[c]
    BY <2>1, Constants DEF Accepted
  <2> QED
    BY <2>1, <2>2, <2>3, <2>4 DEF OutputInv, Halved, NotBroken
<1>9. CASE WriteAgain
  BY <1>9 DEF WriteAgain, OutputInv, Halved, NotBroken
<1>10. CASE WriteNothing \/ WriteError
  BY <1>10, WriteCloses, Closing DEF OutputInv, Halved, NotBroken, QuietInv
<1>11. CASE ScanClose
  BY <1>11 DEF ScanClose, Expired, is_alive, OutputInv, Halved, NotBroken, QuietInv
<1>12. CASE ScanEnd
  BY <1>12 DEF ScanEnd, OutputInv, Halved, NotBroken
<1>13. CASE UNCHANGED vars
  BY <1>13 DEF vars, OutputInv, Halved, NotBroken
<1> QED
  BY <1>1, <1>2, <1>3, <1>4, <1>5, <1>6, <1>7, <1>8, <1>9, <1>10, <1>11, <1>12, <1>13 DEF Next, ServerStep

\* The additional invariant always holds as well.
LEMMA AlwaysOutput == Spec => []OutputInv
<1>1. Init => OutputInv
  BY DEF Init, OutputInv, NotBroken
<1>2. IInv /\ OutputInv /\ [Next]_vars => OutputInv'
  BY StepOutput
<1> QED
  BY <1>1, <1>2, AlwaysIInv, PTL DEF Spec

\* A step that closes a live connection: it was idle, or it is in the hands of a writer that
\* has nothing to write.
LEMMA LiveClosed ==
  ASSUME IInv, OutputInv, Next, NEW c \in Clients, link[c] = "up", link'[c] = "cut"
  PROVE  stale[c] \/ (Halved(c) /\ outbuf[c] = 0)
<1>1. ~ \E d \in Clients : ClientStep(d)
  BY Facts, ClientEffect
<1>2. ~ (RecvEof \/ RecvError)
  BY RecvCloses, Closing
<1>3. CASE WriteNothing \/ WriteError
  <2>1. c = cur.conn /\ at = "write" /\ outbuf[c] = 0
    BY <1>3, WriteCloses, Closing
  <2> QED
    BY <2>1 DEF OutputInv
<1>4. CASE ScanClose
  BY <1>4, Closing DEF ScanClose, Expired, is_alive
<1>5. UNCHANGED link \/ ScanClose \/ WriteNothing \/ WriteError
  BY <1>1, <1>2 DEF Next, ServerStep, EpollWait, Dispatch, Accept, RecvData, RecvAgain, WriteData,
                    WriteAgain, ScanEnd, kernel
<1> QED
  BY <1>3, <1>4, <1>5

-------------------------------------------------------------------------------
(* The theorems. *)

\* Every variable of the server, the connection objects, the kernel and the clients has
\* its type (reactor_server.hpp, connection.hpp).
THEOREM TypeCorrect == Spec => []TypeOK
<1>1. IInv => TypeOK
  BY DEF IInv
<1> QED
  BY <1>1, AlwaysIInv, PTL

\* An event of a batch is dispatched to the connection it was reported for, though descriptors
\* are closed and given out again in between (reactor_server.hpp:162-174, closefd, acceptor).
THEOREM RightConnection == Spec => []EventsGoToTheirConnection
<1>1. IInv => EventsGoToTheirConnection
  BY Facts DEF EventsGoToTheirConnection, EventInv
<1> QED
  BY <1>1, AlwaysIInv, PTL

\* No edge is lost (:244-254, :300): the server never blocks in epoll_wait over a connection
\* with unread data, an end of stream or an error, unless epoll has an event for it.
THEOREM EdgesKept == Spec => []NoEdgeForgotten
<1>1. IInv => NoEdgeForgotten
  <2> SUFFICES ASSUME IInv, at = "wait", NEW c \in Registered, Pending(c) PROVE edge[c] # {}
    BY DEF NoEdgeForgotten, Pending
  <2>1. PICK f \in Fds : conns[f] = c /\ conns[f] # None
    BY DEF Registered
  <2>2. Covered(c)
    BY Facts, <2>1 DEF EdgeInv
  <2>3. batch = {}
    BY Facts DEF EventInv
  <2> QED
    BY <2>2, <2>3 DEF Covered
<1> QED
  BY <1>1, AlwaysIInv, PTL

\* acceptor takes all that wait (:179-190): with a descriptor for every client the server never
\* blocks over a connection in the backlog without an event of the listening socket.
THEOREM BacklogKept == Spec => []NoBacklogForgotten
<1>1. IInv => NoBacklogForgotten
  BY Facts DEF NoBacklogForgotten, EventInv, BacklogInv
<1> QED
  BY <1>1, AlwaysIInv, PTL

\* A live connection is closed by the scan, when it was idle for 300 seconds, or by a writer
\* that recver calls after half a request, when there is nothing to write (:269, :285-290,
\* :351-366): for no other reason, whatever ends, is reset or is accepted beside it.
THEOREM ClosesOnlyForTwoReasons == Spec => ClosesOnlyIdleOrCut
<1> DEFINE Kept == \A c \in Clients : link[c] = "up" /\ link'[c] = "cut" =>
                     stale[c] \/ (Handler = "cal" /\ inbuf[c] /\ outbuf[c] = 0)
<1> SUFFICES Spec => [][Kept]_vars
  BY DEF ClosesOnlyIdleOrCut
<1>1. IInv /\ OutputInv /\ [Next]_vars => [Kept]_vars
  BY LiveClosed DEF Halved
<1> QED
  BY <1>1, AlwaysIInv, AlwaysOutput, PTL DEF Spec

\* When no read ends inside a request the second reason never applies, with either handler:
\* only an idle connection is cut while its client is up (:285-290, :351-366).
THEOREM ClosesOnlyIdle ==
  WholeRequests => (Spec => [][\A c \in Clients : link[c] = "up" /\ link'[c] = "cut" => stale[c]]_vars)
<1> DEFINE Kept == \A c \in Clients : link[c] = "up" /\ link'[c] = "cut" => stale[c]
<1> SUFFICES ASSUME WholeRequests PROVE Spec => [][Kept]_vars
  OBVIOUS
<1>1. IInv /\ OutputInv /\ [Next]_vars => [Kept]_vars
  BY LiveClosed DEF Halved
<1> QED
  BY <1>1, AlwaysIInv, AlwaysOutput, PTL DEF Spec

\* When requests are read whole and no connection is reset or expires, the server lives and
\* never sleeps on a connection it has not accepted (:120-330).
THEOREM ReactorSafety == WholeRequests /\ ~ Reset /\ ~ Expire => (Spec => []Safe)
<1> SUFFICES ASSUME WholeRequests, ~ Reset, ~ Expire PROVE Spec => []Safe
  OBVIOUS
<1>1. OutputInv => NotBroken
  BY DEF OutputInv
<1>2. TypeOK /\ NoBacklogForgotten /\ NotBroken => Safe
  BY DEF Safe
<1> QED
  BY <1>1, <1>2, AlwaysOutput, TypeCorrect, BacklogKept, PTL
===============================================================================
