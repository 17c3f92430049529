------------------------- MODULE CalcSessionProofs -------------------------
(***************************************************************************)
(* What is proved of CalcSession: as long as no client connects while      *)
(* another is served, every session is safe.  The argument follows the     *)
(* bytes: what is in recvmessage's buffer, in the hands of its thread and  *)
(* on its way to it is one sequence, the flow of the connection that is    *)
(* served.  Nothing but its last piece has the END mark, and unless        *)
(* somebody broke off before it is the one request that is not answered.   *)
(***************************************************************************)
EXTENDS CalcSession, Integers, FiniteSetTheorems, SequenceTheorems,
        WellFoundedInduction, TLAPS

Active == {c \in Clients : pc[c] \notin {"none", "done"}}

\* What the server has, or will have, of a client's requests and has not handed out.
Joined(b, p, t, n) == (b \o (IF p = "append" THEN t ELSE <<>>)) \o n
Flow(c) == Joined(buffer, pc[c], tmp[c], net[c])

NoEnd(s) == \A i \in 1 .. Len(s) : ~ HasEnd(s[i])

\* Every piece was sent, and none is there twice.
Sent(s) == /\ s \in Seq(Piece)
           /\ \A i \in 1 .. Len(s) : s[i].req <= asked[s[i].from]
           /\ \A i, j \in 1 .. Len(s) : s[i] = s[j] => i = j

Clean(c) == ~ \E d \in Clients \ {c} : BrokenOff(d)
Answered(c) == asked[c] = Len(answers[c])

\* The types, for functions of the clients.
ShapeInv == /\ conn \in [Clients -> {"off", "on", "closed"}]
            /\ asked \in [Clients -> 0 .. K]
            /\ answers \in [Clients -> Seq(Seq(Piece))]
            /\ net \in [Clients -> Seq(Piece)]
            /\ buffer \in Seq(Piece)
            /\ pc \in [Clients -> {"none", "read", "append", "find", "take", "reply", "done"}]
            /\ tmp \in [Clients -> Seq(Piece)]
            /\ end \in [Clients -> Nat]
            /\ message \in [Clients -> Seq(Piece)]
            /\ down \in BOOLEAN

\* One connection is served at a time; a client has one question open at most.
AloneInv ==
  /\ \A c, d \in Active : c = d
  /\ \A c \in Clients : /\ conn[c] = "off" <=> pc[c] = "none"
                        /\ pc[c] = "none" => asked[c] = 0
                        /\ pc[c] = "done" => conn[c] = "closed"
                        /\ c \notin Active => net[c] = <<>>
                        /\ asked[c] \in {Len(answers[c]), Len(answers[c]) + 1}

\* Between two connections the buffer has the start of a request that broke off.
IdleInv == Active = {} => /\ Sent(buffer) /\ NoEnd(buffer)
                          /\ buffer # <<>> => \E d \in Clients : BrokenOff(d)

\* Where END is, for each point of calserverIO.
Marked(c) == /\ \A i \in 1 .. Len(Flow(c)) : HasEnd(Flow(c)[i]) => i = Len(Flow(c))
             /\ pc[c] = "read" => NoEnd(buffer)
             /\ pc[c] = "take" => end[c] = Len(buffer) /\ buffer # <<>> /\ net[c] = <<>>
             /\ pc[c] = "reply" => buffer = <<>> /\ net[c] = <<>>
             /\ (conn[c] = "on" /\ Answered(c)) => pc[c] = "read" /\ net[c] = <<>> /\ NoEnd(Flow(c))
             /\ (conn[c] = "on" /\ ~ Answered(c) /\ pc[c] # "reply") =>
                  Flow(c) # <<>> /\ HasEnd(Flow(c)[Len(Flow(c))])

\* Unless another client broke off, the flow is the open request.
Exact(c) == Clean(c) =>
              /\ Answered(c) => Flow(c) = <<>>
              /\ (conn[c] = "on" /\ ~ Answered(c)) =>
                   IF pc[c] = "reply" THEN message[c] = Request(c, asked[c])
                                      ELSE Flow(c) = Request(c, asked[c])

FlowInv == \A c \in Active : Sent(Flow(c)) /\ Marked(c) /\ Exact(c)

IInv == ShapeInv /\ AloneInv /\ IdleInv /\ FlowInv /\ AnswersMatch

-------------------------------------------------------------------------------
(* Sequences of pieces. *)

\* Concatenation under a name: the provers do not find the instances of a fact about \o.
Cat(s, r) == s \o r

\* Concatenation is associative.
LEMMA CatAssociative ==
  ASSUME NEW s \in Seq(Piece), NEW t \in Seq(Piece), NEW u \in Seq(Piece)
  PROVE  Cat(Cat(s, t), u) = Cat(s, Cat(t, u))
BY ConcatAssociative DEF Cat

\* The elements of a concatenation.
LEMMA CatIs ==
  ASSUME NEW s \in Seq(Piece), NEW t \in Seq(Piece)
  PROVE  /\ Cat(s, t) \in Seq(Piece) /\ Len(Cat(s, t)) = Len(s) + Len(t)
         /\ \A i \in 1 .. Len(s) + Len(t) : Cat(s, t)[i] = IF i <= Len(s) THEN s[i] ELSE t[i - Len(s)]
BY ConcatProperties DEF Cat

\* What is joined: nothing but what it is joined of, in this order.
LEMMA JoinedIs ==
  ASSUME NEW b \in Seq(Piece), NEW t \in Seq(Piece), NEW n \in Seq(Piece), NEW p
  PROVE  /\ Joined(b, p, t, n) \in Seq(Piece)
         /\ p # "append" => Joined(b, p, t, n) = Cat(b, n)
         /\ p = "append" => Joined(b, p, t, n) = Cat(Cat(b, t), n)
         /\ Len(b) <= Len(Joined(b, p, t, n))
         /\ \A i \in 1 .. Len(b) : Joined(b, p, t, n)[i] = b[i]
<1>1. \A s, u \in Seq(Piece) : /\ s \o u \in Seq(Piece) /\ Len(s) \in Nat /\ Len(s) <= Len(s \o u)
                               /\ \A i \in 1 .. Len(s) : (s \o u)[i] = s[i]
  <2> SUFFICES ASSUME NEW s \in Seq(Piece), NEW u \in Seq(Piece)
               PROVE  /\ s \o u \in Seq(Piece) /\ Len(s) \in Nat /\ Len(s) <= Len(s \o u)
                      /\ \A i \in 1 .. Len(s) : (s \o u)[i] = s[i]
    OBVIOUS
  <2>1. Len(s) \in Nat /\ Len(u) \in Nat
    BY LenProperties
  <2> QED
    BY <2>1, ConcatProperties
<1>2. CASE p = "append"
  <2>1. Joined(b, p, t, n) = (b \o t) \o n
    BY <1>2 DEF Joined
  <2>2. b \o t \in Seq(Piece)
    BY <1>1
  <2>3. /\ Len(b) <= Len(b \o t) /\ Len(b \o t) <= Len((b \o t) \o n) /\ (b \o t) \o n \in Seq(Piece)
        /\ Len(b) \in Nat /\ Len(b \o t) \in Nat /\ Len((b \o t) \o n) \in Nat
    BY <1>1, <2>2
  <2>4. \A i \in 1 .. Len(b) : i \in 1 .. Len(b \o t) /\ ((b \o t) \o n)[i] = b[i]
    BY <1>1, <2>2, <2>3
  <2>5. Len(b) <= Len((b \o t) \o n)
    BY <2>3
  <2> HIDE DEF Joined
  <2> QED
    BY <1>2, <2>1, <2>3, <2>4, <2>5 DEF Cat
<1>3. CASE p # "append"
  <2>1. Joined(b, p, t, n) = b \o n
    <3>1. Joined(b, p, t, n) = (b \o <<>>) \o n
      BY <1>3 DEF Joined
    <3>2. b \o <<>> = b
      BY ConcatEmptySeq
    <3> QED
      BY <3>1, <3>2
  <2> QED
    BY <1>1, <1>3, <2>1 DEF Cat
<1> QED
  BY <1>2, <1>3

\* When nothing is on its way or in hand, it is the buffer.
LEMMA JoinedNone ==
  ASSUME NEW b \in Seq(Piece), NEW t \in Seq(Piece), NEW n, NEW p, p # "append", n = <<>>
  PROVE  Joined(b, p, t, n) = b
<1>1. Joined(b, p, t, n) = (b \o <<>>) \o <<>>
  BY DEF Joined
<1>2. b \o <<>> = b
  BY ConcatEmptySeq
<1> QED
  BY <1>1, <1>2

\* A set of natural numbers that is not empty has a least element.
LEMMA LeastOf == ASSUME NEW S \in SUBSET Nat, S # {} PROVE \E x \in S : \A y \in S : x <= y
<1> DEFINE R == OpToRel(<, Nat)
<1>1. IsWellFoundedOn(R, Nat)
  BY NatLessThanWellFounded, Zenon
<1>2. \A x, y \in Nat : y < x => <<y, x>> \in R
  BY DEF OpToRel
<1> HIDE DEF R
<1>3. PICK x \in S : \A y \in S : ~ (<<y, x>> \in R)
  BY <1>1, WFMin
<1>4. ASSUME NEW y \in S PROVE x <= y
  <2>1. x \in Nat /\ y \in Nat /\ ~ (y < x)
    BY <1>2, <1>3
  <2> QED
    BY <2>1
<1> QED
  BY <1>4

\* buffer.find(END) finds an END, if there is one.
LEMMA Found ==
  ASSUME NEW s \in Seq(Piece)
  PROVE  /\ FindEnd(s) = 0 <=> NoEnd(s)
         /\ FindEnd(s) # 0 => FindEnd(s) \in 1 .. Len(s) /\ HasEnd(s[FindEnd(s)])
         /\ FindEnd(s) \in Nat
<1> DEFINE ends == {i \in 1 .. Len(s) : HasEnd(s[i])}
<1>1. FindEnd(s) = IF ends = {} THEN 0 ELSE CHOOSE i \in ends : \A j \in ends : i <= j
  BY DEF FindEnd
<1>2. ends = {} <=> NoEnd(s)
  BY DEF NoEnd
<1>3. ends \subseteq 1 .. Len(s) /\ ends \in SUBSET Nat /\ \A i \in ends : HasEnd(s[i])
  BY LenProperties
<1> HIDE DEF ends
<1>4. CASE ends # {}
  <2>1. \E i \in ends : \A j \in ends : i <= j
    BY <1>3, <1>4, LeastOf
  <2>2. FindEnd(s) \in ends
    BY <1>1, <1>4, <2>1
  <2>3. FindEnd(s) \in 1 .. Len(s) /\ HasEnd(s[FindEnd(s)])
    BY <1>3, <2>2
  <2> QED
    BY <1>2, <1>4, <2>3, LenProperties
<1> QED
  BY <1>1, <1>2, <1>4

\* There are no more pieces than the clients may send.
LEMMA PiecesBound ==
  ASSUME NEW s \in Seq(Piece), \A i, j \in 1 .. Len(s) : s[i] = s[j] => i = j
  PROVE  Len(s) <= Pieces * K * Cardinality(Clients)
<1> DEFINE parts == (1 .. K) \X (1 .. Pieces)
           all == Clients \X parts
           f == [i \in 1 .. Len(s) |-> <<s[i].from, <<s[i].req, s[i].part>>>>]
<1>1. IsFiniteSet(Clients) /\ K \in Nat /\ Pieces \in Nat /\ Len(s) \in Nat
  BY CalcSessionAssumption, LenProperties
<1>2. \A n \in Nat : IsFiniteSet(1 .. n) /\ Cardinality(1 .. n) = n
  <2> SUFFICES ASSUME NEW n \in Nat PROVE IsFiniteSet(1 .. n) /\ Cardinality(1 .. n) = n
    OBVIOUS
  <2>1. 1 \in Int /\ n \in Int
    OBVIOUS
  <2>2. IsFiniteSet(1 .. n) /\ Cardinality(1 .. n) = IF 1 > n THEN 0 ELSE n - 1 + 1
    BY <2>1, FS_Interval
  <2> QED
    BY <2>2
<1>3. IsFiniteSet(parts) /\ Cardinality(parts) = K * Pieces
  <2>1. IsFiniteSet(1 .. K) /\ IsFiniteSet(1 .. Pieces) /\ Cardinality(1 .. K) = K /\ Cardinality(1 .. Pieces) = Pieces
    BY <1>1, <1>2
  <2> QED
    BY <2>1, FS_Product, ZenonT(30)
<1> HIDE DEF parts
<1>4. IsFiniteSet(all) /\ Cardinality(all) = Cardinality(Clients) * (K * Pieces)
  BY <1>1, <1>3, FS_Product
<1>5. \A i \in 1 .. Len(s) : s[i] \in Piece /\ f[i] \in all
  <2>1. \A i \in 1 .. Len(s) : s[i] \in Piece
    OBVIOUS
  <2>2. \A i \in 1 .. Len(s) : s[i].from \in Clients /\ s[i].req \in 1 .. K /\ s[i].part \in 1 .. Pieces
    BY <2>1 DEF Piece
  <2> QED
    BY <2>1, <2>2 DEF parts
<1>6. \A i, j \in 1 .. Len(s) : f[i] = f[j] => i = j
  <2> SUFFICES ASSUME NEW i \in 1 .. Len(s), NEW j \in 1 .. Len(s), f[i] = f[j] PROVE i = j
    OBVIOUS
  <2>1. s[i].from = s[j].from /\ s[i].req = s[j].req /\ s[i].part = s[j].part
    OBVIOUS
  <2>2. \A p \in Piece : p = [from |-> p.from, req |-> p.req, part |-> p.part]
    BY DEF Piece
  <2>3. s[i] \in Piece /\ s[j] \in Piece
    BY <1>5
  <2>4. s[i] = s[j]
    BY <2>1, <2>2, <2>3
  <2> QED
    BY <2>4
<1>7. f \in [1 .. Len(s) -> all]
  BY <1>5
<1> HIDE DEF f, all
<1>8. f \in Injection(1 .. Len(s), all)
  BY <1>6, <1>7 DEF Injection, IsInjective
<1>9. Len(s) <= Cardinality(Clients) * (K * Pieces)
  <2>1. Cardinality(1 .. Len(s)) <= Cardinality(all)
    BY <1>4, <1>8, FS_Injection
  <2> QED
    BY <1>1, <1>2, <1>4, <2>1
<1>10. Cardinality(Clients) * (K * Pieces) = Pieces * K * Cardinality(Clients)
  <2>1. Cardinality(Clients) \in Nat
    BY <1>1, FS_CardinalityType
  <2> QED
    BY <1>1, <2>1
<1> QED
  BY <1>9, <1>10

\* What is appended to what is on its way is appended to what is joined.
LEMMA JoinedMore ==
  ASSUME NEW b \in Seq(Piece), NEW t \in Seq(Piece), NEW n \in Seq(Piece), NEW r \in Seq(Piece), NEW p
  PROVE  Joined(b, p, t, Cat(n, r)) = Cat(Joined(b, p, t, n), r)
<1> DEFINE x == b \o (IF p = "append" THEN t ELSE <<>>)
<1>1. x \in Seq(Piece)
  <2>1. <<>> \in Seq(Piece)
    BY EmptySeq
  <2>2. (IF p = "append" THEN t ELSE <<>>) \in Seq(Piece)
    BY <2>1
  <2> QED
    BY <2>2, ConcatProperties
<1>2. Joined(b, p, t, n \o r) = x \o (n \o r) /\ Joined(b, p, t, n) = x \o n
  BY DEF Joined
<1> HIDE DEF x
<1>3. (x \o n) \o r = x \o (n \o r)
  BY <1>1, ConcatAssociative, SMTT(30)
<1> QED
  BY <1>2, <1>3 DEF Cat

\* The pieces of a request, of which the last one has END.
LEMMA RequestIs ==
  ASSUME NEW c \in Clients, NEW k \in 1 .. K
  PROVE  /\ Request(c, k) \in Seq(Piece) /\ Len(Request(c, k)) = Pieces
         /\ \A i \in 1 .. Pieces : /\ Request(c, k)[i].from = c /\ Request(c, k)[i].req = k
                                   /\ Request(c, k)[i].part = i
                                   /\ HasEnd(Request(c, k)[i]) <=> i = Pieces
<1>1. Pieces \in Nat
  BY CalcSessionAssumption
<1>2. Request(c, k) \in [1 .. Pieces -> Piece] /\ DOMAIN Request(c, k) = 1 .. Pieces
  BY DEF Request, Piece
<1>3. Request(c, k) \in Seq(Piece)
  BY <1>1, <1>2, SeqDef
<1>4. Len(Request(c, k)) = Pieces
  BY <1>1, <1>2, <1>3, LenProperties
<1>5. \A i \in 1 .. Pieces : Request(c, k)[i] = [from |-> c, req |-> k, part |-> i]
  BY DEF Request
<1> QED
  BY <1>3, <1>4, <1>5 DEF HasEnd

-------------------------------------------------------------------------------
(* The steps. *)

\* The clients that are not served have not changed.
Others(c) == \A d \in Clients \ {c} :
               /\ pc[d] \in {"none", "done"} /\ pc'[d] = pc[d]
               /\ conn'[d] = conn[d] /\ asked'[d] = asked[d]
               /\ answers'[d] = answers[d] /\ net'[d] = net[d]

\* With one connection served it is enough to look at that one.
LEMMA OneAtATime ==
  ASSUME IInv, ShapeInv', NEW c \in Clients, Others(c),
         conn'[c] = "off" <=> pc'[c] = "none", pc'[c] # "none", pc'[c] = "done" => conn'[c] = "closed",
         pc'[c] = "done" => net'[c] = <<>>,
         asked'[c] \in {Len(answers'[c]), Len(answers'[c]) + 1},
         BrokenOff(c) => BrokenOff(c)',
         pc'[c] # "done" => Sent(Flow(c))' /\ Marked(c)' /\ Exact(c)',
         pc'[c] = "done" => /\ Sent(buffer)' /\ NoEnd(buffer)'
                            /\ buffer' # <<>> => BrokenOff(c)' \/ \E d \in Clients \ {c} : BrokenOff(d),
         \A k \in 1 .. Len(answers'[c]) :
           /\ k <= asked'[c]
           /\ answers'[c][k] = Request(c, k) \/ \E d \in Clients \ {c} : BrokenOff(d)
  PROVE  IInv'
<1>0. /\ AloneInv /\ AnswersMatch
      /\ \A d \in Clients \ {c} : /\ pc[d] \in {"none", "done"} /\ pc'[d] = pc[d]
                                  /\ conn'[d] = conn[d] /\ asked'[d] = asked[d]
                                  /\ answers'[d] = answers[d] /\ net'[d] = net[d]
  BY DEF IInv, Others
<1>1. \A d \in Clients \ {c} : BrokenOff(d)' <=> BrokenOff(d)
  BY <1>0 DEF BrokenOff
<1>2. \A d \in Clients : BrokenOff(d) => BrokenOff(d)'
  BY <1>1
<1>3. Active' \subseteq {c} /\ (c \in Active' <=> pc'[c] # "done")
  BY <1>0 DEF Active
<1>4. AloneInv'
  <2>1. ASSUME NEW d \in Clients
        PROVE  /\ conn'[d] = "off" <=> pc'[d] = "none"
               /\ pc'[d] = "none" => asked'[d] = 0
               /\ pc'[d] = "done" => conn'[d] = "closed"
               /\ d \notin Active' => net'[d] = <<>>
               /\ asked'[d] \in {Len(answers'[d]), Len(answers'[d]) + 1}
    <3>1. CASE d = c
      BY <1>3, <3>1
    <3>2. CASE d # c
      <4>1. d \notin Active
        BY <1>0, <3>2 DEF Active
      <4> QED
        BY <1>0, <3>2, <4>1 DEF AloneInv
    <3> QED
      BY <3>1, <3>2
  <2> QED
    BY <1>3, <2>1 DEF AloneInv
<1>5. IdleInv'
  <2> SUFFICES ASSUME Active' = {}
               PROVE  /\ Sent(buffer)' /\ NoEnd(buffer)'
                      /\ buffer' # <<>> => \E d \in Clients : BrokenOff(d)'
    BY DEF IdleInv
  <2>1. pc'[c] = "done"
    BY <1>3
  <2> QED
    BY <1>2, <2>1
<1>6. FlowInv'
  BY <1>3 DEF FlowInv
<1>7. AnswersMatch'
  <2> SUFFICES ASSUME NEW d \in Clients, NEW k \in 1 .. Len(answers'[d])
               PROVE  /\ k <= asked'[d]
                      /\ answers'[d][k] = Request(d, k) \/ \E e \in Clients \ {d} : BrokenOff(e)'
    BY DEF AnswersMatch, Request
  <2>1. CASE d = c
    BY <1>2, <2>1
  <2>2. CASE d # c
    BY <1>0, <1>2, <2>2 DEF AnswersMatch
  <2> QED
    BY <2>1, <2>2
<1> QED
  BY <1>4, <1>5, <1>6, <1>7 DEF IInv

\* The client that is served, and what is known of it.
LEMMA Served ==
  ASSUME IInv, NEW c \in Clients, c \in Active
  PROVE  /\ ShapeInv /\ Sent(Flow(c)) /\ Marked(c) /\ Exact(c)
         /\ pc[c] \in {"read", "append", "find", "take", "reply"} /\ conn[c] \in {"on", "closed"}
         /\ asked[c] \in {Len(answers[c]), Len(answers[c]) + 1} /\ asked[c] \in 0 .. K
         /\ \A d \in Clients \ {c} : pc[d] \in {"none", "done"}
         /\ \A k \in 1 .. Len(answers[c]) :
              /\ k <= asked[c]
              /\ answers[c][k] = Request(c, k) \/ \E d \in Clients \ {c} : BrokenOff(d)
         /\ buffer \in Seq(Piece) /\ tmp[c] \in Seq(Piece) /\ net[c] \in Seq(Piece)
         /\ answers[c] \in Seq(Seq(Piece)) /\ message[c] \in Seq(Piece) /\ Len(answers[c]) \in Nat
         /\ Flow(c) \in Seq(Piece)
<1>1. ShapeInv /\ AloneInv /\ FlowInv /\ AnswersMatch
  BY DEF IInv
<1>2. /\ pc[c] \in {"read", "append", "find", "take", "reply"}
      /\ buffer \in Seq(Piece) /\ tmp[c] \in Seq(Piece) /\ net[c] \in Seq(Piece)
      /\ answers[c] \in Seq(Seq(Piece)) /\ message[c] \in Seq(Piece) /\ asked[c] \in 0 .. K
  BY <1>1 DEF ShapeInv, Active
<1>3. conn[c] \in {"on", "closed"}
  BY <1>1, <1>2 DEF ShapeInv, AloneInv
<1>4. \A d \in Clients \ {c} : pc[d] \in {"none", "done"}
  BY <1>1 DEF AloneInv, Active
<1>5. Sent(Flow(c)) /\ Marked(c) /\ Exact(c) /\ Flow(c) \in Seq(Piece)
  BY <1>1 DEF FlowInv, Sent
<1>6. \A k \in 1 .. Len(answers[c]) :
        /\ k <= asked[c]
        /\ answers[c][k] = Request(c, k) \/ \E d \in Clients \ {c} : BrokenOff(d)
  BY <1>1 DEF AnswersMatch
<1>7. asked[c] \in {Len(answers[c]), Len(answers[c]) + 1}
  BY <1>1 DEF AloneInv
<1> QED
  BY <1>1, <1>2, <1>3, <1>4, <1>5, <1>6, <1>7, LenProperties

\* A step of the client that is served, or of its thread, that leaves the flow as it is.
LEMMA SameFlow ==
  ASSUME NEW c \in Clients, Others(c), Flow(c)' = Flow(c), Sent(Flow(c)), asked' = asked
  PROVE  Sent(Flow(c))' /\ (Clean(c)' <=> Clean(c))
<1>1. Sent(Flow(c))'
  BY DEF Sent
<1>2. \A d \in Clients \ {c} : BrokenOff(d)' <=> BrokenOff(d)
  BY DEF Others, BrokenOff
<1> QED
  BY <1>1, <1>2 DEF Clean

\* The client asks: its flow, in which no message ends, gets one that does.
LEMMA AskIInv == ASSUME IInv, NEW c \in Clients, Ask(c) PROVE IInv'
<1> DEFINE R == Request(c, asked[c] + 1)
<1>1. /\ conn[c] = "on" /\ asked[c] < K /\ Len(answers[c]) = asked[c]
      /\ asked' = [asked EXCEPT ![c] = asked[c] + 1]
      /\ net' = [net EXCEPT ![c] = net[c] \o Request(c, asked'[c])]
      /\ UNCHANGED <<conn, answers, buffer, pc, tmp, end, message, down>>
  BY DEF Ask
<1>2. c \in Active
  BY <1>1 DEF IInv, ShapeInv, AloneInv, Active
<1>3. /\ ShapeInv /\ Sent(Flow(c)) /\ Marked(c) /\ Exact(c)
      /\ asked[c] \in 0 .. K /\ K \in Nat /\ Pieces \in Nat \ {0} /\ Len(answers[c]) \in Nat
      /\ \A d \in Clients \ {c} : pc[d] \in {"none", "done"}
      /\ \A k \in 1 .. Len(answers[c]) :
           /\ k <= asked[c]
           /\ answers[c][k] = Request(c, k) \/ \E d \in Clients \ {c} : BrokenOff(d)
      /\ buffer \in Seq(Piece) /\ tmp[c] \in Seq(Piece) /\ net[c] \in Seq(Piece) /\ Flow(c) \in Seq(Piece)
  BY <1>2, Served, CalcSessionAssumption
<1>4. pc[c] = "read" /\ NoEnd(Flow(c)) /\ Answered(c)
  BY <1>1, <1>3 DEF Marked, Answered
<1>5. asked'[c] = asked[c] + 1 /\ \A d \in Clients \ {c} : asked'[d] = asked[d]
  BY <1>1, <1>3 DEF ShapeInv
<1>6. net'[c] = net[c] \o R /\ \A d \in Clients \ {c} : net'[d] = net[d]
  BY <1>1, <1>3, <1>5 DEF ShapeInv
<1>7. /\ R \in Seq(Piece) /\ Len(R) = Pieces /\ HasEnd(R[Pieces])
      /\ \A i \in 1 .. Pieces : /\ R[i].from = c /\ R[i].req = asked[c] + 1 /\ R[i].part = i
                                /\ (HasEnd(R[i]) => i = Pieces)
  <2>1. asked[c] + 1 \in 1 .. K /\ Pieces \in 1 .. Pieces
    BY <1>1, <1>3
  <2> QED
    BY <2>1, RequestIs
<1> HIDE DEF R
<1>8. Flow(c)' = Flow(c) \o R
  <2>1. Flow(c) = Joined(buffer, pc[c], tmp[c], net[c]) /\ Flow(c)' = Joined(buffer, pc[c], tmp[c], net[c] \o R)
    BY <1>1, <1>6 DEF Flow
  <2>2. buffer \in Seq(Piece) /\ tmp[c] \in Seq(Piece) /\ net[c] \in Seq(Piece) /\ R \in Seq(Piece)
    BY <1>3, <1>7
  <2>3. Joined(buffer, pc[c], tmp[c], Cat(net[c], R)) = Cat(Joined(buffer, pc[c], tmp[c], net[c]), R)
    BY <2>2, JoinedMore
  <2> QED
    BY <2>1, <2>3 DEF Cat
<1>9. PICK n \in Nat : n = Len(Flow(c))
  BY <1>3, LenProperties
<1>10. /\ Flow(c)' \in Seq(Piece) /\ Len(Flow(c)') = n + Pieces
       /\ \A i \in 1 .. n : Flow(c)'[i] = Flow(c)[i]
       /\ \A i \in n + 1 .. n + Pieces : Flow(c)'[i] = R[i - n] /\ i - n \in 1 .. Pieces
  <2>0. Flow(c) \in Seq(Piece) /\ R \in Seq(Piece) /\ Len(R) = Pieces
    BY <1>3, <1>7
  <2>1. Flow(c)' = Cat(Flow(c), R)
    BY <1>8 DEF Cat
  <2>2. /\ Cat(Flow(c), R) \in Seq(Piece) /\ Len(Cat(Flow(c), R)) = n + Pieces
        /\ \A i \in 1 .. n + Pieces : Cat(Flow(c), R)[i] = IF i <= n THEN Flow(c)[i] ELSE R[i - n]
    BY <1>9, <2>0, CatIs
  <2>3. \A i \in n + 1 .. n + Pieces : i \in 1 .. n + Pieces /\ ~ (i <= n) /\ i - n \in 1 .. Pieces
    BY <1>3
  <2>4. \A i \in 1 .. n : i \in 1 .. n + Pieces /\ i <= n
    BY <1>3
  <2> QED
    BY <2>1, <2>2, <2>3, <2>4
<1>11. \A i \in 1 .. n : Flow(c)[i] \in Piece /\ Flow(c)[i].req <= asked[Flow(c)[i].from]
  BY <1>3, <1>9 DEF Sent
<1>12. Sent(Flow(c))'
  <2>1. ASSUME NEW i \in 1 .. n + Pieces PROVE Flow(c)'[i].req <= asked'[Flow(c)'[i].from]
    <3>1. CASE i \in 1 .. n
      <4>1. Flow(c)'[i] = Flow(c)[i] /\ Flow(c)[i].from \in Clients /\ Flow(c)[i].req \in Nat
        BY <1>10, <1>11, <3>1 DEF Piece
      <4>2. \A d \in Clients : asked[d] \in Nat /\ asked'[d] \in Nat /\ asked[d] <= asked'[d]
        <5>1. \A d \in Clients : asked[d] \in Nat
          BY <1>3 DEF ShapeInv
        <5> QED
          BY <1>5, <5>1
      <4>3. Flow(c)[i].req <= asked[Flow(c)[i].from]
        BY <1>11, <3>1
      <4> QED
        BY <4>1, <4>2, <4>3
    <3>2. CASE i \in n + 1 .. n + Pieces
      <4>1. Flow(c)'[i] = R[i - n] /\ i - n \in 1 .. Pieces
        BY <1>10, <3>2
      <4>2. Flow(c)'[i].from = c /\ Flow(c)'[i].req = asked[c] + 1 /\ asked[c] + 1 \in Int
        BY <1>3, <1>7, <4>1
      <4> QED
        BY <1>5, <4>2
    <3> QED
      BY <3>1, <3>2
  <2>2. ASSUME NEW i \in 1 .. n + Pieces, NEW j \in 1 .. n + Pieces, Flow(c)'[i] = Flow(c)'[j] PROVE i = j
    <3>0. \A x \in 1 .. n : \A y \in n + 1 .. n + Pieces : Flow(c)'[x] # Flow(c)'[y]
      <4> SUFFICES ASSUME NEW x \in 1 .. n, NEW y \in n + 1 .. n + Pieces, Flow(c)'[x] = Flow(c)'[y] PROVE FALSE
        OBVIOUS
      <4>1. Flow(c)[x] = R[y - n] /\ y - n \in 1 .. Pieces
        BY <1>10
      <4>2. Flow(c)[x].from = c /\ Flow(c)[x].req = asked[c] + 1
        BY <1>7, <4>1
      <4> QED
        BY <1>3, <1>11, <4>2
    <3>1. CASE i \in 1 .. n /\ j \in 1 .. n
      <4>1. Flow(c)[i] = Flow(c)[j]
        BY <1>10, <2>2, <3>1
      <4> QED
        BY <1>3, <1>9, <3>1, <4>1 DEF Sent
    <3>2. CASE i \in n + 1 .. n + Pieces /\ j \in n + 1 .. n + Pieces
      <4>1. R[i - n] = R[j - n] /\ i - n \in 1 .. Pieces /\ j - n \in 1 .. Pieces
        BY <1>10, <2>2, <3>2
      <4>2. i - n = j - n
        BY <1>7, <4>1
      <4> QED
        BY <4>2
    <3> QED
      BY <2>2, <3>0, <3>1, <3>2
  <2> QED
    BY <1>10, <2>1, <2>2 DEF Sent
<1>13. Marked(c)'
  <2>1. ASSUME NEW i \in 1 .. n + Pieces, HasEnd(Flow(c)'[i]) PROVE i = n + Pieces
    <3>1. CASE i \in 1 .. n
      BY <1>4, <1>9, <1>10, <2>1, <3>1 DEF NoEnd
    <3>2. CASE i \in n + 1 .. n + Pieces
      <4>1. i - n = Pieces
        BY <1>7, <1>10, <2>1, <3>2
      <4> QED
        BY <4>1
    <3> QED
      BY <3>1, <3>2
  <2>2. ~ Answered(c)'
    BY <1>1, <1>3, <1>5 DEF Answered
  <2>3. n + Pieces \in n + 1 .. n + Pieces /\ n + Pieces # 0 /\ (n + Pieces) - n = Pieces
    BY <1>3
  <2>4. Flow(c)' # <<>> /\ HasEnd(Flow(c)'[n + Pieces])
    <3>1. Flow(c)'[n + Pieces] = R[Pieces] /\ Len(Flow(c)') # 0
      BY <1>10, <2>3
    <3> QED
      BY <1>7, <3>1, EmptySeq
  <2>5. NoEnd(buffer)'
    BY <1>1, <1>3, <1>4 DEF Marked, NoEnd
  <2>6. pc'[c] = "read"
    BY <1>1, <1>4
  <2> QED
    BY <1>10, <2>1, <2>2, <2>4, <2>5, <2>6 DEF Marked
<1>14. Exact(c)'
  <2>1. Clean(c)' <=> Clean(c)
    BY <1>1, <1>5 DEF Clean, BrokenOff
  <2>2. ~ Answered(c)'
    BY <1>1, <1>3, <1>5 DEF Answered
  <2>3. Clean(c) => Flow(c)' = R
    <3>1. Clean(c) => Flow(c) = <<>>
      BY <1>3, <1>4 DEF Exact
    <3> QED
      BY <1>7, <1>8, <3>1, ConcatEmptySeq
  <2>4. R = Request(c, asked'[c])
    BY <1>5 DEF R
  <2>5. pc'[c] # "reply"
    BY <1>1, <1>4
  <2> QED
    BY <2>1, <2>2, <2>3, <2>4, <2>5 DEF Exact, Request
<1>15. ShapeInv'
  <2>1. asked' \in [Clients -> 0 .. K]
    <3>1. asked[c] + 1 \in 0 .. K
      BY <1>1, <1>3
    <3> QED
      BY <1>1, <1>3, <3>1 DEF ShapeInv
  <2>2. net' \in [Clients -> Seq(Piece)]
    <3>1. net' = [net EXCEPT ![c] = net[c] \o R]
      BY <1>1, <1>5 DEF R
    <3>2. net[c] \o R \in Seq(Piece)
      BY <1>3, <1>7, ConcatProperties
    <3> QED
      BY <1>3, <3>1, <3>2 DEF ShapeInv
  <2> QED
    BY <1>1, <1>3, <2>1, <2>2 DEF ShapeInv
<1>16. Others(c)
  BY <1>1, <1>3, <1>5, <1>6 DEF Others
<1>17. ~ BrokenOff(c) /\ conn'[c] # "off" /\ pc'[c] = "read"
       /\ asked'[c] \in {Len(answers'[c]), Len(answers'[c]) + 1}
       /\ \A k \in 1 .. Len(answers'[c]) :
            /\ k <= asked'[c]
            /\ answers'[c][k] = Request(c, k) \/ \E d \in Clients \ {c} : BrokenOff(d)
  BY <1>1, <1>3, <1>4, <1>5 DEF BrokenOff
<1> QED
  BY <1>12, <1>13, <1>14, <1>15, <1>16, <1>17, OneAtATime

\* The client ends between two requests: it has got all its answers.
LEMMA LeaveIInv == ASSUME IInv, NEW c \in Clients, Leave(c) PROVE IInv'
<1>1. /\ conn[c] = "on" /\ Len(answers[c]) = asked[c] /\ conn' = [conn EXCEPT ![c] = "closed"]
      /\ UNCHANGED <<asked, answers, net, buffer, pc, tmp, end, message, down>>
  BY DEF Leave
<1>2. c \in Active
  BY <1>1 DEF IInv, ShapeInv, AloneInv, Active
<1>3. /\ ShapeInv /\ Sent(Flow(c)) /\ Marked(c) /\ Exact(c) /\ Answered(c) /\ pc[c] = "read"
      /\ \A d \in Clients \ {c} : pc[d] \in {"none", "done"}
      /\ \A k \in 1 .. Len(answers[c]) :
           /\ k <= asked[c]
           /\ answers[c][k] = Request(c, k) \/ \E d \in Clients \ {c} : BrokenOff(d)
  BY <1>1, <1>2, Served DEF Answered, Marked
<1>4. ShapeInv' /\ conn'[c] = "closed" /\ \A d \in Clients \ {c} : conn'[d] = conn[d]
  BY <1>1, <1>3 DEF ShapeInv
<1>5. Others(c)
  BY <1>1, <1>3, <1>4 DEF Others
<1>6. Flow(c)' = Flow(c) /\ Answered(c)' /\ (NoEnd(buffer)' <=> NoEnd(buffer))
  BY <1>1, <1>3 DEF Flow, Answered, NoEnd
<1>7. Sent(Flow(c))' /\ (Clean(c)' <=> Clean(c))
  BY <1>1, <1>3, <1>5, <1>6, SameFlow
<1>8. Marked(c)' /\ Exact(c)'
  <2>1. Marked(c)'
    BY <1>1, <1>3, <1>4, <1>6 DEF Marked
  <2>2. Exact(c)'
    BY <1>3, <1>4, <1>6, <1>7 DEF Exact
  <2> QED
    BY <2>1, <2>2
<1>9. ~ BrokenOff(c) /\ pc'[c] = "read" /\ asked'[c] \in {Len(answers'[c]), Len(answers'[c]) + 1}
  BY <1>1, <1>3 DEF BrokenOff
<1> QED
  BY <1>1, <1>3, <1>4, <1>5, <1>7, <1>8, <1>9, OneAtATime

\* The connection breaks: what is left of the flow is its beginning.
LEMMA BreakIInv == ASSUME IInv, NEW c \in Clients, Break(c) PROVE IInv'
<1>1. /\ conn[c] = "on" /\ conn' = [conn EXCEPT ![c] = "closed"]
      /\ UNCHANGED <<asked, answers, buffer, pc, tmp, end, message, down>>
      /\ \E n \in 0 .. Len(net[c]) : net' = [net EXCEPT ![c] = SubSeq(net[c], 1, n)]
  BY DEF Break
<1>2. c \in Active
  BY <1>1 DEF IInv, ShapeInv, AloneInv, Active
<1>3. /\ ShapeInv /\ Sent(Flow(c)) /\ Marked(c) /\ Exact(c)
      /\ pc[c] \in {"read", "append", "find", "take", "reply"}
      /\ asked[c] \in {Len(answers[c]), Len(answers[c]) + 1} /\ Len(answers[c]) \in Nat
      /\ \A d \in Clients \ {c} : pc[d] \in {"none", "done"}
      /\ \A k \in 1 .. Len(answers[c]) :
           /\ k <= asked[c]
           /\ answers[c][k] = Request(c, k) \/ \E d \in Clients \ {c} : BrokenOff(d)
      /\ buffer \in Seq(Piece) /\ tmp[c] \in Seq(Piece) /\ net[c] \in Seq(Piece) /\ Flow(c) \in Seq(Piece)
  BY <1>2, Served
<1>4. PICK m \in 0 .. Len(net[c]) : net' = [net EXCEPT ![c] = SubSeq(net[c], 1, m)]
  BY <1>1
<1> DEFINE kept == SubSeq(net[c], 1, m)
           lost == SubSeq(net[c], m + 1, Len(net[c]))
<1>5. kept \in Seq(Piece) /\ lost \in Seq(Piece) /\ kept \o lost = net[c]
  <2>1. /\ 1 \in 1 .. Len(net[c]) + 1 /\ m \in 1 - 1 .. Len(net[c]) /\ Len(net[c]) \in m .. Len(net[c])
    BY <1>3, LenProperties
  <2>2. SubSeq(net[c], 1, Len(net[c])) = net[c]
    BY <1>3, SubSeqFull
  <2>3. kept \o lost = net[c]
    BY <1>3, <2>1, <2>2, ConcatAdjacentSubSeq
  <2>4. kept \in Seq(Piece) /\ lost \in Seq(Piece)
    <3>1. (\A i \in 1 .. m : net[c][i] \in Piece) /\ \A i \in m + 1 .. Len(net[c]) : net[c][i] \in Piece
      BY <1>3, <2>1
    <3>2. m \in Int /\ Len(net[c]) \in Int /\ m + 1 \in Int
      BY <2>1
    <3> QED
      BY <3>1, <3>2, SubSeqProperties
  <2> QED
    BY <2>3, <2>4
<1>6. net'[c] = kept /\ \A d \in Clients \ {c} : net'[d] = net[d]
  BY <1>3, <1>4 DEF ShapeInv
<1> HIDE DEF kept, lost
<1>7. Flow(c)' \in Seq(Piece) /\ Flow(c) = Flow(c)' \o lost
  <2>1. Flow(c) = Joined(buffer, pc[c], tmp[c], net[c]) /\ Flow(c)' = Joined(buffer, pc[c], tmp[c], kept)
    BY <1>1, <1>6 DEF Flow
  <2>2. buffer \in Seq(Piece) /\ tmp[c] \in Seq(Piece) /\ kept \in Seq(Piece) /\ lost \in Seq(Piece)
    BY <1>3, <1>5
  <2>3. Flow(c) = Joined(buffer, pc[c], tmp[c], kept \o lost)
    BY <1>5, <2>1
  <2>4. Joined(buffer, pc[c], tmp[c], Cat(kept, lost)) = Cat(Joined(buffer, pc[c], tmp[c], kept), lost)
    BY <2>2, JoinedMore
  <2>5. Joined(buffer, pc[c], tmp[c], kept) \in Seq(Piece)
    BY <2>2, JoinedIs
  <2> QED
    BY <2>1, <2>3, <2>4, <2>5 DEF Cat
<1>8. PICK a \in Nat : a = Len(Flow(c)')
  BY <1>7, LenProperties
<1>9. PICK b \in Nat : b = Len(Flow(c))
  BY <1>3, LenProperties
<1>10. a <= b /\ \A i \in 1 .. a : Flow(c)'[i] = Flow(c)[i] /\ i \in 1 .. b
  <2>1. Len(lost) \in Nat /\ b = a + Len(lost)
    BY <1>5, <1>7, <1>8, <1>9, LenProperties, ConcatProperties
  <2>2. \A i \in 1 .. a + Len(lost) : Flow(c)[i] = IF i <= a THEN Flow(c)'[i] ELSE lost[i - a]
    BY <1>5, <1>7, <1>8, ConcatProperties
  <2> QED
    BY <2>1, <2>2
<1>11. Sent(Flow(c))'
  BY <1>1, <1>3, <1>7, <1>8, <1>9, <1>10 DEF Sent
<1>12. ShapeInv' /\ conn'[c] = "closed" /\ \A d \in Clients \ {c} : conn'[d] = conn[d]
  BY <1>1, <1>3, <1>4, <1>5 DEF ShapeInv, kept
<1>13. Others(c)
  BY <1>1, <1>3, <1>6, <1>12 DEF Others
<1>14. net[c] = <<>> => net'[c] = <<>>
  <2>1. kept \o lost = <<>> => kept = <<>>
    BY <1>5, ConcatEqualIffEmpty
  <2> QED
    BY <1>5, <1>6, <2>1
<1>15. Marked(c)'
  <2>1. \A i \in 1 .. a : HasEnd(Flow(c)'[i]) => i = a
    BY <1>3, <1>9, <1>10 DEF Marked
  <2>2. NoEnd(buffer)' <=> NoEnd(buffer)
    BY <1>1 DEF NoEnd
  <2> QED
    BY <1>1, <1>3, <1>8, <1>12, <1>14, <2>1, <2>2 DEF Marked
<1>16. Exact(c)'
  <2>1. Clean(c)' <=> Clean(c)
    BY <1>1, <1>12 DEF Clean, BrokenOff
  <2>2. Answered(c)' <=> Answered(c)
    BY <1>1 DEF Answered
  <2>3. Flow(c) = <<>> => Flow(c)' = <<>>
    <3>1. Flow(c)' \o lost = <<>> => Flow(c)' = <<>>
      BY <1>5, <1>7, ConcatEqualIffEmpty
    <3> QED
      BY <1>7, <3>1
  <2> QED
    BY <1>3, <1>12, <2>1, <2>2, <2>3 DEF Exact
<1>17. ~ BrokenOff(c) /\ pc'[c] \notin {"none", "done"} /\ asked'[c] \in {Len(answers'[c]), Len(answers'[c]) + 1}
  BY <1>1, <1>3 DEF BrokenOff
<1> QED
  BY <1>1, <1>3, <1>11, <1>12, <1>13, <1>15, <1>16, <1>17, OneAtATime

\* A connection begins with what the ones before left: nothing, unless one broke off.
LEMMA ConnectIInv == ASSUME ~ Overlap, IInv, NEW c \in Clients, Connect(c) PROVE IInv'
<1>1. /\ \A d \in Clients : pc[d] \in {"none", "done"}
      /\ conn[c] = "off" /\ pc[c] = "none" /\ pc' = [pc EXCEPT ![c] = "read"]
      /\ conn' = [conn EXCEPT ![c] = "on"]
      /\ UNCHANGED <<asked, answers, net, buffer, tmp, end, message, down>>
  BY DEF Connect, Goto
<1>2. /\ ShapeInv /\ Active = {} /\ Sent(buffer) /\ NoEnd(buffer)
      /\ buffer # <<>> => \E d \in Clients : BrokenOff(d)
  BY <1>1 DEF IInv, IdleInv, Active
<1>3. /\ asked[c] = 0 /\ net[c] = <<>> /\ asked[c] \in {Len(answers[c]), Len(answers[c]) + 1}
      /\ \A k \in 1 .. Len(answers[c]) :
           /\ k <= asked[c]
           /\ answers[c][k] = Request(c, k) \/ \E d \in Clients \ {c} : BrokenOff(d)
  BY <1>1, <1>2 DEF IInv, AloneInv, AnswersMatch
<1>4. buffer \in Seq(Piece) /\ tmp[c] \in Seq(Piece) /\ Len(answers[c]) \in Nat
  <2>1. answers[c] \in Seq(Seq(Piece)) /\ buffer \in Seq(Piece) /\ tmp[c] \in Seq(Piece)
    BY <1>2 DEF ShapeInv
  <2> QED
    BY <2>1, LenProperties
<1>5. Answered(c)'
  BY <1>1, <1>3, <1>4 DEF Answered
<1>6. /\ pc'[c] = "read" /\ conn'[c] = "on"
      /\ \A d \in Clients \ {c} : pc'[d] = pc[d] /\ conn'[d] = conn[d]
  BY <1>1, <1>2 DEF ShapeInv
<1>7. ShapeInv' /\ Others(c)
  <2>1. ShapeInv'
    BY <1>1, <1>2 DEF ShapeInv
  <2> QED
    BY <1>1, <1>6, <2>1 DEF Others
<1>8. Flow(c)' = buffer
  <2>1. Flow(c)' = Joined(buffer, "read", tmp[c], net[c])
    BY <1>1, <1>6 DEF Flow
  <2>2. net[c] \in Seq(Piece) /\ net[c] = <<>> /\ "read" # "append"
    BY <1>3, EmptySeq
  <2>3. Joined(buffer, "read", tmp[c], net[c]) = buffer
    BY <1>4, <2>2, JoinedNone
  <2> QED
    BY <2>1, <2>3
<1>9. Sent(Flow(c))' /\ (NoEnd(Flow(c))' <=> NoEnd(buffer)) /\ (NoEnd(buffer)' <=> NoEnd(buffer))
  BY <1>1, <1>2, <1>8 DEF Sent, NoEnd
<1>10. Marked(c)'
  <2>1. \A i \in 1 .. Len(Flow(c)') : ~ HasEnd(Flow(c)'[i])
    BY <1>2, <1>8 DEF NoEnd
  <2> QED
    BY <1>1, <1>2, <1>3, <1>5, <1>6, <1>9, <2>1 DEF Marked
<1>11. Exact(c)'
  <2>1. Clean(c)' => ~ \E d \in Clients : BrokenOff(d)
    BY <1>1, <1>6 DEF Clean, BrokenOff
  <2> QED
    BY <1>2, <1>5, <1>8, <2>1 DEF Exact
<1>12. ~ BrokenOff(c) /\ asked'[c] \in {Len(answers'[c]), Len(answers'[c]) + 1}
  BY <1>1, <1>3 DEF BrokenOff
<1> QED
  BY <1>1, <1>3, <1>6, <1>7, <1>9, <1>10, <1>11, <1>12, OneAtATime

\* A read takes the first pieces on their way in hand.
LEMMA ReadIInv == ASSUME IInv, NEW c \in Clients, Read(c) PROVE IInv'
<1>1. /\ pc[c] = "read" /\ pc' = [pc EXCEPT ![c] = "append"]
      /\ \E n \in 1 .. Len(net[c]) :
           /\ tmp' = [tmp EXCEPT ![c] = SubSeq(net[c], 1, n)]
           /\ net' = [net EXCEPT ![c] = SubSeq(net[c], n + 1, Len(net[c]))]
      /\ UNCHANGED <<conn, asked, answers, buffer, end, message, down>>
  BY DEF Read, Goto
<1>2. c \in Active
  BY <1>1 DEF Active
<1>3. /\ ShapeInv /\ Sent(Flow(c)) /\ Marked(c) /\ Exact(c) /\ conn[c] \in {"on", "closed"}
      /\ asked[c] \in {Len(answers[c]), Len(answers[c]) + 1}
      /\ \A d \in Clients \ {c} : pc[d] \in {"none", "done"}
      /\ \A k \in 1 .. Len(answers[c]) :
           /\ k <= asked[c]
           /\ answers[c][k] = Request(c, k) \/ \E d \in Clients \ {c} : BrokenOff(d)
      /\ buffer \in Seq(Piece) /\ tmp[c] \in Seq(Piece) /\ net[c] \in Seq(Piece) /\ Flow(c) \in Seq(Piece)
  BY <1>2, Served
<1>4. PICK n \in 1 .. Len(net[c]) : /\ tmp' = [tmp EXCEPT ![c] = SubSeq(net[c], 1, n)]
                                    /\ net' = [net EXCEPT ![c] = SubSeq(net[c], n + 1, Len(net[c]))]
  BY <1>1
<1> DEFINE one == SubSeq(net[c], 1, n)
           rest == SubSeq(net[c], n + 1, Len(net[c]))
<1>5. one \in Seq(Piece) /\ rest \in Seq(Piece) /\ Cat(one, rest) = net[c] /\ one # <<>>
  <2>1. /\ 1 \in 1 .. Len(net[c]) + 1 /\ n \in 1 - 1 .. Len(net[c]) /\ Len(net[c]) \in n .. Len(net[c])
    BY <1>3, LenProperties
  <2>2. SubSeq(net[c], 1, Len(net[c])) = net[c]
    BY <1>3, SubSeqFull
  <2>3. one \o rest = net[c]
    BY <1>3, <2>1, <2>2, ConcatAdjacentSubSeq
  <2>4. one \in Seq(Piece) /\ rest \in Seq(Piece) /\ Len(one) = n
    <3>1. (\A i \in 1 .. n : net[c][i] \in Piece) /\ \A i \in n + 1 .. Len(net[c]) : net[c][i] \in Piece
      BY <1>3, <2>1
    <3>2. n \in Int /\ Len(net[c]) \in Int /\ n + 1 \in Int /\ 1 <= n
      BY <2>1
    <3> QED
      BY <3>1, <3>2, SubSeqProperties
  <2>5. one # <<>>
    BY <2>1, <2>4, EmptySeq
  <2> QED
    BY <2>3, <2>4, <2>5 DEF Cat
<1>6. /\ tmp'[c] = one /\ net'[c] = rest /\ pc'[c] = "append"
      /\ \A d \in Clients \ {c} : net'[d] = net[d] /\ pc'[d] = pc[d]
  BY <1>1, <1>3, <1>4 DEF ShapeInv
<1>7. ShapeInv'
  <2>1. tmp' \in [Clients -> Seq(Piece)]
    BY <1>3, <1>4, <1>5 DEF ShapeInv
  <2>2. net' \in [Clients -> Seq(Piece)]
    BY <1>3, <1>4, <1>5 DEF ShapeInv
  <2>3. pc' \in [Clients -> {"none", "read", "append", "find", "take", "reply", "done"}]
    BY <1>1, <1>3 DEF ShapeInv
  <2> QED
    BY <1>1, <1>3, <2>1, <2>2, <2>3 DEF ShapeInv
<1> HIDE DEF one, rest
<1>8. Flow(c)' = Flow(c)
  <2>1. Flow(c)' = Joined(buffer, "append", one, rest) /\ Flow(c) = Joined(buffer, "read", tmp[c], Cat(one, rest))
    BY <1>1, <1>5, <1>6 DEF Flow
  <2>2. Joined(buffer, "append", one, rest) = Cat(Cat(buffer, one), rest)
    BY DEF Joined, Cat
  <2>3. Joined(buffer, "read", tmp[c], Cat(one, rest)) = Cat(buffer, Cat(one, rest))
    <3>1. Cat(one, rest) \in Seq(Piece) /\ "read" # "append"
      BY <1>3, <1>5
    <3> QED
      BY <1>3, <3>1, JoinedIs
  <2>4. Cat(Cat(buffer, one), rest) = Cat(buffer, Cat(one, rest))
    BY <1>3, <1>5, CatAssociative
  <2> QED
    BY <2>1, <2>2, <2>3, <2>4
<1>9. Others(c)
  BY <1>1, <1>3, <1>6 DEF Others
<1>10. Sent(Flow(c))' /\ (Clean(c)' <=> Clean(c))
  BY <1>1, <1>3, <1>8, <1>9, SameFlow
<1>11. conn[c] = "on" => ~ Answered(c)
  BY <1>3, <1>4 DEF Marked
<1>12. conn[c] = "on" => ~ Answered(c)'
  BY <1>1, <1>11 DEF Answered
<1>13. Marked(c)'
  BY <1>1, <1>3, <1>6, <1>8, <1>11, <1>12 DEF Marked
<1>14. Exact(c)'
  <2>1. Answered(c)' <=> Answered(c)
    BY <1>1 DEF Answered
  <2> QED
    BY <1>1, <1>3, <1>6, <1>8, <1>10, <1>11, <2>1 DEF Exact
<1>15. /\ conn'[c] # "off" /\ (BrokenOff(c) => BrokenOff(c)')
       /\ asked'[c] \in {Len(answers'[c]), Len(answers'[c]) + 1}
  BY <1>1, <1>3 DEF BrokenOff
<1> QED
  BY <1>1, <1>3, <1>6, <1>7, <1>9, <1>10, <1>13, <1>14, <1>15, OneAtATime

\* The service ends with what it has read of a request in the buffer.
LEMMA ReadEndsIInv == ASSUME IInv, NEW c \in Clients, ReadEnds(c) PROVE IInv'
<1>1. /\ pc[c] = "read" /\ pc' = [pc EXCEPT ![c] = "done"] /\ net[c] = <<>> /\ conn[c] = "closed"
      /\ UNCHANGED <<conn, asked, net, answers, buffer, tmp, end, message, down>>
  BY DEF ReadEnds, Goto, client
<1>2. c \in Active
  BY <1>1 DEF Active
<1>3. /\ ShapeInv /\ Sent(Flow(c)) /\ Marked(c) /\ Exact(c)
      /\ asked[c] \in {Len(answers[c]), Len(answers[c]) + 1} /\ Len(answers[c]) \in Nat
      /\ \A d \in Clients \ {c} : pc[d] \in {"none", "done"}
      /\ \A k \in 1 .. Len(answers[c]) :
           /\ k <= asked[c]
           /\ answers[c][k] = Request(c, k) \/ \E d \in Clients \ {c} : BrokenOff(d)
      /\ buffer \in Seq(Piece) /\ tmp[c] \in Seq(Piece) /\ net[c] \in Seq(Piece)
  BY <1>2, Served
<1>4. pc'[c] = "done" /\ \A d \in Clients \ {c} : pc'[d] = pc[d]
  BY <1>1, <1>3 DEF ShapeInv
<1>5. ShapeInv' /\ Others(c)
  <2>1. ShapeInv'
    BY <1>1, <1>3 DEF ShapeInv
  <2> QED
    BY <1>1, <1>3, <1>4, <2>1 DEF Others
<1>6. Flow(c) = buffer
  <2>1. Joined(buffer, pc[c], tmp[c], net[c]) = buffer
    <3>1. pc[c] # "append"
      BY <1>1
    <3> QED
      BY <1>1, <1>3, <3>1, JoinedNone
  <2> QED
    BY <2>1 DEF Flow
<1>7. Sent(buffer)' /\ NoEnd(buffer)'
  BY <1>1, <1>3, <1>6 DEF Sent, Marked, NoEnd
<1>8. BrokenOff(c)' <=> BrokenOff(c)
  BY <1>1 DEF BrokenOff
<1>9. buffer' # <<>> => BrokenOff(c)' \/ \E d \in Clients \ {c} : BrokenOff(d)
  <2> SUFFICES ASSUME buffer # <<>>, Clean(c) PROVE BrokenOff(c)
    BY <1>1, <1>8 DEF Clean
  <2>1. ~ Answered(c)
    BY <1>3, <1>6 DEF Exact
  <2> QED
    BY <1>1, <1>3, <2>1 DEF Answered, BrokenOff
<1> QED
  BY <1>1, <1>3, <1>4, <1>5, <1>7, <1>8, <1>9, OneAtATime

\* What was read joins the buffer.
LEMMA AppendIInv == ASSUME IInv, NEW c \in Clients, AppendTmp(c) PROVE IInv'
<1>1. /\ pc[c] = "append" /\ pc' = [pc EXCEPT ![c] = "find"] /\ buffer' = buffer \o tmp[c]
      /\ down' \in BOOLEAN /\ UNCHANGED <<conn, asked, net, answers, tmp, end, message>>
  BY DEF AppendTmp, Goto, client, MayCrash
<1>2. c \in Active
  BY <1>1 DEF Active
<1>3. /\ ShapeInv /\ Sent(Flow(c)) /\ Marked(c) /\ Exact(c) /\ conn[c] \in {"on", "closed"}
      /\ asked[c] \in {Len(answers[c]), Len(answers[c]) + 1}
      /\ \A d \in Clients \ {c} : pc[d] \in {"none", "done"}
      /\ \A k \in 1 .. Len(answers[c]) :
           /\ k <= asked[c]
           /\ answers[c][k] = Request(c, k) \/ \E d \in Clients \ {c} : BrokenOff(d)
      /\ buffer \in Seq(Piece) /\ tmp[c] \in Seq(Piece) /\ net[c] \in Seq(Piece)
  BY <1>2, Served
<1>4. pc'[c] = "find" /\ \A d \in Clients \ {c} : pc'[d] = pc[d]
  BY <1>1, <1>3 DEF ShapeInv
<1>5. buffer' \in Seq(Piece) /\ buffer' = Cat(buffer, tmp[c])
  <2>1. buffer \o tmp[c] \in Seq(Piece)
    BY <1>3, ConcatProperties
  <2> QED
    BY <1>1, <2>1 DEF Cat
<1>6. ShapeInv' /\ Others(c)
  <2>1. ShapeInv'
    BY <1>1, <1>3, <1>5 DEF ShapeInv
  <2> QED
    BY <1>1, <1>3, <1>4, <2>1 DEF Others
<1>7. Flow(c)' = Flow(c)
  <2>1. Flow(c) = Joined(buffer, "append", tmp[c], net[c]) /\ Flow(c)' = Joined(buffer', "find", tmp[c], net[c])
    BY <1>1, <1>4 DEF Flow
  <2>2. Joined(buffer, "append", tmp[c], net[c]) = Cat(Cat(buffer, tmp[c]), net[c])
    BY <1>3, JoinedIs
  <2>3. Joined(buffer', "find", tmp[c], net[c]) = Cat(buffer', net[c])
    <3>1. "find" # "append"
      OBVIOUS
    <3> QED
      BY <1>3, <1>5, <3>1, JoinedIs
  <2> QED
    BY <1>5, <2>1, <2>2, <2>3
<1>8. Sent(Flow(c))' /\ (Clean(c)' <=> Clean(c)) /\ (Answered(c)' <=> Answered(c))
  BY <1>1, <1>3, <1>6, <1>7, SameFlow DEF Answered
<1>9. conn[c] = "on" => ~ Answered(c)
  BY <1>1, <1>3 DEF Marked
<1>10. Marked(c)'
  BY <1>1, <1>3, <1>4, <1>7, <1>8, <1>9 DEF Marked
<1>11. Exact(c)'
  BY <1>1, <1>3, <1>4, <1>7, <1>8 DEF Exact
<1>12. (BrokenOff(c) => BrokenOff(c)') /\ asked'[c] \in {Len(answers'[c]), Len(answers'[c]) + 1}
  BY <1>1, <1>3 DEF BrokenOff
<1> QED
  BY <1>1, <1>3, <1>4, <1>6, <1>8, <1>10, <1>11, <1>12, OneAtATime

\* The search: an END is at the end of the flow, so that it is all in the buffer.
LEMMA FindIInv == ASSUME IInv, NEW c \in Clients, Find(c) PROVE IInv'
<1>1. /\ pc[c] = "find" /\ pc' = [pc EXCEPT ![c] = IF FindEnd(buffer) = 0 THEN "read" ELSE "take"]
      /\ end' = [end EXCEPT ![c] = FindEnd(buffer)]
      /\ UNCHANGED <<conn, asked, net, answers, buffer, tmp, message, down>>
  BY DEF Find, Goto, client
<1>2. c \in Active
  BY <1>1 DEF Active
<1>3. /\ ShapeInv /\ Sent(Flow(c)) /\ Marked(c) /\ Exact(c) /\ conn[c] \in {"on", "closed"}
      /\ asked[c] \in {Len(answers[c]), Len(answers[c]) + 1}
      /\ \A d \in Clients \ {c} : pc[d] \in {"none", "done"}
      /\ \A k \in 1 .. Len(answers[c]) :
           /\ k <= asked[c]
           /\ answers[c][k] = Request(c, k) \/ \E d \in Clients \ {c} : BrokenOff(d)
      /\ buffer \in Seq(Piece) /\ tmp[c] \in Seq(Piece) /\ net[c] \in Seq(Piece)
  BY <1>2, Served
<1>4. /\ pc'[c] = IF FindEnd(buffer) = 0 THEN "read" ELSE "take"
      /\ \A d \in Clients \ {c} : pc'[d] = pc[d]
  BY <1>1, <1>3 DEF ShapeInv
<1>5. FindEnd(buffer) \in Nat /\ end'[c] = FindEnd(buffer)
  BY <1>1, <1>3, Found DEF ShapeInv
<1>6. ShapeInv' /\ Others(c)
  <2>1. ShapeInv'
    BY <1>1, <1>3, <1>5 DEF ShapeInv
  <2> QED
    BY <1>1, <1>3, <1>4, <2>1 DEF Others
<1>7. Flow(c) = Cat(buffer, net[c]) /\ Flow(c)' = Flow(c)
  <2>1. Flow(c) = Joined(buffer, pc[c], tmp[c], net[c]) /\ Flow(c)' = Joined(buffer, pc'[c], tmp[c], net[c])
    BY <1>1 DEF Flow
  <2>2. pc[c] # "append" /\ pc'[c] # "append"
    BY <1>1, <1>4
  <2>3. /\ Joined(buffer, pc[c], tmp[c], net[c]) = Cat(buffer, net[c])
        /\ Joined(buffer, pc'[c], tmp[c], net[c]) = Cat(buffer, net[c])
    BY <1>3, <2>2, JoinedIs, SMTT(30)
  <2> QED
    BY <2>1, <2>3
<1>8. Sent(Flow(c))' /\ (Clean(c)' <=> Clean(c)) /\ (Answered(c)' <=> Answered(c))
  BY <1>1, <1>3, <1>6, <1>7, SameFlow DEF Answered
<1>9. conn[c] = "on" => ~ Answered(c)
  BY <1>1, <1>3 DEF Marked
<1>10. FindEnd(buffer) = 0 => NoEnd(buffer)
  BY <1>3, Found
<1>11. FindEnd(buffer) # 0 => FindEnd(buffer) = Len(buffer) /\ buffer # <<>> /\ net[c] = <<>>
  <2> SUFFICES ASSUME FindEnd(buffer) # 0 PROVE FindEnd(buffer) = Len(buffer) /\ buffer # <<>> /\ net[c] = <<>>
    OBVIOUS
  <2>1. FindEnd(buffer) \in 1 .. Len(buffer) /\ HasEnd(buffer[FindEnd(buffer)])
    BY <1>3, Found
  <2>2. Len(buffer) \in Nat /\ Len(net[c]) \in Nat
    BY <1>3, LenProperties
  <2>3. Len(Flow(c)) = Len(buffer) + Len(net[c]) /\ \A i \in 1 .. Len(buffer) : Flow(c)[i] = buffer[i]
    <3>1. Len(buffer \o net[c]) = Len(buffer) + Len(net[c])
      BY <1>3, ConcatProperties
    <3>2. \A i \in 1 .. Len(buffer) : (buffer \o net[c])[i] = buffer[i]
      BY <1>3, <2>2, ConcatProperties
    <3> QED
      BY <1>7, <3>1, <3>2 DEF Cat
  <2>4. FindEnd(buffer) = Len(buffer) + Len(net[c])
    BY <1>3, <2>1, <2>2, <2>3 DEF Marked
  <2>5. FindEnd(buffer) = Len(buffer) /\ Len(net[c]) = 0 /\ Len(buffer) # 0
    BY <2>1, <2>2, <2>4
  <2> QED
    BY <1>3, <2>5, EmptySeq
<1>12. Marked(c)'
  <2>1. pc'[c] = "read" => FindEnd(buffer) = 0
    BY <1>4
  <2>2. pc'[c] = "take" => FindEnd(buffer) # 0
    BY <1>4
  <2>3. NoEnd(buffer)' <=> NoEnd(buffer)
    BY <1>1 DEF NoEnd
  <2>4. pc'[c] # "reply"
    BY <1>4
  <2> QED
    BY <1>1, <1>3, <1>5, <1>7, <1>8, <1>9, <1>10, <1>11, <2>1, <2>2, <2>3, <2>4 DEF Marked
<1>13. Exact(c)'
  <2>1. pc'[c] # "reply" /\ pc[c] # "reply"
    BY <1>1, <1>4
  <2> QED
    BY <1>1, <1>3, <1>7, <1>8, <2>1 DEF Exact
<1>14. /\ (BrokenOff(c) => BrokenOff(c)') /\ pc'[c] \notin {"none", "done"} /\ conn'[c] # "off"
       /\ asked'[c] \in {Len(answers'[c]), Len(answers'[c]) + 1}
  BY <1>1, <1>3, <1>4 DEF BrokenOff
<1> QED
  BY <1>1, <1>3, <1>6, <1>8, <1>12, <1>13, <1>14, OneAtATime

\* What is taken out is all there is.
LEMMA TakeIInv == ASSUME IInv, NEW c \in Clients, Take(c) PROVE IInv'
<1>1. /\ pc[c] = "take" /\ pc' = [pc EXCEPT ![c] = "reply"] /\ down' \in BOOLEAN
      /\ UNCHANGED <<conn, asked, net, answers, tmp, end>>
  BY DEF Take, Goto, client, MayCrash
<1>2. c \in Active
  BY <1>1 DEF Active
<1>3. /\ ShapeInv /\ Sent(Flow(c)) /\ Marked(c) /\ Exact(c) /\ conn[c] \in {"on", "closed"}
      /\ asked[c] \in {Len(answers[c]), Len(answers[c]) + 1}
      /\ \A d \in Clients \ {c} : pc[d] \in {"none", "done"}
      /\ \A k \in 1 .. Len(answers[c]) :
           /\ k <= asked[c]
           /\ answers[c][k] = Request(c, k) \/ \E d \in Clients \ {c} : BrokenOff(d)
      /\ buffer \in Seq(Piece) /\ tmp[c] \in Seq(Piece) /\ net[c] \in Seq(Piece)
  BY <1>2, Served
<1>4. end[c] = Len(buffer) /\ buffer # <<>> /\ net[c] = <<>> /\ (conn[c] = "on" => ~ Answered(c))
  BY <1>1, <1>3 DEF Marked
<1>5. message' = [message EXCEPT ![c] = buffer] /\ buffer' = <<>>
  <2>1. Len(buffer) \in Nat
    BY <1>3, LenProperties
  <2>2. SubSeq(buffer, 1, Len(buffer)) = buffer
    BY <1>3, SubSeqFull
  <2>3. SubSeq(buffer, Len(buffer) + 1, Len(buffer)) = <<>>
    BY <2>1, SubSeqEmpty
  <2>4. Len(buffer) <= Len(buffer)
    BY <2>1
  <2>5. /\ message' = [message EXCEPT ![c] = SubSeq(buffer, 1, Len(buffer))]
        /\ buffer' = SubSeq(buffer, Len(buffer) + 1, Len(buffer))
    BY <1>4, <2>4 DEF Take
  <2> QED
    BY <2>2, <2>3, <2>5
<1>6. pc'[c] = "reply" /\ message'[c] = buffer /\ \A d \in Clients \ {c} : pc'[d] = pc[d]
  BY <1>1, <1>3, <1>5 DEF ShapeInv
<1>7. <<>> \in Seq(Piece) /\ Len(<<>>) = 0
  BY EmptySeq
<1>8. ShapeInv' /\ Others(c)
  <2>1. ShapeInv'
    BY <1>1, <1>3, <1>5, <1>7 DEF ShapeInv
  <2> QED
    BY <1>1, <1>3, <1>6, <2>1 DEF Others
<1>9. Flow(c) = buffer /\ Flow(c)' = <<>>
  <2>1. Flow(c) = Joined(buffer, pc[c], tmp[c], net[c]) /\ Flow(c)' = Joined(buffer', pc'[c], tmp[c], net[c])
    BY <1>1 DEF Flow
  <2>2. pc[c] # "append" /\ pc'[c] # "append" /\ buffer' \in Seq(Piece)
    BY <1>1, <1>5, <1>6, <1>7
  <2>3. Joined(buffer, pc[c], tmp[c], net[c]) = buffer /\ Joined(buffer', pc'[c], tmp[c], net[c]) = buffer'
    BY <1>3, <1>4, <2>2, JoinedNone
  <2> QED
    BY <1>5, <2>1, <2>3
<1>10. Sent(Flow(c))'
  BY <1>7, <1>9 DEF Sent
<1>11. (Clean(c)' <=> Clean(c)) /\ (Answered(c)' <=> Answered(c))
  BY <1>1 DEF Clean, BrokenOff, Answered
<1>12. Marked(c)'
  <2>1. 1 .. Len(Flow(c)') = {}
    BY <1>7, <1>9
  <2> QED
    BY <1>1, <1>4, <1>5, <1>6, <1>11, <2>1 DEF Marked
<1>13. Exact(c)'
  <2>1. (Clean(c) /\ conn[c] = "on") => buffer = Request(c, asked[c])
    BY <1>1, <1>3, <1>4, <1>9 DEF Exact
  <2>2. Request(c, asked[c])' = Request(c, asked[c])
    BY <1>1 DEF Request
  <2> QED
    BY <1>1, <1>6, <1>9, <1>11, <2>1, <2>2 DEF Exact
<1>14. (BrokenOff(c) => BrokenOff(c)') /\ asked'[c] \in {Len(answers'[c]), Len(answers'[c]) + 1}
  BY <1>1, <1>3 DEF BrokenOff
<1> QED
  BY <1>1, <1>3, <1>6, <1>8, <1>10, <1>12, <1>13, <1>14, OneAtATime

\* The answer: nothing is left, and the client has an answer more if it is there.
LEMMA ReplyIInv == ASSUME IInv, NEW c \in Clients, Reply(c) PROVE IInv'
<1>1. /\ pc[c] = "reply" /\ pc' = [pc EXCEPT ![c] = "read"] /\ down' \in BOOLEAN
      /\ answers' = IF conn[c] = "on" THEN [answers EXCEPT ![c] = Append(answers[c], message[c])] ELSE answers
      /\ UNCHANGED <<conn, asked, net, buffer, tmp, end, message>>
  BY DEF Reply, Goto, client
<1>2. c \in Active
  BY <1>1 DEF Active
<1>3. /\ ShapeInv /\ Sent(Flow(c)) /\ Marked(c) /\ Exact(c) /\ conn[c] \in {"on", "closed"}
      /\ asked[c] \in {Len(answers[c]), Len(answers[c]) + 1} /\ Len(answers[c]) \in Nat
      /\ \A d \in Clients \ {c} : pc[d] \in {"none", "done"}
      /\ \A k \in 1 .. Len(answers[c]) :
           /\ k <= asked[c]
           /\ answers[c][k] = Request(c, k) \/ \E d \in Clients \ {c} : BrokenOff(d)
      /\ buffer \in Seq(Piece) /\ tmp[c] \in Seq(Piece) /\ net[c] \in Seq(Piece)
      /\ answers[c] \in Seq(Seq(Piece)) /\ message[c] \in Seq(Piece)
  BY <1>2, Served
<1>4. buffer = <<>> /\ net[c] = <<>> /\ (conn[c] = "on" => asked[c] = Len(answers[c]) + 1)
  BY <1>1, <1>3 DEF Marked, Answered
<1>5. pc'[c] = "read" /\ \A d \in Clients \ {c} : pc'[d] = pc[d] /\ answers'[d] = answers[d]
  BY <1>1, <1>3 DEF ShapeInv
<1>6. conn[c] = "on" => /\ answers'[c] = Append(answers[c], message[c]) /\ answers'[c] \in Seq(Seq(Piece))
                        /\ Len(answers'[c]) = Len(answers[c]) + 1
                        /\ answers'[c][Len(answers[c]) + 1] = message[c]
                        /\ \A k \in 1 .. Len(answers[c]) : answers'[c][k] = answers[c][k]
  <2>1. conn[c] = "on" => answers'[c] = Append(answers[c], message[c])
    BY <1>1, <1>3 DEF ShapeInv
  <2>2. /\ Append(answers[c], message[c]) \in Seq(Seq(Piece))
        /\ Len(Append(answers[c], message[c])) = Len(answers[c]) + 1
        /\ Append(answers[c], message[c])[Len(answers[c]) + 1] = message[c]
        /\ \A k \in 1 .. Len(answers[c]) : Append(answers[c], message[c])[k] = answers[c][k]
    BY <1>3, AppendProperties
  <2> QED
    BY <2>1, <2>2
<1>7. ShapeInv' /\ Others(c)
  <2>1. answers' \in [Clients -> Seq(Seq(Piece))]
    BY <1>1, <1>3, <1>6 DEF ShapeInv
  <2>2. ShapeInv'
    BY <1>1, <1>3, <2>1 DEF ShapeInv
  <2> QED
    BY <1>1, <1>3, <1>5, <2>2 DEF Others
<1>8. Flow(c)' = <<>> /\ Flow(c) = <<>> /\ Len(<<>>) = 0
  <2>1. Flow(c) = Joined(buffer, pc[c], tmp[c], net[c]) /\ Flow(c)' = Joined(buffer, pc'[c], tmp[c], net[c])
    BY <1>1 DEF Flow
  <2>2. pc[c] # "append" /\ pc'[c] # "append"
    BY <1>1, <1>5
  <2>0. buffer \in Seq(Piece) /\ tmp[c] \in Seq(Piece) /\ net[c] = <<>>
    BY <1>3, <1>4
  <2>3. Joined(buffer, pc[c], tmp[c], net[c]) = buffer /\ Joined(buffer, pc'[c], tmp[c], net[c]) = buffer
    BY <2>0, <2>2, JoinedNone
  <2> QED
    BY <1>4, <2>1, <2>3, EmptySeq
<1>9. Sent(Flow(c))'
  BY <1>3, <1>8 DEF Sent
<1>10. Clean(c)' <=> Clean(c)
  BY <1>1, <1>5 DEF Clean, BrokenOff
<1>11. conn[c] = "on" => Answered(c)'
  BY <1>1, <1>4, <1>6 DEF Answered
<1>12. Marked(c)'
  <2>1. 1 .. Len(Flow(c)') = {} /\ NoEnd(Flow(c))' /\ NoEnd(buffer)'
    BY <1>1, <1>4, <1>8 DEF NoEnd
  <2> QED
    BY <1>1, <1>4, <1>5, <1>11, <2>1 DEF Marked
<1>13. Exact(c)'
  BY <1>1, <1>8, <1>11 DEF Exact
<1>14. BrokenOff(c) => BrokenOff(c)'
  BY <1>1, <1>3 DEF BrokenOff
<1>15. asked'[c] \in {Len(answers'[c]), Len(answers'[c]) + 1}
  BY <1>1, <1>3, <1>4, <1>6
<1>16. ASSUME NEW k \in 1 .. Len(answers'[c])
       PROVE  /\ k <= asked'[c]
              /\ answers'[c][k] = Request(c, k) \/ \E d \in Clients \ {c} : BrokenOff(d)
  <2>1. CASE conn[c] = "on" /\ k = Len(answers[c]) + 1
    <3>1. Clean(c) => message[c] = Request(c, asked[c])
      BY <1>1, <1>3, <1>4, <2>1 DEF Exact, Answered
    <3>2. k = asked[c] /\ answers'[c][k] = message[c]
      BY <1>4, <1>6, <2>1
    <3> QED
      BY <1>1, <1>3, <3>1, <3>2 DEF Clean
  <2>2. CASE conn[c] = "on" /\ k # Len(answers[c]) + 1
    <3>1. k \in 1 .. Len(answers[c]) /\ answers'[c][k] = answers[c][k]
      BY <1>3, <1>6, <2>2
    <3> QED
      BY <1>1, <1>3, <3>1
  <2>3. CASE conn[c] # "on"
    BY <1>1, <1>3, <2>3
  <2> QED
    BY <2>1, <2>2, <2>3
<1> QED
  BY <1>1, <1>3, <1>5, <1>7, <1>9, <1>12, <1>13, <1>14, <1>15, <1>16, OneAtATime

-------------------------------------------------------------------------------
(* The theorem. *)

\* In the beginning nobody is connected and the buffer is empty.
LEMMA InitIInv == Init => IInv
<1> SUFFICES ASSUME Init PROVE IInv
  OBVIOUS
<1>1. Active = {} /\ Len(<<>>) = 0 /\ \A S : <<>> \in Seq(S)
  BY EmptySeq DEF Init, Active
<1>2. ShapeInv
  <2>1. K \in Nat
    BY CalcSessionAssumption
  <2> QED
    <3>1. <<>> \in Seq(Piece) /\ <<>> \in Seq(Seq(Piece))
      BY <1>1
    <3>2. /\ answers \in [Clients -> Seq(Seq(Piece))] /\ net \in [Clients -> Seq(Piece)] /\ buffer \in Seq(Piece)
          /\ tmp \in [Clients -> Seq(Piece)] /\ message \in [Clients -> Seq(Piece)]
      BY <3>1 DEF Init
    <3>3. asked \in [Clients -> 0 .. K]
      BY <2>1 DEF Init
    <3>4. /\ conn \in [Clients -> {"off", "on", "closed"}] /\ end \in [Clients -> Nat]
          /\ pc \in [Clients -> {"none", "read", "append", "find", "take", "reply", "done"}]
      BY DEF Init
    <3>5. down \in BOOLEAN
      BY DEF Init
    <3> QED
      BY <3>2, <3>3, <3>4, <3>5 DEF ShapeInv
<1>3. AloneInv
  <2>1. \A c \in Clients : /\ conn[c] = "off" /\ pc[c] = "none" /\ asked[c] = 0
                           /\ net[c] = <<>> /\ Len(answers[c]) = 0
    BY <1>1 DEF Init
  <2> QED
    BY <1>1, <2>1 DEF AloneInv
<1>4. IdleInv /\ FlowInv
  <2>1. buffer = <<>>
    BY DEF Init
  <2> QED
    BY <1>1, <2>1 DEF IdleInv, FlowInv, Sent, NoEnd
<1>5. AnswersMatch
  BY <1>1 DEF Init, AnswersMatch
<1> QED
  BY <1>2, <1>3, <1>4, <1>5 DEF IInv

\* The invariant is inductive when no client connects while another is served.
LEMMA StepIInv == ~ Overlap => (IInv /\ [Next]_vars => IInv')
<1> SUFFICES ASSUME ~ Overlap, IInv, [Next]_vars PROVE IInv'
  OBVIOUS
<1>1. ASSUME NEW c \in Clients, Connect(c) PROVE IInv'
  BY <1>1, ConnectIInv
<1>2. ASSUME NEW c \in Clients, Ask(c) \/ Leave(c) \/ Break(c) PROVE IInv'
  BY <1>2, AskIInv, LeaveIInv, BreakIInv
<1>3. ASSUME NEW c \in Clients, ThreadStep(c) PROVE IInv'
  BY <1>3, ReadIInv, ReadEndsIInv, AppendIInv, FindIInv, TakeIInv, ReplyIInv DEF ThreadStep
<1>4. CASE UNCHANGED vars
  <2>1. Active' = Active /\ (\A c : BrokenOff(c)' <=> BrokenOff(c)) /\ \A c : Answered(c)' <=> Answered(c)
    BY <1>4 DEF vars, Active, BrokenOff, Answered
  <2>2. (\A c : Flow(c)' = Flow(c)) /\ (\A s : NoEnd(s)' <=> NoEnd(s)) /\ \A c : Clean(c)' <=> Clean(c)
    BY <1>4 DEF vars, Flow, NoEnd, Clean, BrokenOff
  <2>3. (\A c : Sent(Flow(c))' <=> Sent(Flow(c))) /\ (Sent(buffer)' <=> Sent(buffer))
    BY <1>4, <2>2 DEF vars, Sent
  <2>4. ShapeInv' /\ AloneInv' /\ AnswersMatch'
    <3>1. ShapeInv'
      BY <1>4 DEF IInv, vars, ShapeInv
    <3>2. AloneInv'
      BY <1>4, <2>1 DEF IInv, vars, AloneInv
    <3>3. AnswersMatch'
      BY <1>4, <2>1 DEF IInv, vars, AnswersMatch, Request
    <3> QED
      BY <3>1, <3>2, <3>3
  <2>5. IdleInv'
    BY <1>4, <2>1, <2>3 DEF IInv, vars, IdleInv, NoEnd
  <2>6. \A c : (Marked(c)' <=> Marked(c)) /\ (Exact(c)' <=> Exact(c))
    <3>1. \A c : (Marked(c)' <=> Marked(c))
      BY <1>4, <2>1, <2>2 DEF vars, Marked, NoEnd
    <3>2. \A c : (Exact(c)' <=> Exact(c))
      BY <1>4, <2>1, <2>2 DEF vars, Exact, Request
    <3> QED
      BY <3>1, <3>2
  <2> QED
    BY <2>1, <2>3, <2>4, <2>5, <2>6 DEF IInv, FlowInv
<1> QED
  BY <1>1, <1>2, <1>3, <1>4 DEF Next

\* The buffer holds pieces that were sent, each once, so there is a bound on it.
LEMMA IInvSafe == IInv => Safe
<1> SUFFICES ASSUME IInv PROVE Safe
  OBVIOUS
<1>1. buffer \in Seq(Piece) /\ \A i, j \in 1 .. Len(buffer) : buffer[i] = buffer[j] => i = j
  <2>1. CASE Active = {}
    BY <2>1 DEF IInv, IdleInv, Sent
  <2>2. CASE Active # {}
    <3>1. PICK c \in Clients : c \in Active
      BY <2>2 DEF Active
    <3>2. /\ Sent(Flow(c)) /\ buffer \in Seq(Piece) /\ tmp[c] \in Seq(Piece) /\ net[c] \in Seq(Piece)
          /\ Flow(c) \in Seq(Piece)
      BY <3>1, Served
    <3>3. Len(buffer) <= Len(Flow(c)) /\ \A i \in 1 .. Len(buffer) : Flow(c)[i] = buffer[i]
      BY <3>2, JoinedIs DEF Flow
    <3>4. Len(buffer) \in Nat /\ Len(Flow(c)) \in Nat
      BY <3>2, LenProperties
    <3> QED
      BY <3>2, <3>3, <3>4 DEF Sent
  <2> QED
    BY <2>1, <2>2
<1>2. Len(buffer) <= Pieces * K * Cardinality(Clients)
  BY <1>1, PiecesBound
<1>3. TypeOK
  BY <1>1, <1>2 DEF IInv, ShapeInv, TypeOK
<1> QED
  BY <1>3 DEF IInv, Safe

\* A client is answered once for each request, in order and about that request, as long as
\* nobody broke off before it, however TCP cuts the requests and wherever a connection
\* breaks, if no client connects while another is served: recvmessage has one buffer
\* for all connections (protocol.hpp:246-266, server_tcp.hpp:61-82).
THEOREM SessionsSafe == ~ Overlap => (Spec => []Safe)
<1> SUFFICES ASSUME ~ Overlap PROVE Spec => []Safe
  OBVIOUS
<1>1. Init => IInv
  BY InitIInv
<1>2. IInv /\ [Next]_vars => IInv'
  BY StepIInv
<1>3. IInv => Safe
  BY IInvSafe
<1> QED
  BY <1>1, <1>2, <1>3, PTL DEF Spec
==============================================================================
