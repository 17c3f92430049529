-------------------------------- MODULE Protocol -------------------------------
(* The text of the calculator's messages (protocol.hpp of tcp_t/protocol_cus    *)
(* and IO/reactor, in both formats), its arithmetic (cal.hpp), and cal_IO of    *)
(* IO/reactor/test.cc, which answers what a buffer contains.  A text is a       *)
(* sequence of words and single characters, SEP the blank between two words;    *)
(* integers wrap at MaxInt.                                                     *)
EXTENDS Integers, Sequences, FiniteSets

CONSTANTS MaxInt,      \* the largest int, 2^31 - 1
          Numeral      \* how to_string writes a number: external, as stoi reads it

MinInt == -MaxInt - 1
Ints == MinInt .. MaxInt
Numbers == Ints \cup 0 .. 127

\* Numbers are written differently from each other, and from what stands between them.
ProtocolAssumption ==
  /\ MaxInt \in Nat \ {0}
  /\ Numeral \in [Numbers -> STRING \ {"SEP", "\r", "\n", "op", "x", "y", "exitcode", "num"}]
  /\ \A m, n \in Numbers : Numeral[m] = Numeral[n] => m = n
ASSUME ProtocolAssumption

Formats == {"MYSELF", "JSON"}
Ops == {"+", "-", "*", "/", "%"}
Codes == [NORMOL |-> 0, DEVZERO |-> 1, MODZERO |-> 2, OPWRONG |-> 3, UNKNOWN |-> 4]

Equations == [x : Ints, y : Ints, op : Ops \cup {"?"}]

-------------------------------------------------------------------------------
(* cal.hpp *)

\* An overflow wraps; the one quotient that does not fit is a trap of the processor.
Wrap(n) == ((n - MinInt) % (2 * (MaxInt + 1))) + MinInt
Abs(n) == IF n < 0 THEN -n ELSE n
Quotient(x, y) == LET q == Abs(x) \div Abs(y) IN IF (x < 0) = (y < 0) THEN q ELSE -q
Remainder(x, y) == x - y * Quotient(x, y)
Traps(e) == e.op \in {"/", "%"} /\ e.x = MinInt /\ e.y = -1

Result(num, code) == [num |-> num, code |-> Codes[code]]

\* Mutant of Calculator: the remainder is never negative.
CalculatorFloors(e) ==
  CASE e.op = "+" -> Result(Wrap(e.x + e.y), "NORMOL")
    [] e.op = "-" -> Result(Wrap(e.x - e.y), "NORMOL")
    [] e.op = "*" -> Result(Wrap(e.x * e.y), "NORMOL")
    [] e.op = "/" -> IF e.y = 0 THEN Result(0, "DEVZERO") ELSE Result(Quotient(e.x, e.y), "NORMOL")
    [] e.op = "%" -> IF e.y = 0 THEN Result(0, "MODZERO") ELSE Result(Abs(e.x) % Abs(e.y), "NORMOL")
    [] OTHER -> Result(0, "OPWRONG")

\* operator(): a result with its exit code.
Calculator(e) ==
  CASE e.op = "+" -> Result(Wrap(e.x + e.y), "NORMOL")
    [] e.op = "-" -> Result(Wrap(e.x - e.y), "NORMOL")
    [] e.op = "*" -> Result(Wrap(e.x * e.y), "NORMOL")
    [] e.op = "/" -> IF e.y = 0 THEN Result(0, "DEVZERO") ELSE Result(Quotient(e.x, e.y), "NORMOL")
    [] e.op = "%" -> IF e.y = 0 THEN Result(0, "MODZERO") ELSE Result(Remainder(e.x, e.y), "NORMOL")
    [] OTHER -> Result(0, "OPWRONG")

\* The one of thread_t/ring_queue prints what went wrong, and returns 0.
CalcTask(e) ==
  CASE e.op \in {"+", "-", "*"} -> Wrap(CASE e.op = "+" -> e.x + e.y [] e.op = "-" -> e.x - e.y [] e.op = "*" -> e.x * e.y)
    [] e.op \in {"/", "%"} /\ e.y = 0 -> 0
    [] e.op \in {"/", "%"} /\ e.y # 0 -> IF e.op = "/" THEN Quotient(e.x, e.y) ELSE Remainder(e.x, e.y)
    [] OTHER -> 0

-------------------------------------------------------------------------------
(* protocol.hpp *)

\* stoi; characters as numbers and back.
Stoi(word) == CHOOSE n \in Numbers : Numeral[n] = word
CharCode == [c \in {"+", "-", "*", "/", "%", "?"} |->
               CASE c = "+" -> 43 [] c = "-" -> 45 [] c = "*" -> 42 [] c = "/" -> 47 [] c = "%" -> 37 [] c = "?" -> 63]
CharOf(n) == CHOOSE c \in DOMAIN CharCode : CharCode[c] = n

\* find: the first place of a character, from one on; the length of a text without it.
FindFrom(text, char, from) ==
  LET at == { i \in from .. Len(text) : text[i] = char }
  IN  IF at = {} THEN Len(text) + 1 ELSE CHOOSE i \in at : \A j \in at : i <= j

\* The JSON library: an object is written in one line with its members in the order of
\* their names, and a member that is missing reads as 0.
AsInt(text, name) == LET i == FindFrom(text, name, 1) IN IF i >= Len(text) THEN 0 ELSE Stoi(text[i + 1])

SerializeRequest(format, e) ==
  IF format = "MYSELF" THEN <<Numeral[e.x], "SEP", Numeral[e.y], "SEP", e.op>>
  ELSE <<"op", Numeral[CharCode[e.op]], "x", Numeral[e.x], "y", Numeral[e.y], "\n">>

DeserializeRequest(format, req) ==
  IF format = "MYSELF"
    THEN LET pos1 == FindFrom(req, "SEP", 1)
             pos2 == FindFrom(req, "SEP", pos1 + 1)
         IN  [x |-> Stoi(req[pos1 - 1]), y |-> Stoi(req[pos2 - 1]), op |-> req[Len(req)]]
    ELSE [x |-> AsInt(req, "x"), y |-> AsInt(req, "y"), op |-> CharOf(AsInt(req, "op"))]

SerializeResponse(format, r) ==
  IF format = "MYSELF" THEN <<Numeral[r.num], "SEP", Numeral[r.code]>>
  ELSE <<"exitcode", Numeral[r.code], "num", Numeral[r.num], "\n">>

DeserializeResponse(format, resp) ==
  IF format = "MYSELF" THEN [num |-> Stoi(resp[FindFrom(resp, "SEP", 1) - 1]), code |-> Stoi(resp[Len(resp)])]
  ELSE [num |-> AsInt(resp, "num"), code |-> AsInt(resp, "exitcode")]

Encode(msg) == msg \o <<"\r", "\n">>
Decode(msg) == SubSeq(msg, 1, FindFrom(msg, "\r", 1) - 1)

\* Where the first END ends, or 0.
MessageEnd(in) == LET ends == { i \in 2 .. Len(in) : in[i - 1] = "\r" /\ in[i] = "\n" }
                  IN  IF ends = {} THEN 0 ELSE CHOOSE i \in ends : \A j \in ends : i <= j

\* recvmessage of the reactor: take a whole message from the buffer, if there is one.
RecvMessage(in) == LET end == MessageEnd(in)
                   IN  [ok |-> end > 0, out |-> SubSeq(in, 1, end), in |-> SubSeq(in, end + 1, Len(in))]

\* Mutant of CalIO: if instead of while, one message is answered.
CalIOOnce(f, input, output) ==
  LET m == RecvMessage(input)
      e == DeserializeRequest(f, Decode(m.out))
  IN  IF m.ok /\ ~ Traps(e)
        THEN [in |-> m.in, out |-> output \o Encode(SerializeResponse(f, Calculator(e))), trap |-> FALSE]
        ELSE [in |-> input, out |-> output, trap |-> m.ok]

\* One round of the loop of cal_IO: answer a whole message, unless a quotient traps.
CalRound(f, b) ==
  LET m == RecvMessage(b.in)
      e == DeserializeRequest(f, Decode(m.out))
  IN  IF ~ m.ok \/ b.trap THEN b
      ELSE IF Traps(e) THEN [in |-> b.in, out |-> b.out, trap |-> TRUE]
      ELSE [in |-> m.in, out |-> b.out \o Encode(SerializeResponse(f, Calculator(e))), trap |-> FALSE]

\* cal_IO: answer every whole message of the buffer and keep the rest.  The loop is bounded
\* by the length of what it consumes.
CalIO(f, input, output) ==
  LET loop[steps \in 0 .. Len(input)] ==
        IF steps = 0 THEN [in |-> input, out |-> output, trap |-> FALSE]
                     ELSE CalRound(f, loop[steps - 1])
  IN  loop[Len(input)]

VARIABLES format,    \* "off", or what both sides were compiled for
          equations,    \* the equations a client has sent
          wire,      \* what of them is under way
          inbuf, outbuf, \* _inbuf and _outbuf of the connection
          received,  \* what has been written to the client
          conn       \* "open", "closed" by the server, or "killed" by SIGFPE

calcVars == <<format, equations, wire, inbuf, outbuf, received, conn>>

CalcInit == /\ format = "off" /\ equations = <<>> /\ wire = <<>>
            /\ inbuf = <<>> /\ outbuf = <<>> /\ received = <<>> /\ conn = "open"

CalcRun == /\ format = "off" /\ format' \in Formats
           /\ UNCHANGED <<equations, wire, inbuf, outbuf, received, conn>>

\* The client sends an equation; after one of a sample, another of it.
Sample == { e \in Equations : /\ e.op \in {"/", "*", "?"}
                              /\ <<e.x, e.y>> \in {<<MinInt, 2>>, <<MinInt, -1>>, <<1, 0>>, <<-1, -1>>} }

CalcAsk(e) == /\ format # "off" /\ conn = "open"
              /\ \/ equations = <<>>
                 \/ Len(equations) = 1 /\ {equations[1], e} \subseteq Sample
              /\ equations' = Append(equations, e)
              /\ wire' = wire \o Encode(SerializeRequest(format, e))
              /\ UNCHANGED <<format, inbuf, outbuf, received, conn>>

\* Mutant of Writer: what was written stays in the buffer.
WriterKeeps(out) ==
  \/ /\ out = <<>> /\ outbuf' = out
     /\ conn' = "closed" /\ UNCHANGED received
  \/ /\ out # <<>> /\ outbuf' = out
     /\ \E k \in 0 .. Len(out) : received' = received \o SubSeq(out, 1, k)
     /\ UNCHANGED conn

\* writer: the socket takes as much as there is room for, and the rest waits in _outbuf
\* until writer is called again.  A write of nothing returns 0, and that is taken for
\* the client's end: the connection is closed.
Writer(out) ==
  \/ /\ out = <<>> /\ outbuf' = out
     /\ conn' = "closed" /\ UNCHANGED received
  \/ /\ out # <<>>
     /\ \E k \in 0 .. Len(out) : /\ received' = received \o SubSeq(out, 1, k)
                                 /\ outbuf' = SubSeq(out, k + 1, Len(out))
     /\ UNCHANGED conn

\* recver reads as much as there is at the moment, wherever it is cut, calls cal_IO, which
\* a quotient that traps does not return from, and then writer.
CalcRead == /\ conn = "open"
            /\ \E n \in 1 .. Len(wire) :
                 LET r == CalIO(format, inbuf \o SubSeq(wire, 1, n), outbuf)
                 IN  \/ /\ r.trap /\ conn' = "killed"
                        /\ UNCHANGED <<wire, inbuf, outbuf, received>>
                     \/ /\ ~ r.trap /\ inbuf' = r.in
                        /\ wire' = SubSeq(wire, n + 1, Len(wire))
                        /\ Writer(r.out)
            /\ UNCHANGED <<format, equations>>

CalcNext == CalcRun \/ CalcRead \/ \E e \in Equations : CalcAsk(e)

CalcSpec == CalcInit /\ [][CalcNext]_calcVars

-------------------------------------------------------------------------------
\* Quotient and remainder fit together, results are exact where they fit, and the calculator
\* of the queues agrees (cal.hpp:87-122, thread_t/ring_queue/cal.hpp:40-79).
ArithmeticIsSound ==
  \A k \in DOMAIN equations :
    LET e == equations[k]
        r == Calculator(e)
        q == Calculator([e EXCEPT !.op = "/"])
        m == Calculator([e EXCEPT !.op = "%"])
        exact == CASE e.op = "+" -> e.x + e.y [] e.op = "-" -> e.x - e.y [] OTHER -> e.x * e.y
    IN  ~ Traps(e) =>
          /\ r.num = CalcTask(e) /\ r.num \in Ints
          /\ e.op \in {"+", "-", "*"} /\ exact \in Ints => r = Result(exact, "NORMOL")
          /\ e.op = "%" /\ e.y # 0 =>
               /\ e.x = e.y * q.num + m.num
               /\ Abs(m.num) < Abs(e.y) /\ (m.num = 0 \/ ((m.num < 0) = (e.x < 0)))

\* However TCP joins and cuts requests and answers, the client takes from what it receives
\* the results of what it asked, in order and in both formats.  When everything has been
\* read and written on a connection that is still open, every question is answered and
\* nothing is left.  The server closes a connection only while a request of it is cut, after
\* all answers before (IO/reactor/protocol.hpp:59-186, IO/reactor/test.cc:24-50,
\* IO/reactor/reactor_server.hpp:262-295).
ResultsInOrder ==
  LET r1 == RecvMessage(received)
      r2 == RecvMessage(r1.in)
  IN  /\ r1.ok => /\ equations # <<>>
                  /\ DeserializeResponse(format, Decode(r1.out)) = Calculator(equations[1])
      /\ r2.ok => /\ Len(equations) = 2
                  /\ DeserializeResponse(format, Decode(r2.out)) = Calculator(equations[2])
      /\ ~ RecvMessage(r2.in).ok
      /\ conn = "open" /\ wire = <<>> /\ outbuf = <<>> =>
           /\ inbuf = <<>> /\ r2.in = <<>>
           /\ (equations # <<>> => r1.ok) /\ (Len(equations) = 2 => r2.ok)
      /\ conn = "closed" => /\ inbuf # <<>> /\ ~ RecvMessage(inbuf).ok
                            /\ outbuf = <<>> /\ r2.in = <<>>

\* What a client computes with: the calculator's arithmetic, and what is left of its results
\* after two conversions and two streams that are cut anywhere.
CalcSafe == ArithmeticIsSound /\ ResultsInOrder
===============================================================================
