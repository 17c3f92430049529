---------------------------------- MODULE Udp ----------------------------------
(* The UDP services: chatroom_udp (a table of online users, broadcasts),        *)
(* dict_udp and shell_udp (one answer per datagram, a client that asks and      *)
(* waits).  The network loses, repeats and reorders datagrams; nobody retries.  *)
EXTENDS Naturals, Sequences, FiniteSets

CONSTANTS Clients,
          MaxSend,   \* bound: datagrams the clients send
          MaxFaults  \* bound: losses, repetitions and overtakings

UdpAssumption == IsFiniteSet(Clients) /\ MaxSend \in Nat /\ MaxFaults \in Nat
ASSUME UdpAssumption

\* What a user types: for the chat room; for the dictionary and the shell, a word or a
\* command by the answer it has.  Silent has an empty one, huge one that does not
\* fit in a datagram, endless none; an empty line is an empty datagram.
ChatWords == {"online", "offline", "text"}
AskWords == [dict |-> {"known", "unknown", "empty"},
             shell |-> {"known", "silent", "huge", "endless", "empty"}]
Words == ChatWords \cup AskWords.dict \cup AskWords.shell
Faults == {"lost", "repeated", "overtaken"}

VARIABLES service,   \* "off", "chat", "dict" or "shell"
          server,    \* "recv", "busy", "exited" or "crashed"
          said,      \* the datagrams each client has sent
          awaits,    \* the clients blocked in recvfrom
          got,       \* what each client has received, in order
          toServer,  \* datagrams under way: <<client, number>>
          toClient,  \* datagrams under way: [to, from, k, body], k numbers what the server handled
          online,    \* users::_map
          handled,   \* what the server has handled (history)
          faults     \* the faults of the network so far: <<kind, the client it hit>>

udpVars == <<service, server, said, awaits, got, toServer, toClient, online, handled, faults>>

UdpInit == /\ service = "off" /\ server = "recv"
           /\ said = [c \in Clients |-> <<>>] /\ got = [c \in Clients |-> <<>>]
           /\ awaits = {} /\ toServer = {} /\ toClient = {}
           /\ online = {} /\ handled = <<>> /\ faults = <<>>

\* The constructor: a socket, and its port.
UdpRun == /\ service = "off" /\ service' \in {"chat", "dict", "shell"}
          /\ UNCHANGED <<server, said, awaits, got, toServer, toClient, online, handled, faults>>

\* A client sends what its user types: to the chat room at any time, as another thread
\* receives; else it waits for the answer.
Say(c, word) ==
  /\ Cardinality({ q \in Clients \X (1 .. MaxSend) : q[2] <= Len(said[q[1]]) }) < MaxSend
  /\ \/ service = "chat" /\ word \in ChatWords /\ UNCHANGED awaits
     \/ /\ service \in {"dict", "shell"} /\ word \in AskWords[service] /\ c \notin awaits
        /\ awaits' = awaits \cup {c}
  /\ said' = [said EXCEPT ![c] = Append(@, word)]
  /\ toServer' = toServer \cup {<<c, Len(said'[c])>>}
  /\ UNCHANGED <<service, server, got, toClient, online, handled, faults>>

\* The client receives: an empty answer is not printed, but ends the wait too.
Hear(c, d) == /\ d \in toClient /\ d.to = c
              /\ service # "chat" => c \in awaits
              /\ awaits' = awaits \ {c}
              /\ got' = IF service = "chat" THEN got ELSE [got EXCEPT ![c] = Append(@, d)]
              /\ \/ toClient' = toClient \ {d} /\ UNCHANGED faults
                 \/ /\ Len(faults) < MaxFaults /\ service # "chat"
                    /\ faults' = Append(faults, <<"repeated", c>>) /\ UNCHANGED toClient
              /\ UNCHANGED <<service, server, said, toServer, online, handled>>

Lose == /\ Len(faults) < MaxFaults
        /\ \/ \E m \in toServer : /\ faults' = Append(faults, <<"lost", m[1]>>)
                                 /\ toServer' = toServer \ {m} /\ UNCHANGED toClient
           \/ \E d \in toClient : /\ faults' = Append(faults, <<"lost", d.to>>)
                                 /\ toClient' = toClient \ {d} /\ UNCHANGED toServer
        /\ UNCHANGED <<service, server, said, awaits, got, online, handled>>

-------------------------------------------------------------------------------
\* The network hands the server one of the datagrams, repeats it, or lets it overtake
\* an earlier one of the same client.
Arrives(m) == /\ m \in toServer /\ server = "recv"
              /\ LET late == \E e \in toServer : e[1] = m[1] /\ e[2] < m[2]
                     f == IF late THEN Append(faults, <<"overtaken", m[1]>>) ELSE faults
                 IN  \/ faults' = f /\ toServer' = toServer \ {m}
                     \/ faults' = Append(f, <<"repeated", m[1]>>) /\ UNCHANGED toServer
              /\ Len(faults') <= MaxFaults
              /\ handled' = Append(handled, <<m[1], said[m[1]][m[2]]>>)

Datagrams(to, from, body) == { [to |-> u, from |-> from, k |-> Len(handled) + 1, body |-> body] : u \in to }

\* Mutants of ShellServer: a text is sent to all before the sender is looked up; offline
\* is looked at last, when only the texts of users online are left.
ShellServerFirst(c, word) ==
  CASE word = "offline" -> online' = online \ {c} /\ UNCHANGED toClient
    [] word = "online" /\ c \notin online -> online' = online \cup {c} /\ UNCHANGED toClient
    [] OTHER -> toClient' = toClient \cup Datagrams(online, c, word) /\ UNCHANGED online

ShellServerLast(c, word) ==
  CASE c \in online -> toClient' = toClient \cup Datagrams(online, c, word) /\ UNCHANGED online
    [] c \notin online /\ word = "online" -> online' = online \cup {c} /\ UNCHANGED toClient
    [] OTHER -> toClient' = toClient \cup Datagrams({c}, c, "hint") /\ UNCHANGED online

\* shellServer of the chat room: what a user that is online says, a second "online" too,
\* goes to all that are online; another one is told to go online first.
ShellServer(c, word) ==
  CASE word = "offline" -> online' = online \ {c} /\ UNCHANGED toClient
    [] word # "offline" /\ c \in online ->
         toClient' = toClient \cup Datagrams(online, c, word) /\ UNCHANGED online
    [] word = "online" /\ c \notin online -> online' = online \cup {c} /\ UNCHANGED toClient
    [] OTHER -> toClient' = toClient \cup Datagrams({c}, c, "hint") /\ UNCHANGED online

\* A sendto that fails makes the server exit: of a broadcast some have got the message,
\* and the hint was not sent.
SendFails(c, word) ==
  /\ word # "offline" /\ server' = "exited" /\ UNCHANGED online
  /\ \/ c \in online /\ \E some \in SUBSET online \ {online} :
                          toClient' = toClient \cup Datagrams(some, c, word)
     \/ c \notin online /\ word = "text" /\ UNCHANGED toClient

\* start of the chat room.
Chat(m) == /\ service = "chat" /\ Arrives(m)
           /\ LET word == said[m[1]][m[2]]
              IN  \/ ShellServer(m[1], word) /\ UNCHANGED server
                 \/ SendFails(m[1], word)
           /\ UNCHANGED <<service, said, awaits, got>>

\* dictServer, shellServer: the answer, by the question.
Find(word) == IF word = "known" THEN "translation" ELSE "Not Found!"
CommandOutput(word) == IF word = "silent" THEN "" ELSE "output"

\* Mutants of Serve: an empty datagram gets no answer; result is declared before the
\* loop, so that an empty datagram is answered with the answer before.
ServeNothing(m) ==
  /\ service \in {"dict", "shell"} /\ Arrives(m)
  /\ LET word == said[m[1]][m[2]]
     IN  /\ toClient' = IF word = "empty" THEN toClient
                        ELSE toClient \cup Datagrams({m[1]}, m[1], IF service = "dict" THEN Find(word) ELSE CommandOutput(word))
         /\ server' = CASE word = "huge" -> "exited" [] word = "endless" -> "busy" [] OTHER -> server
  /\ UNCHANGED <<service, said, awaits, got, online>>

ServeKeepsResult(m) ==
  /\ service \in {"dict", "shell"} /\ Arrives(m)
  /\ LET word == said[m[1]][m[2]]
         asked == IF word # "empty" THEN word
                  ELSE IF handled = <<>> THEN "silent" ELSE handled[Len(handled)][2]
     IN  toClient' = toClient \cup
           Datagrams({m[1]}, m[1], IF service = "dict" THEN Find(asked) ELSE CommandOutput(asked))
  /\ UNCHANGED <<service, server, said, awaits, got, online>>

\* start of dict_udp and shell_udp: an empty datagram is answered by an empty one.  A
\* command that does not end keeps the server; an answer that is too long for
\* sendto makes it exit, and when popen fails pclose is called with a null pointer.
Answer(word) == CASE word = "empty" -> ""
                  [] word # "empty" /\ service = "dict" -> Find(word)
                  [] OTHER -> CommandOutput(word)

Serve(m) ==
  /\ service \in {"dict", "shell"} /\ Arrives(m)
  /\ LET word == said[m[1]][m[2]]
     IN  \/ /\ word \notin {"huge", "endless"}
            /\ toClient' = toClient \cup Datagrams({m[1]}, m[1], Answer(word))
            /\ UNCHANGED server
         \/ word = "huge" /\ server' = "exited" /\ UNCHANGED toClient
         \/ word = "endless" /\ server' = "busy" /\ UNCHANGED toClient
         \/ service = "shell" /\ word # "empty" /\ server' = "crashed" /\ UNCHANGED toClient
  /\ UNCHANGED <<service, said, awaits, got, online>>

Deliver == \E m \in toServer : Chat(m) \/ Serve(m)
Receive(c) == \E d \in toClient : Hear(c, d)

UdpNext == \/ UdpRun \/ Lose \/ Deliver
           \/ \E c \in Clients : Receive(c) \/ \E w \in Words : Say(c, w)

\* A datagram that is not lost arrives, and the processes run; users need not type.
UdpFair == WF_udpVars(Deliver) /\ \A c \in Clients : WF_udpVars(Receive(c))

UdpSpec == UdpInit /\ [][UdpNext]_udpVars /\ UdpFair

-------------------------------------------------------------------------------
Bodies == ChatWords \cup {"hint", "translation", "Not Found!", "", "output"}

\* Every variable has its type.
UdpTypeOK ==
  /\ service \in {"off", "chat", "dict", "shell"}
  /\ server \in {"recv", "busy", "exited", "crashed"}
  /\ said \in [Clients -> Seq(Words)]
  /\ got \in [Clients -> Seq([to : Clients, from : Clients, k : Nat, body : Bodies])]
  /\ awaits \subseteq Clients /\ online \subseteq Clients
  /\ toServer \subseteq Clients \X (1 .. MaxSend)
  /\ toClient \subseteq [to : Clients, from : Clients, k : 1 .. Len(handled), body : Bodies]
  /\ faults \in Seq(Faults \X Clients) /\ Len(faults) <= MaxFaults
  /\ service = "chat" => awaits = {} /\ \A c \in Clients : got[c] = <<>>

\* The reference: c is in the room after the first k datagrams.
InRoom(c, k) == \E i \in 1 .. k : /\ handled[i] = <<c, "online">>
                                  /\ \A j \in i + 1 .. k : handled[j] # <<c, "offline">>

\* Who is in the room is decided by what users have last said of it, and what is said in
\* the room comes from there and goes only there; the hint only goes to the others
\* (chatroom_udp/udpServer.cc:21-38).
OnlyTheRoomHears ==
  service = "chat" =>
    /\ online = { c \in Clients : InRoom(c, Len(handled)) }
    /\ \A d \in toClient : IF d.body = "hint"
                             THEN d.to = d.from /\ ~ InRoom(d.to, d.k - 1)
                             ELSE InRoom(d.to, d.k - 1) /\ InRoom(d.from, d.k - 1)

\* The network did one of these to a datagram of c.
Hit(q, kinds, c) == \E i \in DOMAIN q : q[i][1] \in kinds /\ q[i][2] = c

\* Whatever happens to the datagrams of others: when those of a user have arrived, each
\* once and in order, the user is in the room as it has last said.  A user one of whose
\* datagrams was lost, repeated or overtaken is claimed nothing of: the table can keep it
\* for ever.
RoomIsWhatUsersSaid ==
  service = "chat" =>
    \A c \in Clients :
      (~ Hit(faults, Faults, c) /\ \A m \in toServer : m[1] # c) =>
        (c \in online <=> \E i \in DOMAIN said[c] :
                             /\ said[c][i] = "online"
                             /\ \A j \in i + 1 .. Len(said[c]) : said[c][j] # "offline")

\* A client asks again only when it was answered, so as long as the network has repeated
\* none of its own datagrams the answer it prints is that to its last question, whatever
\* else is lost, repeated or reordered; after a repetition the code pairs them wrongly
\* (dict_udp/udpClient.hpp:48-64, shell_udp/udpServer.hpp:63-75).
AnswersItsQuestion ==
  \A c \in Clients :
    ~ Hit(faults, {"repeated"}, c) => \A k \in DOMAIN got[c] : got[c][k].body = Answer(said[c][k])

\* The safety of the UDP services: the table of users, the broadcasts and the answers say
\* what the datagrams that arrived said.
UdpSafe == UdpTypeOK /\ OnlyTheRoomHears /\ RoomIsWhatUsersSaid /\ AnswersItsQuestion

\* A client is answered, unless a datagram of its own was lost or the server is gone or
\* kept by a command; then nothing ends its wait (dict_udp/udpClient.hpp:56).  A
\* repetition, an overtaking, or the loss of another client's datagram excuses nothing.
EveryQuestionAnswered ==
  \A c \in Clients :
    c \in awaits ~> c \notin awaits \/ server # "recv" \/ Hit(faults, {"lost"}, c)
===============================================================================
