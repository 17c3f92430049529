------------------------------ MODULE EchoService ------------------------------
(* What the servers on select, poll and epoll promise their clients: every      *)
(* connection is served or, when there is no room, refused; requests are only   *)
(* answered after they were made; a connection that is served lasts until its   *)
(* client ends it.                                                              *)
EXTENDS Naturals, FiniteSets

CONSTANT Clients
VARIABLES room,      \* the number of connections that can be served at once
          phase,     \* each client's connection
          asked,     \* the number of requests sent, for each client
          answered,  \* the number of them answered
          left,      \* the clients that ended a connection the server still has
          working    \* the server has started and has not died

vars == <<room, phase, asked, answered, left, working>>

Served == {c \in Clients : phase[c] = "served"}

Init == /\ room \in Nat
        /\ phase = [c \in Clients |-> "away"]
        /\ asked = [c \in Clients |-> 0]
        /\ answered = [c \in Clients |-> 0]
        /\ left = {}
        /\ working = FALSE

Start == ~working /\ working' = TRUE /\ UNCHANGED <<phase, asked, answered, left>>

Connect(c) == /\ working /\ phase[c] = "away"
              /\ phase' = [phase EXCEPT ![c] = "waiting"]
              /\ UNCHANGED <<asked, answered, left, working>>

Ask(c) == /\ phase[c] \in {"waiting", "served"} /\ c \notin left
          /\ asked' = [asked EXCEPT ![c] = @ + 1]
          /\ UNCHANGED <<phase, answered, left, working>>

Leave(c) == /\ phase[c] \in {"waiting", "served"} /\ c \notin left
            /\ left' = left \cup {c}
            /\ UNCHANGED <<phase, asked, answered, working>>

Serve(c) == /\ working /\ phase[c] = "waiting" /\ Cardinality(Served) < room
            /\ phase' = [phase EXCEPT ![c] = "served"]
            /\ UNCHANGED <<asked, answered, left, working>>

Refuse(c) == /\ working /\ phase[c] = "waiting" /\ Cardinality(Served) = room
             /\ phase' = [phase EXCEPT ![c] = "over"]
             /\ left' = left \ {c}
             /\ UNCHANGED <<asked, answered, working>>

Answer(c) == /\ working /\ phase[c] = "served"
             /\ \E n \in answered[c] + 1 .. asked[c] : answered' = [answered EXCEPT ![c] = n]
             /\ UNCHANGED <<phase, asked, left, working>>

\* The server closes a connection only after its client has left.
End(c) == /\ working /\ phase[c] = "served" /\ c \in left
          /\ phase' = [phase EXCEPT ![c] = "over"]
          /\ left' = left \ {c}
          /\ UNCHANGED <<asked, answered, working>>

Die == working /\ working' = FALSE /\ UNCHANGED <<phase, asked, answered, left>>

Next == /\ UNCHANGED room
        /\ \/ Start \/ Die
           \/ \E c \in Clients : \/ Connect(c) \/ Ask(c) \/ Leave(c)
                                 \/ Serve(c) \/ Refuse(c) \/ Answer(c) \/ End(c)

Spec == Init /\ [][Next]_vars
===============================================================================
