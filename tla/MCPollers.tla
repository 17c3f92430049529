------------------------------- MODULE MCPollers -------------------------------
(* An instance of Pollers for TLC: more clients than the tables have slots, or  *)
(* the epoll server descriptors; one sends more than a read returns, one nothing. *)
EXTENDS Pollers, TLC

CONSTANTS c1, c2, c3

MCClients == {c1, c2, c3}
MCLimit == ("epoll" :> 4 .. 5) @@ [k \in {"select", "poll"} |-> 4 .. 6]
MCK == (c1 :> 2) @@ (c2 :> 1) @@ (c3 :> 0)
===============================================================================
