------------------------------- MODULE MCReactor -------------------------------
(* Instances of Reactor for TLC. *)
EXTENDS Reactor, TLC

CONSTANTS c1, c2

MCClients == {c1, c2}
MCOneClient == {c1}
MCFds == {5, 6}
MCOneFd == {5}

Symmetry == Permutations(MCClients)
===============================================================================
