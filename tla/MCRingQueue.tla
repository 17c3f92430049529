------------------------------ MODULE MCRingQueue ------------------------------
(* An instance of RingQueue for TLC. *)
EXTENDS RingQueue

CONSTANTS p1, p2, c1, c2, a, b

MCProducers == {p1, p2}
MCConsumers == {c1, c2}
MCItem == {a, b}
===============================================================================
