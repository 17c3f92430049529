----------------------------- MODULE MCBlockQueue -----------------------------
(* An instance of BlockQueue for TLC. *)
EXTENDS BlockQueue

CONSTANTS p1, p2, c1, c2, a, b

MCProducers == {p1, p2}
MCConsumers == {c1, c2}
MCItem == {a, b}
===============================================================================
