----------------------------- MODULE MCThreadPool -----------------------------
(* An instance of ThreadPool for TLC. *)
EXTENDS ThreadPool

CONSTANTS w1, w2, w3, a, b

MCWorkers == {w1, w2}
MCWorkers3 == {w1, w2, w3}
MCItem == {a, b}
===============================================================================
