----------------------------- MODULE MCCalcSession -----------------------------
(* An instance of CalcSession for TLC. *)
EXTENDS CalcSession

CONSTANTS c1, c2

MCClients == {c1, c2}
===============================================================================
