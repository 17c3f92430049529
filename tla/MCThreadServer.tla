---------------------------- MODULE MCThreadServer ----------------------------
(* An instance of ThreadServer for TLC: descriptors are reused. *)
EXTENDS ThreadServer

MCFds == {4, 5}
===============================================================================
