------------------------------ MODULE MCCtApi ------------------------------
(* CtApi for TLC: each number has a port of its own. *)
EXTENDS CtApi

MCPortsOf == [n \in Ctns |-> {n}]
=============================================================================
