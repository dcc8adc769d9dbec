------------------------------- MODULE MCSmux -------------------------------
(* A small instance of Smux. *)
EXTENDS Smux
=============================================================================
