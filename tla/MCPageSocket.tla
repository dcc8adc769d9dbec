---------------------------- MODULE MCPageSocket ----------------------------
(* A small instance of PageSocket. *)
EXTENDS PageSocket
=============================================================================
