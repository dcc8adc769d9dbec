--------------------------- MODULE MCKcpListener ---------------------------
(* Small instances of KcpListener. *)
EXTENDS KcpListener, TLC

ListenerSymmetry == Permutations(Ids) \cup Permutations(Conns)
=============================================================================
