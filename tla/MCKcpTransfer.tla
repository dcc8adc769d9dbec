--------------------------- MODULE MCKcpTransfer ---------------------------
(* Small instances of KcpTransfer. *)
EXTENDS KcpTransfer
=============================================================================
