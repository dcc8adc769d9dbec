--------------------------- MODULE MCKcpLifecycle ---------------------------
(* Small instances of KcpLifecycle. *)
EXTENDS KcpLifecycle
=============================================================================
