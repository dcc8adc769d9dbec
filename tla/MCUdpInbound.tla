---------------------------- MODULE MCUdpInbound ----------------------------
(* A small instance of UdpInbound. *)
EXTENDS UdpInbound
=============================================================================
