-------------------------- MODULE MCReliableTransport --------------------------
(* Small instances of ReliableTransport for TLC. *)
EXTENDS ReliableTransport
=============================================================================
