----------------------------- MODULE MCPacketLink -----------------------------
(* Small instances of PacketLink.                                          *)
EXTENDS PacketLink

=============================================================================
