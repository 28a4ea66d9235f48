----------------------------- MODULE MCReassembly -----------------------------
(* Small instances of Reassembly for TLC. *)
EXTENDS Reassembly
=============================================================================
