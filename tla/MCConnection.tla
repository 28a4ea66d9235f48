----------------------------- MODULE MCConnection -----------------------------
(* Small instances of Connection for TLC. *)
EXTENDS Connection, TLC

(* The addresses of one host are interchangeable. *)
Symmetry == Permutations(Addrs)
=============================================================================
