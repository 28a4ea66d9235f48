---------------------------- MODULE MCAbuseLimits -----------------------------
(* The instance of AbuseLimits that TLC checks. *)
EXTENDS AbuseLimits
=============================================================================
