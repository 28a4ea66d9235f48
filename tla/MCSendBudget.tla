----------------------------- MODULE MCSendBudget -----------------------------
(* The instances of SendBudget that TLC checks. *)
EXTENDS SendBudget
=============================================================================
