---------------------------- MODULE MCAsyncRuntime -----------------------------
(* Small instances of AsyncRuntime for TLC. *)
EXTENDS AsyncRuntime
=============================================================================
