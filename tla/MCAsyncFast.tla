---------------------------- MODULE MCAsyncFast ----------------------------
(* Instances of AsyncFast for TLC. *)
EXTENDS AsyncFast

============================================================================
