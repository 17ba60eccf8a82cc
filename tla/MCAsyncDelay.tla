---------------------------- MODULE MCAsyncDelay ----------------------------
(***************************************************************************)
(* Instances of AsyncDelay, with its history, for TLC.                     *)
(***************************************************************************)
EXTENDS AsyncDelayHistory
=============================================================================
