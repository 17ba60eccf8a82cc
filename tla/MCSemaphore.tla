---------------------------- MODULE MCSemaphore ----------------------------
(* Instance of Semaphore for TLC. *)
EXTENDS Semaphore
============================================================================
