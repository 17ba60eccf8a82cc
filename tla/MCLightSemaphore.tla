--------------------------- MODULE MCLightSemaphore ---------------------------
(* Instance of LightSemaphore for TLC. *)
EXTENDS LightSemaphore
==============================================================================
