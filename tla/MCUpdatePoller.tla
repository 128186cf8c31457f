--------------------------- MODULE MCUpdatePoller ---------------------------
(* Instances of UpdatePoller small enough for TLC. *)
EXTENDS UpdatePoller

CONSTANT message
=============================================================================
