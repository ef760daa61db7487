------------------------------- MODULE MCOpen --------------------------------
(* Instance of Open for TLC. *)
EXTENDS Open
=============================================================================
