------------------------------ MODULE MCSinks -------------------------------
(* Instances of Sinks for TLC. *)
EXTENDS Sinks

Every == AllKinds
=============================================================================
