----------------------------- MODULE MCRecorder -----------------------------
(* Instances of Recorder for TLC. *)
EXTENDS Recorder

\* The first two steps of a schedule that is capped at its last entry.
MCBackoff == <<1, 4>>
=============================================================================
