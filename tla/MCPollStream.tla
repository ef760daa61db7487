---------------------------- MODULE MCPollStream ----------------------------
(* Instances of PollStream for TLC. *)
EXTENDS PollStream

\* Never used: a stream does not reconnect.
MCBackoff == <<1>>
=============================================================================
