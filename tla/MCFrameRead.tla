---------------------------- MODULE MCFrameRead ----------------------------
(* The register tables of the 4100 without I3 and D2 to D4, so that there are *)
(* gaps, with policies from the default to the strict one and knobs that cut  *)
(* between them.                                                              *)
EXTENDS FrameRead

MCSpans ==
  {ValuePdu(c) : c \in {<<"I", 1>>, <<"I", 2>>, <<"I", 4>>, <<"D", 1>>, <<"E", 1>>, <<"E", 2>>}}

MCPolicies ==
  {[max_gap |-> g, max_count |-> n] : g \in {0, 7, 10000}, n \in {5, 14, 21, 125}}
MCStatusPolicies ==
  {[max_gap |-> 0, max_count |-> 2000], [max_gap |-> 10000, max_count |-> 24],
   [max_gap |-> 10000, max_count |-> 2000]}

Resting == [g \in 1..CAL_GROUPS |-> [calibrating |-> FALSE, gas2 |-> g = 4]]
MCCalStates ==
  <<Resting,
    [Resting EXCEPT ![2] = [calibrating |-> TRUE, gas2 |-> FALSE],
                    ![3] = [calibrating |-> TRUE, gas2 |-> TRUE]]>>
MCFlags == <<[fault |-> TRUE, maintenance |-> FALSE], [fault |-> FALSE, maintenance |-> TRUE]>>
=============================================================================
