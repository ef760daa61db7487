---------------------------- MODULE MCContinuous ----------------------------
(* Instance of Continuous for TLC.  The sums of the two frames differ in    *)
(* their leading digit, which is 0 in one of them.                          *)
EXTENDS Continuous

R(c, v) == [channel |-> c, value |-> v]
TwoFrames == {[date |-> 3, readings |-> <<R(1, 0), R(2, 9)>>],
              [date |-> 15, readings |-> <<R(1, 15), R(2, 15), R(1, 15)>>]}
=============================================================================
