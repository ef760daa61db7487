------------------------------ MODULE MCSweep -------------------------------
(* Instance of Sweep for TLC: a table of three slots, so that a device can    *)
(* lack the one in the middle.                                                *)
EXTENDS Sweep, TLC

Three == 1..3
Device(i, d, n) == [inputs |-> i, discretes |-> d, named |-> n]
Some == {Device(1..3, 1..3, 1..3), Device(1..3, 1..3, {1, 3}),
         Device({1, 3}, {1, 3}, {1}), Device(1..3, {1, 3}, {}),
         Device({1, 2}, 1..3, {2})}
Symmetry == Permutations(Callers)
=============================================================================
