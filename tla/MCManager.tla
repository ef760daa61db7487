------------------------------ MODULE MCManager ------------------------------
(* Instances of Manager for TLC.  Tasks, pollers, device names and protocols *)
(* are interchangeable; paths are when there are several.                    *)
EXTENDS Manager, TLC

Symmetry ==
  Permutations(Tasks) \cup Permutations(Pollers) \cup Permutations(Names)
    \cup Permutations(Paths) \cup Permutations(Protocols \ {Continuous})
=============================================================================
