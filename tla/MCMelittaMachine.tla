-------------------------- MODULE MCMelittaMachine --------------------------
(* Instances of MelittaMachine for TLC. *)
EXTENDS MelittaMachine, TLC

\* Registers may be exchanged for one another, and so may challenges.
DataSymmetry == Permutations(Reg) \cup Permutations(Challenge)
Symmetry == Permutations(Task) \cup DataSymmetry
=============================================================================
