---------------------------- MODULE MCKickMount -----------------------------
(* Two types of medium; tasks are interchangeable.                         *)
EXTENDS KickMount, TLC
CONSTANTS dd, hd
Symmetry == Permutations(Tasks)
=============================================================================
