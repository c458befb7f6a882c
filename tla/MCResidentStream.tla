-------------------------- MODULE MCResidentStream --------------------------
(* Instances of ResidentStream for TLC: responses of one and three bytes; *)
(* IOCBs are interchangeable.                                              *)
EXTENDS ResidentStream, TLC
CONSTANTS i1, i2, b1, b2
ContentOne == <<b1>>
ContentThree == <<b1, b2, b1>>
Symmetry == Permutations({i1, i2})
=============================================================================
