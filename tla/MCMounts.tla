------------------------------ MODULE MCMounts ------------------------------
(* Tasks, images, hosts and texts are interchangeable; units are not.      *)
EXTENDS Mounts, TLC

Symmetry ==
  Permutations(Tasks) \cup Permutations(Images) \cup Permutations(Hosts) \cup Permutations(Texts)

=============================================================================
