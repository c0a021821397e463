---------------------------- MODULE MCDopMemory -----------------------------
(* DopMemory for a few components and regions. *)
EXTENDS DopMemory, TLC

RegionSymmetry == Permutations(Regions)
=============================================================================
