-------------------------- MODULE MCAuxiliaryLane --------------------------
(* Instances of AuxiliaryLane for TLC.                                     *)
EXTENDS AuxiliaryLane
EpochSymmetry == Permutations(Epochs)
=============================================================================
