-------------------------- MODULE MCCommittedDrain --------------------------
(***************************************************************************)
(* Instances of the committed lane.                                        *)
(***************************************************************************)
EXTENDS CommittedDrain

(* One message per block, but two in the block after the first.            *)
MCEventCount == [h \in Heights |-> IF h = FirstHeight + 1 THEN 1 ELSE 0]
MCNoEvents == [h \in Heights |-> 0]

(* The primary node has lost the second height, the independent has all.   *)
MCMissing == [s \in Plans |-> IF s = Primary THEN {FirstHeight + 1} ELSE {}]
MCNothing == [s \in Plans |-> {}]
(* The mapper refuses the last height of the independent source.           *)
MCUnmappable == [s \in Plans |-> IF s = Independent THEN {LastHeight} ELSE {}]
=============================================================================
