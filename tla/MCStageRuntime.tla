---------------------------- MODULE MCStageRuntime ----------------------------
(* Small instances of StageRuntime. *)
EXTENDS StageRuntime, TLC

CONSTANTS l1, l2

MCLenses == {l1, l2}
\* Lenses are interchangeable.
Symmetric == Permutations(MCLenses)

TwoStages == <<"evidence_pack", "framework_lenses">>
Policies == [s \in Stages |-> 1]
DeclinableStages == {"evidence_pack"}
AllAdvisory == [l \in Lenses |-> 1]
=============================================================================
