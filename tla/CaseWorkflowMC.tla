--------------------------- MODULE CaseWorkflowMC ----------------------------
(* A small instance of CaseWorkflow for TLC: an administrator and a safety    *)
(* manager at one desk.                                                       *)
EXTENDS CaseWorkflow, TLC
CONSTANTS boss, manager
Desk == {boss, manager}
DeskRole == [u \in Desk |-> IF u = boss THEN "org_admin" ELSE "safety_manager"]
ArtifactSymmetry == Permutations(Artifacts)
==============================================================================
