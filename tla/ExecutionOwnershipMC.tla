------------------------ MODULE ExecutionOwnershipMC ------------------------
(* Instances of ExecutionOwnership for TLC.                                *)
EXTENDS ExecutionOwnership, TLC

CONSTANTS h1, h2

HandoffSymmetry == Permutations(Handoffs)

=============================================================================
