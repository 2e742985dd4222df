-------------------------- MODULE TaskLifecycleMC --------------------------
(* Values for the constants of TaskLifecycle. *)
EXTENDS TaskLifecycle

OneOperation == {1}
TwoOperations == {1, 2}
=============================================================================
