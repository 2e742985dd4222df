------------------------ MODULE BoardPublicationMC -------------------------
(* Model values for BoardPublication: every bound is given in the cfg. *)
EXTENDS BoardPublication
=============================================================================
