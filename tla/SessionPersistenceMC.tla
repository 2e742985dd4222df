------------------------ MODULE SessionPersistenceMC ------------------------
(* Model values for checking SessionPersistence.                           *)
EXTENDS SessionPersistence
CONSTANTS h1, h2
MCTwoHooks == {h1, h2}
=============================================================================
