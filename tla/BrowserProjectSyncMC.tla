----------------------- MODULE BrowserProjectSyncMC ------------------------
(* Instances of BrowserProjectSync for TLC; the bounds are in the .cfg files. *)
EXTENDS BrowserProjectSync
=============================================================================
