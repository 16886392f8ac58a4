------------------------ MODULE MCServerLifecycle ------------------------
(***************************************************************************)
(* Instances of ServerLifecycle for TLC; MaxStarts is set in the .cfg.     *)
(***************************************************************************)
EXTENDS ServerLifecycle
=============================================================================
