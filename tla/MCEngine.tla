-------------------------------- MODULE MCEngine --------------------------------
(***************************************************************************)
(* Small instances of Engine.  Two attempts and four turns let a run fail, *)
(* pass, be revised and be started over.                                   *)
(***************************************************************************)
EXTENDS Engine
=============================================================================
