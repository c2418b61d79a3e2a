------------------------------ MODULE MCFixEngine ------------------------------
(***************************************************************************)
(* Small instances of FixEngine.  Two turns and two selections let a phase *)
(* meet what another one has left in the worktree.                         *)
(***************************************************************************)
EXTENDS FixEngine
=============================================================================
