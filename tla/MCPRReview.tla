------------------------------- MODULE MCPRReview -------------------------------
(***************************************************************************)
(* Small instances of PRReview.  Four jobs let a review be run, fail or    *)
(* be repeated, and be verified; two selections let a process be followed  *)
(* by one that reads what it has left.                                     *)
(***************************************************************************)
EXTENDS PRReview
=============================================================================
