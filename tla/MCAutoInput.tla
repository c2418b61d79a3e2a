------------------------------- MODULE MCAutoInput -------------------------------
(***************************************************************************)
(* A small instance of AutoInput: two waits, so that a goroutine of the    *)
(* first one meets the second or the daemon after it, and three lines, so  *)
(* that one is typed before, in and after a wait.                          *)
(***************************************************************************)
EXTENDS AutoInput
=============================================================================
