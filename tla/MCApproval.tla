------------------------------ MODULE MCApproval ------------------------------
(* Small instances of the approval gate. *)
EXTENDS Approval, TLC

\* Handlers only differ in their names.
HandlerSymmetry == Permutations(Handlers)
=============================================================================
