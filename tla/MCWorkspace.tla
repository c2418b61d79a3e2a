------------------------------- MODULE MCWorkspace -------------------------------
(***************************************************************************)
(* An instance of Workspace: two processes and a config command over one   *)
(* clone with one change of the operator's and one configuration.          *)
(***************************************************************************)
EXTENDS Workspace, TLC

CONSTANTS P1, P2, C1, C2

MCProcesses == {P1, P2}
MCEdits == {"edit"}
MCCommands == {C1, C2}
MCFaults == {"git", "conflict", "crash", "disk"}
\* Neither the processes nor the commands are told apart, and nothing is checked
\* under fairness.
MCSymmetry == Permutations(MCProcesses) \cup Permutations(MCCommands)
=================================================================================
