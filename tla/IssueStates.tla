------------------------------- MODULE IssueStates -------------------------------
(***************************************************************************)
(* The states of an issue in the database, and the phases of its workflow  *)
(* (internal/issue/workflow.go).  "none" stands for no row.                *)
(***************************************************************************)

Stages == {"design", "implementation"}
Ready == {"design_ready", "implementation_ready"}
Failed == {"design_failed", "implementation_failed"}
Running == {"design_running", "implementation_running"}
Phases == Stages \cup Ready \cup Failed
States == {"none", "detected", "design_approved", "failed", "pr_created"}
          \cup Ready \cup Failed \cup Running

\* classify; it refuses an issue whose pull request exists.
Classify(state) ==
  CASE state \in Ready \cup Failed \cup {"failed"} -> state
    [] state \in {"design_approved", "implementation_running"} -> "implementation"
    [] OTHER -> "design"

\* issueStateForPhase: what is stored for an issue that has no row yet.
StateForPhase(phase) ==
  CASE phase = "design" -> "detected"
    [] phase = "implementation" -> "implementation_running"
    [] OTHER -> phase

Stage(phase) == IF phase \in {"implementation", "implementation_ready", "implementation_failed"}
                THEN "implementation" ELSE "design"

\* Start, Finish and artifactPath each test the phase in their own way.
StartState(phase) ==
  IF phase \in {"implementation", "implementation_ready"} THEN "implementation_running" ELSE "design_running"
ReadyState(phase) == IF phase = "implementation" THEN "implementation_ready" ELSE "design_ready"
FailedState(phase) == IF phase = "implementation" THEN "implementation_failed" ELSE "design_failed"
ArtifactOf(phase) ==
  IF phase \in {"implementation", "implementation_ready"} THEN "implementation" ELSE "design"
=================================================================================
