-------------------------------- MODULE PRStates --------------------------------
(***************************************************************************)
(* The states of a pull request in the database, and the phases of its     *)
(* workflow (internal/pullrequest/workflow.go).  "waiting" is the state    *)
(* that the database holds as an empty text, "none" no row.                *)
(***************************************************************************)

Works == {"review", "fix", "conflict"}
Stages == Works \cup {"verification"}
Phases == Stages \cup {"review_approved"}
Failed == {"review_failed", "review_fix_failed", "pr_conflict_failed"}
Running == {"review_running", "review_fix_running", "pr_conflict_running"}
Ready == {"review_ready", "review_fix_ready", "pr_conflict_ready"}
Decided == {"review_approved", "pr_review_comment", "review_fixed", "pr_conflict_resolved"}
States == {"none", "waiting", "failed", "pr_conflict", "completed"}
          \cup Failed \cup Running \cup Ready \cup Decided

\* pullRequestPhase: a failure comes first, then a conflict, whatever was under way.
PhaseFor(state, conflicted) ==
  IF state = "failed" THEN "review_failed"
  ELSE IF state \in Failed THEN state
  ELSE IF conflicted \/ state = "pr_conflict" THEN "conflict"
  ELSE IF state \in {"pr_review_comment", "review_fix_running", "review_fix_ready"} THEN "fix"
  ELSE IF state = "review_approved" THEN "review_approved"
  ELSE "review"

\* pullRequestStateForPhase: what is stored for one that has no row yet.
StateForPhase(loaded) ==
  CASE loaded = "fix" -> "pr_review_comment"
    [] loaded = "conflict" -> "pr_conflict"
    [] loaded = "review" -> "waiting"
    [] OTHER -> loaded

\* The phase that a failed one is retried in.
RetriedIn(loaded) ==
  CASE loaded = "review_fix_failed" -> "fix"
    [] loaded = "pr_conflict_failed" -> "conflict"
    [] loaded = "review_failed" -> "review"
    [] OTHER -> loaded

\* Start, Finish and the approvals.
StartState(p) == CASE p = "fix" -> "review_fix_running" [] p = "conflict" -> "pr_conflict_running"
                   [] OTHER -> "review_running"
ReadyState(p) == CASE p = "fix" -> "review_fix_ready" [] p = "conflict" -> "pr_conflict_ready"
                   [] OTHER -> "review_ready"
FailedState(p) == CASE p = "fix" -> "review_fix_failed" [] p = "conflict" -> "pr_conflict_failed"
                    [] OTHER -> "review_failed"
DecidedState(p, decision) ==
  CASE decision = "changes" -> "pr_review_comment"
    [] p = "fix" -> "review_fixed"
    [] p = "conflict" -> "pr_conflict_resolved"
    [] OTHER -> "review_approved"

\* resultArtifactPath: verification results have a path of their own.
ArtifactOf(p) == IF p \in {"fix", "conflict"} THEN p ELSE "review"
=================================================================================
