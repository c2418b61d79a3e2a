------------------------------ MODULE MCAutoRoles ------------------------------
(***************************************************************************)
(* An instance of AutoRoles: an issue and a pull request, which is open    *)
(* from the start or comes from the issue.                                 *)
(***************************************************************************)
EXTENDS AutoRoles

MCIssues == {1}
MCPullRequests == {2}
MCIssueLabels == {"design_ready", "pr_created"}
MCPRLabels == {"pr_review_comment"}
MCFailures == {"gh", "start", "job", "crash", "cancel"}
=============================================================================
