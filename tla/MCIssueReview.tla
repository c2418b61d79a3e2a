----------------------------- MODULE MCIssueReview -----------------------------
\* Small instances of IssueReview: one issue, a few jobs and selections.
EXTENDS IssueReview
=============================================================================
