\* One issue and one pull request.
SPECIFICATION FairRolesSpec
CONSTANTS
  Issues <- MCIssues
  PullRequests <- MCPullRequests
  IssueLabels <- MCIssueLabels
  PRLabels <- MCPRLabels
  Failures <- MCFailures
  MaxAnswer = 2
  MaxConflict = 1
INVARIANTS
  RolesInvariant
  FixIsAlone
PROPERTIES
  StatesInOrder
  HandedOver
CHECK_DEADLOCK FALSE
