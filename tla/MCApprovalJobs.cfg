\* Two requests that contend for the slot, over a job of either kind, until Run
\* is cancelled.  Liveness: no symmetry.
SPECIFICATION FairSpec
CONSTANTS
  Handlers = {h1, h2}
  Subjects = {"notes"}
  InitialAllowed = {}
  AllowedPaths = {"notes"}
  RequestKinds = {"command"}
  TypedScopes = {"permanent"}
  JobKinds = {"prompt", "execute"}
  MaxJob = 1
  NoPrompt = NoPrompt
PROPERTIES
  RequestIsAnswered
CHECK_DEADLOCK FALSE
