\* Two requests over two jobs of both kinds of session, until Run is cancelled.
\* The operator answers once or for the job.
SPECIFICATION Spec
CONSTANTS
  Handlers = {h1, h2}
  Subjects = {"notes"}
  InitialAllowed = {}
  AllowedPaths = {"notes"}
  RequestKinds = {"command", "path", "unsupported"}
  TypedScopes = {"job"}
  JobKinds = {"prompt", "execute"}
  MaxJob = 2
  NoPrompt = NoPrompt
SYMMETRY HandlerSymmetry
INVARIANTS
  OnePromptAtATime
  NoDecisionBeforePrompt
PROPERTIES
  PromptJobStartsUngranted
  GateSpec
CHECK_DEADLOCK FALSE
