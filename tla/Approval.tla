------------------------------- MODULE Approval -------------------------------
(***************************************************************************)
(* The approval gate of the resident daemon (internal/daemon/daemon.go).   *)
(*                                                                         *)
(* Every approval request of an AI session is served by a goroutine of its *)
(* own (a handler).  Handlers share the allow list, the temporary grants,  *)
(* a one-place channel that serialises the prompts (approvalQueue), and    *)
(* the prompt the operator is asked about (pendingApproval).  The input    *)
(* goroutine answers the prompt; the worker goroutine starts and ends the  *)
(* jobs to which job-scoped grants belong.  What becomes of config.json    *)
(* when a command is allowed for good, or cannot be, is in Workspace.      *)
(*                                                                         *)
(* A session carries the context it was started with.  The primary session *)
(* is started with the context of the process, so its requests belong to   *)
(* whatever job is active; the sessions of an engine are started with the  *)
(* context of the job that first ran the engine, and keep that job's id.   *)
(***************************************************************************)
EXTENDS Naturals

CONSTANTS Handlers,       \* request goroutines that may be alive at once
          Subjects,       \* commands and paths a request can be about
          InitialAllowed, \* builtinAllowedCommands of the configuration
          AllowedPaths,   \* builtinAllowedPaths of the configuration
          RequestKinds,   \* the kinds of request that agents make
          TypedScopes,    \* the scopes that the operator approves with
          JobKinds,       \* the kinds of job that are run: prompt, execute
          MaxJob,         \* bound: jobs that are started
          NoPrompt        \* the nil *approvalPrompt

ASSUME ApprovalAssumption ==
  /\ Subjects # {}
  /\ InitialAllowed \subseteq Subjects
  /\ AllowedPaths \subseteq Subjects
  /\ RequestKinds \subseteq {"command", "file", "path", "unsupported"}
  /\ TypedScopes \subseteq {"approve", "permanent", "job", "process"}
  /\ JobKinds \subseteq {"prompt", "execute"}
  /\ MaxJob \in Nat
  /\ NoPrompt \notin Handlers

VARIABLES
  pc,         \* where each handler is in handleServerRequest
  request,    \* the request a handler serves
  answer,     \* the answer a handler returns
  decision,   \* the buffered channel of the handler's prompt
  ctxDone,    \* handlers that wait in a session whose context is done
  slot,       \* the handler that occupies approvalQueue
  pending,    \* pendingApproval
  allowed,    \* allowedCommands, in memory
  jobAll,     \* temporaryJobAllowAll
  processAll, \* temporaryProcessAllowAll
  input,      \* the input goroutine: its place, its line and its prompt
  worker,     \* the worker goroutine
  activeJob,  \* activeJobID
  lastJob,    \* the id of the last job taken from the queue
  open,       \* the sessions that are running
  engineJob,  \* the job id in the context of the engine's sessions
  cancelled   \* the context of Run is done

handlerVars == <<pc, request, answer, decision, slot, pending>>
grantVars == <<allowed, jobAll, processAll>>
workerVars == <<worker, activeJob, lastJob, engineJob>>
vars == <<handlerVars, ctxDone, grantVars, input, workerVars, open, cancelled>>

Kinds == {"command", "file", "path", "unsupported"}
Sessions == {"primary", "engine"}
JobIds == 0 .. MaxJob
Request == [session : Sessions, kind : Kinds, subject : Subjects, job : JobIds]
NoRequest == [session |-> "primary", kind |-> "unsupported",
              subject |-> CHOOSE s \in Subjects : TRUE, job |-> 0]

Scopes == {"approve", "permanent", "job", "process"}
Line == [decision : {"accept", "decline"}, scope : Scopes, subject : Subjects]
Enter == [decision |-> "accept", scope |-> "approve",
          subject |-> NoRequest.subject]

\* The lines that reach respondApproval.  /decline has no scope, and only
\* "/allow <command>" names a command.
Lines == {[Enter EXCEPT !.decision = "decline"]}
         \cup {[Enter EXCEPT !.scope = scope] : scope \in TypedScopes \ {"permanent"}}
         \cup {[Enter EXCEPT !.scope = "permanent", !.subject = s] :
                 s \in {n \in Subjects : "permanent" \in TypedScopes}}

Idle == [pc |-> "idle", line |-> Enter, prompt |-> NoPrompt, job |-> 0]

TypeOK ==
  /\ pc \in [Handlers -> {"idle", "queued", "acquired", "waiting", "clearing", "releasing",
                       "returning"}]
  /\ request \in [Handlers -> Request]
  /\ answer \in [Handlers -> {"none", "auto", "accept", "decline", "error"}]
  /\ decision \in [Handlers -> {"none", "accept", "decline"}]
  /\ ctxDone \in SUBSET Handlers
  /\ slot \in Handlers \cup {NoPrompt}
  /\ pending \in Handlers \cup {NoPrompt}
  /\ allowed \in SUBSET Subjects
  /\ jobAll \in SUBSET JobIds
  /\ processAll \in BOOLEAN
  /\ input \in [pc : {"idle", "read", "apply", "send"}, line : Line,
                prompt : Handlers \cup {NoPrompt}, job : JobIds]
  /\ worker \in {"idle", "prompt", "execute", "finishing"}
  /\ activeJob \in JobIds
  /\ lastJob \in JobIds
  /\ open \in SUBSET Sessions
  /\ engineJob \in JobIds
  /\ cancelled \in BOOLEAN

Init ==
  /\ pc = [h \in Handlers |-> "idle"]
  /\ request = [h \in Handlers |-> NoRequest]
  /\ answer = [h \in Handlers |-> "none"]
  /\ decision = [h \in Handlers |-> "none"]
  /\ ctxDone = {}
  /\ slot = NoPrompt
  /\ pending = NoPrompt
  /\ allowed = InitialAllowed
  /\ jobAll = {}
  /\ processAll = FALSE
  /\ input = Idle
  /\ worker = "idle"
  /\ activeJob = 0
  /\ lastJob = 0
  /\ open = {"primary"}
  /\ engineJob = 0
  /\ cancelled = FALSE

-----------------------------------------------------------------------------
(* Request handlers: handleServerRequest *)

\* The job a request of session s belongs to: the value in the context the
\* session was started with, else activeJobID.
JobOf(s) == IF s = "engine" THEN engineJob ELSE activeJob

\* The allow-all grants, the allow list and the path list, as they are when
\* the request arrives.
AllowAll(job) == processAll \/ (job # 0 /\ job \in jobAll)

AutoAccepted(r) ==
  \/ r.kind = "command" /\ (AllowAll(r.job) \/ r.subject \in allowed)
  \/ r.kind = "path" /\ r.subject \in AllowedPaths

\* A request arrives and is answered at once, or goes on to wait for its turn
\* to be shown.
Arrive(h, s, kind, subject) ==
  LET r == [session |-> s, kind |-> kind, subject |-> subject, job |-> JobOf(s)]
      now == kind = "unsupported" \/ AutoAccepted(r) IN
  /\ pc[h] = "idle" /\ s \in open
  /\ request' = IF now THEN request ELSE [request EXCEPT ![h] = r]
  /\ pc' = [pc EXCEPT ![h] = IF now THEN "returning" ELSE "queued"]
  /\ answer' = [answer EXCEPT ![h] = CASE kind = "unsupported" -> "error"
                                        [] now -> "auto"
                                        [] OTHER -> "none"]
  /\ UNCHANGED <<decision, slot, pending, ctxDone, grantVars, input, workerVars, open, cancelled>>

\* approvalQueue <- struct{}{}
Acquire(h) ==
  /\ pc[h] = "queued" /\ slot = NoPrompt
  /\ slot' = h
  /\ pc' = [pc EXCEPT ![h] = "acquired"]
  /\ UNCHANGED <<request, answer, decision, pending, ctxDone, grantVars, input, workerVars, open, cancelled>>

\* A fresh prompt, with an empty decision channel, becomes pendingApproval.
Show(h) ==
  /\ pc[h] = "acquired"
  /\ pending' = h
  /\ decision' = [decision EXCEPT ![h] = "none"]
  /\ pc' = [pc EXCEPT ![h] = "waiting"]
  /\ UNCHANGED <<request, answer, slot, ctxDone, grantVars, input, workerVars, open, cancelled>>

\* The handler receives the decision that was sent to its prompt.
Decide(h) ==
  /\ pc[h] = "waiting" /\ decision[h] # "none"
  /\ answer' = [answer EXCEPT ![h] = decision[h]]
  /\ pc' = [pc EXCEPT ![h] = "clearing"]
  /\ ctxDone' = ctxDone \ {h}
  /\ UNCHANGED <<request, decision, slot, pending, grantVars, input, workerVars, open, cancelled>>

\* Mutant: a request whose session has ended is reported as accepted.
AbandonAccepting(h) ==
  /\ h \in ctxDone /\ pc[h] \in {"queued", "waiting"}
  /\ answer' = [answer EXCEPT ![h] = "auto"]
  /\ pc' = [pc EXCEPT ![h] = IF @ = "queued" THEN "returning" ELSE "clearing"]
  /\ ctxDone' = ctxDone \ {h}
  /\ UNCHANGED <<request, decision, slot, pending, grantVars, input, workerVars, open, cancelled>>

\* Mutant: the prompt of a request whose session has ended is not withdrawn.
AbandonShown(h) ==
  /\ h \in ctxDone /\ pc[h] \in {"queued", "waiting"}
  /\ answer' = [answer EXCEPT ![h] = "error"]
  /\ pc' = [pc EXCEPT ![h] = IF @ = "queued" THEN "returning" ELSE "releasing"]
  /\ ctxDone' = ctxDone \ {h}
  /\ UNCHANGED <<request, decision, slot, pending, grantVars, input, workerVars, open, cancelled>>

\* requestCtx.Done() while the handler waits for the slot or for the decision.
Abandon(h) ==
  /\ h \in ctxDone /\ pc[h] \in {"queued", "waiting"}
  /\ answer' = [answer EXCEPT ![h] = "error"]
  /\ pc' = [pc EXCEPT ![h] = IF @ = "queued" THEN "returning" ELSE "clearing"]
  /\ ctxDone' = ctxDone \ {h}
  /\ UNCHANGED <<request, decision, slot, pending, grantVars, input, workerVars, open, cancelled>>

\* First deferred call: the prompt is withdrawn if it is still the pending one,
\* and with it what the operator was shown of the request.
ClearPending(h) ==
  /\ pc[h] = "clearing"
  /\ request' = [request EXCEPT ![h] = NoRequest]
  /\ pending' = IF pending = h THEN NoPrompt ELSE pending
  /\ pc' = [pc EXCEPT ![h] = "releasing"]
  /\ UNCHANGED <<answer, decision, slot, ctxDone, grantVars, input, workerVars, open, cancelled>>

\* Mutant: the slot is not given back.
ReleaseNothing(h) ==
  /\ pc[h] = "releasing"
  /\ pc' = [pc EXCEPT ![h] = "returning"]
  /\ UNCHANGED <<request, answer, decision, slot, pending, ctxDone, grantVars, input, workerVars, open, cancelled>>

\* Second deferred call: the slot is freed.
Release(h) ==
  /\ pc[h] = "releasing"
  /\ slot' = NoPrompt
  /\ pc' = [pc EXCEPT ![h] = "returning"]
  /\ UNCHANGED <<request, answer, decision, pending, ctxDone, grantVars, input, workerVars, open, cancelled>>

\* Mutant: prompts share the channel of their handler.
ForgottenNever(h) == IF h \in Handlers THEN input ELSE Idle

\* The session writes the response and the goroutine ends.  The input goroutine
\* may still hold its prompt: what it sends there is never received.
Forgotten(h) == IF input.prompt = h THEN [input EXCEPT !.prompt = NoPrompt] ELSE input

Reply(h) ==
  /\ pc[h] = "returning"
  /\ pc' = [pc EXCEPT ![h] = "idle"]
  /\ request' = [request EXCEPT ![h] = NoRequest]
  /\ answer' = [answer EXCEPT ![h] = "none"]
  /\ decision' = [decision EXCEPT ![h] = "none"]
  /\ input' = Forgotten(h)
  /\ UNCHANGED <<slot, pending, ctxDone, grantVars, workerVars, open, cancelled>>

-----------------------------------------------------------------------------
(* The input goroutine: processInput and respondApproval *)

\* An empty line is an approval if a prompt is pending when it is read.
PressEnter ==
  /\ input.pc = "idle" /\ pending # NoPrompt /\ ~cancelled
  /\ input' = [Idle EXCEPT !.pc = "read"]
  /\ UNCHANGED <<handlerVars, ctxDone, grantVars, workerVars, open, cancelled>>

\* /approve, /allow, /allow <command>, /allow-job, /allow-process, /decline
TypeLine(line) ==
  /\ input.pc = "idle" /\ ~cancelled
  /\ input' = [Idle EXCEPT !.pc = "read", !.line = line]
  /\ UNCHANGED <<handlerVars, ctxDone, grantVars, workerVars, open, cancelled>>

\* approval := pendingApproval
ReadPending ==
  /\ input.pc = "read"
  /\ input' = IF pending = NoPrompt THEN Idle
              ELSE [input EXCEPT !.pc = "apply", !.prompt = pending,
                                 !.job = request[pending].job]
  /\ UNCHANGED <<handlerVars, ctxDone, grantVars, workerVars, open, cancelled>>

\* The grant the line asks for is recorded.
GrantScope ==
  /\ input.pc = "apply"
  /\ \/ input.line.scope = "approve" /\ UNCHANGED grantVars
     \/ /\ input.line.scope = "job" /\ input.job # 0
        /\ jobAll' = jobAll \cup {input.job}
        /\ UNCHANGED <<allowed, processAll>>
     \/ /\ input.line.scope = "process"
        /\ processAll' = TRUE
        /\ UNCHANGED <<allowed, jobAll>>
     \/ /\ input.line.scope = "permanent"
        /\ allowed' = allowed \cup {input.line.subject}
        /\ UNCHANGED <<jobAll, processAll>>
  /\ input' = [input EXCEPT !.pc = "send"]
  /\ UNCHANGED <<handlerVars, ctxDone, workerVars, open, cancelled>>

\* The grant cannot be recorded: no job to grant to, or the configuration
\* cannot be saved.  The request stays pending and the command is not allowed.
RefuseScope ==
  /\ input.pc = "apply"
  /\ \/ input.line.scope = "job" /\ input.job = 0
     \/ input.line.scope = "permanent"
  /\ input' = Idle
  /\ UNCHANGED <<handlerVars, ctxDone, grantVars, workerVars, open, cancelled>>

\* The decision is sent without blocking, and dropped if one was sent before.
SendDecision ==
  /\ input.pc = "send"
  /\ decision' = IF input.prompt = NoPrompt \/ decision[input.prompt] # "none" THEN decision
                 ELSE [decision EXCEPT ![input.prompt] = input.line.decision]
  /\ input' = Idle
  /\ UNCHANGED <<pc, request, answer, slot, pending, ctxDone, grantVars, workerVars, open, cancelled>>

-----------------------------------------------------------------------------
(* The worker goroutine and the sessions *)

\* Closing sessions ends the context of their requests: those that still wait
\* for the slot or for a decision will see it.
OutstandingOf(sessions) ==
  {h \in Handlers : pc[h] \in {"queued", "acquired", "waiting"} /\ request[h].session \in sessions}
CloseSessions(sessions) ==
  /\ open' = open \ sessions
  /\ ctxDone' = ctxDone \cup OutstandingOf(sessions)

\* Mutant: ids are read from the counter without advancing it.
TakeJobSameId(kind) ==
  /\ worker = "idle" /\ lastJob < MaxJob
  /\ worker' = kind
  /\ lastJob' = 1
  /\ activeJob' = 1
  /\ UNCHANGED <<handlerVars, ctxDone, grantVars, input, engineJob, open, cancelled>>

\* The next job is taken from the queue: activeJobID.Store(job.id)
TakeJob(kind) ==
  /\ worker = "idle" /\ lastJob < MaxJob
  /\ worker' = kind
  /\ lastJob' = lastJob + 1
  /\ activeJob' = lastJob + 1
  /\ UNCHANGED <<handlerVars, ctxDone, grantVars, input, engineJob, open, cancelled>>

\* A prompt job runs in the primary session, which is started if there is none.
StartPrimary ==
  /\ worker = "prompt" /\ "primary" \notin open /\ ~cancelled
  /\ open' = open \cup {"primary"}
  /\ UNCHANGED <<handlerVars, ctxDone, grantVars, input, workerVars, cancelled>>

\* An execute job closes the primary session before it runs its engine.
ClosePrimary ==
  /\ worker = "execute" /\ "primary" \in open
  /\ CloseSessions({"primary"})
  /\ UNCHANGED <<handlerVars, grantVars, input, workerVars, cancelled>>

\* ensureStarted: the engine starts its sessions with the context of the job
\* that runs, unless they are running already.
StartEngine ==
  /\ worker = "execute" /\ open = {} /\ ~cancelled
  /\ open' = open \cup {"engine"}
  /\ engineJob' = activeJob
  /\ UNCHANGED <<handlerVars, ctxDone, grantVars, input, worker, activeJob, lastJob, cancelled>>

\* The turn or the engine returns, or a session could not be started:
\* activeJobID.Store(0)
EndJob ==
  /\ worker \in {"prompt", "execute"}
  /\ worker = "execute" => "primary" \notin open
  /\ worker' = "finishing"
  /\ activeJob' = 0
  /\ UNCHANGED <<handlerVars, ctxDone, grantVars, input, lastJob, engineJob, open, cancelled>>

\* The controller closes the engine, which its lock delays until it is not
\* running: on a failed job, on a reset, or when the result was approved.
CloseEngine ==
  /\ worker # "execute" /\ "engine" \in open
  /\ CloseSessions({"engine"})
  /\ UNCHANGED <<handlerVars, grantVars, input, workerVars, cancelled>>

\* clearJobCommands(job.id), after OnJobFinish
ClearJobGrants ==
  /\ worker = "finishing"
  /\ worker' = "idle"
  /\ jobAll' = jobAll \ {lastJob}
  /\ UNCHANGED <<handlerVars, ctxDone, allowed, processAll, input, activeJob, lastJob,
                 engineJob, open, cancelled>>

\* Ctrl+C, or a restart of the selection: the context of Run is done, and with
\* it that of every session.
Cancel ==
  /\ ~cancelled
  /\ cancelled' = TRUE
  /\ CloseSessions(Sessions)
  /\ UNCHANGED <<handlerVars, grantVars, input, workerVars>>

-----------------------------------------------------------------------------
Handle(h) ==
  \/ \E s \in Sessions, kind \in RequestKinds, subject \in Subjects : Arrive(h, s, kind, subject)
  \/ Acquire(h) \/ Show(h) \/ Decide(h) \/ Abandon(h) \/ ClearPending(h)
  \/ Release(h) \/ Reply(h)

Operate ==
  \/ PressEnter
  \/ \E line \in Lines : TypeLine(line)
  \/ ReadPending \/ GrantScope \/ RefuseScope \/ SendDecision

Work ==
  \/ \E kind \in JobKinds : TakeJob(kind)
  \/ StartPrimary \/ ClosePrimary \/ StartEngine \/ EndJob
  \/ CloseEngine \/ ClearJobGrants

Next == (\E h \in Handlers : Handle(h)) \/ Operate \/ Work \/ Cancel

Spec == Init /\ [][Next]_vars

\* Goroutines keep running; a channel serves its waiting senders in turn; and
\* the operator eventually presses Enter on a prompt that stays.
Fairness ==
  /\ \A h \in Handlers :
       /\ SF_vars(Acquire(h))
       /\ WF_vars(Show(h) \/ Decide(h) \/ ClearPending(h) \/ Release(h) \/ Reply(h))
       /\ WF_vars(Abandon(h))
  /\ WF_vars(ReadPending \/ GrantScope \/ RefuseScope \/ SendDecision)
  /\ SF_vars(PressEnter)

FairSpec == Spec /\ Fairness

-----------------------------------------------------------------------------
(* Properties *)

Served == {"acquired", "waiting", "clearing", "releasing"}

\* At most one request is being shown at a time, the operator's answer can only
\* meet the request that occupies the slot, and a prompt that was withdrawn is
\* not pending any more: pendingApproval never outlives the handler that set it.
OnePromptAtATime ==
  /\ \A h \in Handlers : pc[h] \in Served => slot = h
  /\ pending # NoPrompt => pc[pending] \in {"waiting", "clearing"}

\* A request that has not been shown has no decision waiting for it: a late
\* answer to an earlier prompt cannot decide a later request, even when the
\* input goroutine was overtaken between reading the prompt and answering it.
NoDecisionBeforePrompt ==
  \A h \in Handlers : decision[h] # "none" => pc[h] \in {"waiting", "clearing", "releasing", "returning"}

\* The first decision stands: a second answer typed before the handler has taken
\* the first one does not replace it, and what the handler returns is the
\* decision that was sent.
DecisionStands ==
  [][\A h \in Handlers :
       /\ decision[h] # "none" /\ pc'[h] # "idle" => decision'[h] = decision[h]
       /\ answer'[h] # answer[h] /\ answer'[h] \in {"accept", "decline"} => answer'[h] = decision[h]]_vars

\* A job that runs in the primary session starts without a job-scoped grant,
\* however late the answers to the requests of earlier jobs come.
PromptJobStartsUngranted ==
  [][activeJob = 0 /\ activeJob' # 0 => JobOf("primary")' \notin jobAll]_vars

\* Seen from outside, the handlers are the gate of ApprovalGate: requests wait
\* while they are queued, and are answered when the handler has its answer.
PhaseOf(place) ==
  CASE place = "idle" -> "quiet"
    [] place \in {"queued", "acquired"} -> "waiting"
    [] place = "waiting" -> "shown"
    [] OTHER -> "answered"

GatePhase == [h \in Handlers |-> PhaseOf(pc[h])]

Gate == INSTANCE ApprovalGate WITH phase <- GatePhase, verdict <- answer
GateSpec == Gate!Spec

\* Every request that waits is answered.
RequestIsAnswered == \A h \in Handlers : pc[h] = "queued" ~> pc[h] = "idle"
=============================================================================
