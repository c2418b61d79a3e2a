-------------------------------- MODULE Resident --------------------------------
(***************************************************************************)
(* The resident daemon (internal/daemon/daemon.go, Run): the input         *)
(* goroutine, the bounded job queue, the worker and the primary session.   *)
(*                                                                         *)
(* The input goroutine does everything a line asks for before it reads the *)
(* next one: it prepares and announces a job, waits for room in the queue, *)
(* or switches the model of the session.  It is also the one that answers  *)
(* the requests for approval a turn waits for.  sessionMu protects the     *)
(* primary session; a turn of the session, of which a Copilot session      *)
(* takes one to switch its model, is protected by the session's turnMu.    *)
(*                                                                         *)
(* What HandleInput does with a line, and whether a turn succeeds, is left *)
(* open; Approval and IssueReview have the details.                        *)
(***************************************************************************)
EXTENDS Naturals, Sequences

CONSTANTS Capacity,   \* the capacity of residentJobs
          Providers,  \* what the primary session can be: codex, copilot
          Models,     \* the models to choose from
          Faults,     \* what can fail: "prepare", "session", "model", "die"
          MaxJob      \* bound: jobs that are submitted

ASSUME ResidentAssumption ==
  /\ Capacity \in Nat \ {0} /\ MaxJob \in Nat
  /\ Providers \subseteq {"codex", "copilot"}
  /\ Models # {}
  /\ Faults \subseteq {"prepare", "session", "model", "die"}

VARIABLES
  provider,
  reader,        \* the input goroutine, its job and the model it switches to
  queue,         \* residentJobs
  closed,        \* residentJobs is closed
  worker,        \* the worker goroutine and its job
  session,       \* primarySession: none, live, or dead but still there
  sessionModel,  \* the model it runs
  current,       \* currentModel
  cancelled,     \* the context of Run is done
  lastJob        \* nextID

models == <<sessionModel, current>>
vars == <<provider, reader, queue, closed, worker, session, models, cancelled, lastJob>>

Kinds == {"prompt", "execute"}
Job == [id : 0 .. MaxJob, kind : Kinds, model : Models]
AnyModel == CHOOSE model \in Models : TRUE
NoJob == [id |-> 0, kind |-> "prompt", model |-> AnyModel]
Idle == [pc |-> "idle", job |-> NoJob, model |-> AnyModel]

TypeOK ==
  /\ provider \in Providers
  /\ reader \in [pc : {"idle", "prepare", "send", "lock", "set", "turn", "wait", "returned"},
                 job : Job, model : Models]
  /\ queue \in Seq(Job) /\ Len(queue) <= Capacity
  /\ closed \in BOOLEAN /\ cancelled \in BOOLEAN
  /\ worker \in [pc : {"idle", "taken", "turn", "running", "asking", "finish", "ended"}, job : Job]
  /\ session \in {"none", "live", "dead"}
  /\ sessionModel \in Models /\ current \in Models
  /\ lastJob \in 0 .. MaxJob

NewJob(kind) == [id |-> lastJob + 1, kind |-> kind, model |-> current]

\* The primary session is started, and the initial job or prompt is submitted.
Init ==
  /\ provider \in Providers
  /\ session = "live"
  /\ current \in Models /\ sessionModel = current
  /\ \/ reader = Idle /\ lastJob = 0
     \/ MaxJob > 0 /\ lastJob = 1 /\ \E kind \in Kinds :
          reader = [Idle EXCEPT !.pc = "prepare", !.job = [id |-> 1, kind |-> kind, model |-> current]]
  /\ queue = <<>> /\ closed = FALSE
  /\ worker = [pc |-> "idle", job |-> NoJob]
  /\ cancelled = FALSE

CanFail(fault) == fault \in Faults \/ cancelled

-----------------------------------------------------------------------------
(* The locks *)

\* The input goroutine holds sessionMu while it switches the model; the worker
\* holds it no longer than a step.
SessionLocked == reader.pc \in {"set", "turn"}

\* turnMu of the primary session, held by the worker's turn.
PromptRuns == worker.pc \in {"running", "asking"} /\ worker.job.kind = "prompt"

-----------------------------------------------------------------------------
(* The input goroutine: the input loop, processInput, startJob and command *)

\* A line, or what HandleInput makes of it, is a job.
Submit ==
  /\ reader.pc = "idle" /\ lastJob < MaxJob
  /\ \E kind \in Kinds : reader' = [Idle EXCEPT !.pc = "prepare", !.job = NewJob(kind)]
  /\ lastJob' = lastJob + 1
  /\ UNCHANGED <<provider, queue, closed, worker, session, models, cancelled>>

\* BeforeJob or OnJobStart fails: the job is dropped.
PrepareFails ==
  /\ reader.pc = "prepare" /\ CanFail("prepare")
  /\ reader' = Idle
  /\ UNCHANGED <<provider, queue, closed, worker, session, models, cancelled, lastJob>>

\* OnJobStart announces the job; BeforeJob runs commands under the context.
Announce ==
  /\ reader.pc = "prepare" /\ ~cancelled
  /\ reader' = [reader EXCEPT !.pc = "send"]
  /\ UNCHANGED <<provider, queue, closed, worker, session, models, cancelled, lastJob>>

\* residentJobs <- job, which waits for room, whatever else happens.
Send ==
  /\ reader.pc = "send" /\ Len(queue) < Capacity
  /\ queue' = Append(queue, reader.job)
  /\ reader' = Idle
  /\ UNCHANGED <<provider, closed, worker, session, models, cancelled, lastJob>>

\* /model <model>
ChooseModel ==
  /\ reader.pc = "idle"
  /\ \E model \in Models : reader' = [Idle EXCEPT !.pc = "lock", !.model = model]
  /\ UNCHANGED <<provider, queue, closed, worker, session, models, cancelled, lastJob>>

\* sessionMu; without a session the model is only remembered.
LockSession ==
  /\ reader.pc = "lock"
  /\ IF session = "none"
     THEN current' = reader.model /\ reader' = Idle
     ELSE reader' = [reader EXCEPT !.pc = "set"] /\ UNCHANGED current
  /\ UNCHANGED <<provider, queue, closed, worker, session, sessionModel, cancelled, lastJob>>

\* CopilotSession.SetModel waits for the turn that runs, and then takes one.
TakeTurn ==
  /\ reader.pc = "set" /\ provider = "copilot" /\ ~PromptRuns
  /\ reader' = [reader EXCEPT !.pc = "turn"]
  /\ UNCHANGED <<provider, queue, closed, worker, session, models, cancelled, lastJob>>

Setting == reader.pc = (IF provider = "copilot" THEN "turn" ELSE "set")

\* The model of the session, and with it the current one, is switched.
SetModel ==
  /\ Setting /\ session = "live"
  /\ sessionModel' = reader.model /\ current' = reader.model
  /\ reader' = Idle
  /\ UNCHANGED <<provider, queue, closed, worker, session, cancelled, lastJob>>

\* The session refuses, or ends before it has answered.
\* Mutant: the end of the agent does not end the call that waits for it.
SetModelFailsAlive ==
  /\ Setting /\ session # "dead" /\ CanFail("model")
  /\ reader' = Idle
  /\ UNCHANGED <<provider, queue, closed, worker, session, models, cancelled, lastJob>>

SetModelFails ==
  /\ Setting /\ (session = "dead" \/ CanFail("model"))
  /\ reader' = Idle
  /\ UNCHANGED <<provider, queue, closed, worker, session, models, cancelled, lastJob>>

\* Enter, /approve or /decline while a request is shown.
Answer ==
  /\ reader.pc = "idle" /\ worker.pc = "asking"
  /\ worker' = [worker EXCEPT !.pc = "running"]
  /\ UNCHANGED <<provider, reader, queue, closed, session, models, cancelled, lastJob>>

\* Cancelling ends the process of the session, which stays where it is.
Kill == session' = IF session = "live" THEN "dead" ELSE session

\* HandleInput asks for the selection: Run is cancelled and left.
Restart ==
  /\ reader.pc = "idle"
  /\ cancelled' = TRUE /\ Kill
  /\ closed' = TRUE /\ reader' = [Idle EXCEPT !.pc = "wait"]
  /\ UNCHANGED <<provider, queue, worker, models, lastJob>>

\* The input ends, or the loop finds that the context is done.
Close ==
  /\ closed' = TRUE /\ reader' = [Idle EXCEPT !.pc = "wait"]
  /\ UNCHANGED <<provider, queue, worker, session, models, cancelled, lastJob>>

EndOfInput == reader.pc = "idle" /\ Close
Stop == reader.pc = "idle" /\ cancelled /\ Close

\* wg.Wait, and the deferred Close of the primary session.
Return ==
  /\ reader.pc = "wait" /\ worker.pc = "ended"
  /\ reader' = [reader EXCEPT !.pc = "returned"]
  /\ session' = "none"
  /\ UNCHANGED <<provider, queue, closed, worker, models, cancelled, lastJob>>

-----------------------------------------------------------------------------
(* The worker goroutine *)

\* Mutant: the queue is left as it is once the context is done.
TakeUnlessCancelled ==
  /\ worker.pc = "idle" /\ queue # <<>>
  /\ worker' = IF cancelled THEN worker ELSE [pc |-> "taken", job |-> Head(queue)]
  /\ queue' = Tail(queue)
  /\ UNCHANGED <<provider, reader, closed, session, models, cancelled, lastJob>>

\* The queue is drained, be it closed or the context done.
Take ==
  /\ worker.pc = "idle" /\ queue # <<>>
  /\ worker' = [pc |-> "taken", job |-> Head(queue)]
  /\ queue' = Tail(queue)
  /\ UNCHANGED <<provider, reader, closed, session, models, cancelled, lastJob>>

\* Mutant: the session is closed without its lock.
CloseSessionUnlocked ==
  /\ worker.pc = "taken" /\ worker.job.kind = "execute"
  /\ session' = "none"
  /\ worker' = [worker EXCEPT !.pc = "running"]
  /\ UNCHANGED <<provider, reader, queue, closed, models, cancelled, lastJob>>

\* A job with an executor closes the primary session and runs.
CloseSession ==
  /\ worker.pc = "taken" /\ worker.job.kind = "execute" /\ ~SessionLocked
  /\ session' = "none"
  /\ worker' = [worker EXCEPT !.pc = "running"]
  /\ UNCHANGED <<provider, reader, queue, closed, models, cancelled, lastJob>>

\* A prompt uses the session, dead or not, or starts one with the model that was
\* current when the job was submitted.
UseSession ==
  /\ worker.pc = "taken" /\ worker.job.kind = "prompt" /\ ~SessionLocked
  /\ IF session # "none" THEN UNCHANGED <<session, sessionModel>>
     ELSE ~cancelled /\ session' = "live" /\ sessionModel' = worker.job.model
  /\ worker' = [worker EXCEPT !.pc = "turn"]
  /\ UNCHANGED <<provider, reader, queue, closed, current, cancelled, lastJob>>

SessionFails ==
  /\ worker.pc = "taken" /\ worker.job.kind = "prompt" /\ ~SessionLocked
  /\ session = "none" /\ CanFail("session")
  /\ worker' = [worker EXCEPT !.pc = "finish"]
  /\ UNCHANGED <<provider, reader, queue, closed, session, models, cancelled, lastJob>>

\* RunTurn, once the input goroutine is not in a turn of its own.
BeginTurn ==
  /\ worker.pc = "turn" /\ reader.pc # "turn"
  /\ worker' = [worker EXCEPT !.pc = "running"]
  /\ UNCHANGED <<provider, reader, queue, closed, session, models, cancelled, lastJob>>

\* The turn waits for an approval.
Ask ==
  /\ worker.pc = "running" /\ ~cancelled
  /\ worker.job.kind = "prompt" => session = "live"
  /\ worker' = [worker EXCEPT !.pc = "asking"]
  /\ UNCHANGED <<provider, reader, queue, closed, session, models, cancelled, lastJob>>

\* Mutant: a request that waits is not given up with its session.
EndTurnAnswered ==
  /\ worker.pc = "running"
  /\ worker' = [worker EXCEPT !.pc = "finish"]
  /\ UNCHANGED <<provider, reader, queue, closed, session, models, cancelled, lastJob>>

\* The turn, or the executor, succeeds or fails; one that waits for an approval
\* does so when its agent has gone.
EndTurn ==
  /\ \/ worker.pc = "running"
     \/ /\ worker.pc = "asking"
        /\ cancelled \/ (IF PromptRuns THEN session = "dead" ELSE "die" \in Faults)
  /\ worker' = [worker EXCEPT !.pc = "finish"]
  /\ UNCHANGED <<provider, reader, queue, closed, session, models, cancelled, lastJob>>

\* OnJobFinish, whatever it returns, and clearJobCommands.
Finish ==
  /\ worker.pc = "finish"
  /\ worker' = [pc |-> "idle", job |-> NoJob]
  /\ UNCHANGED <<provider, reader, queue, closed, session, models, cancelled, lastJob>>

\* OnJobFinish asks for the selection.
FinishRestarts ==
  /\ worker.pc = "finish"
  /\ worker' = [pc |-> "idle", job |-> NoJob]
  /\ cancelled' = TRUE /\ Kill
  /\ UNCHANGED <<provider, reader, queue, closed, models, lastJob>>

WorkerEnds ==
  /\ worker.pc = "idle" /\ closed /\ queue = <<>>
  /\ worker' = [worker EXCEPT !.pc = "ended"]
  /\ UNCHANGED <<provider, reader, queue, closed, session, models, cancelled, lastJob>>

-----------------------------------------------------------------------------
(* The outside *)

\* Ctrl+C, SIGTERM or "exit".
Cancel ==
  /\ ~cancelled /\ reader.pc # "returned"
  /\ cancelled' = TRUE /\ Kill
  /\ UNCHANGED <<provider, reader, queue, closed, worker, models, lastJob>>

AgentDies ==
  /\ "die" \in Faults /\ session = "live"
  /\ Kill
  /\ UNCHANGED <<provider, reader, queue, closed, worker, models, cancelled, lastJob>>

-----------------------------------------------------------------------------
Operator == Submit \/ ChooseModel \/ Answer \/ Restart \/ EndOfInput \/ Cancel

ReaderStep ==
  \/ PrepareFails \/ Announce \/ Send \/ LockSession \/ TakeTurn \/ SetModel \/ SetModelFails \/ Return

WorkerStep ==
  \/ Take \/ CloseSession \/ UseSession \/ SessionFails \/ BeginTurn \/ EndTurn
  \/ Finish \/ FinishRestarts \/ WorkerEnds

Next == Operator \/ ReaderStep \/ Stop \/ WorkerStep \/ Ask \/ AgentDies

Spec == Init /\ [][Next]_vars

\* Goroutines go on and turns end; of a line that is there and a context that is
\* done, the loop takes the latter some day; and the operator answers requests.
FairSpec ==
  Spec /\ WF_vars(ReaderStep) /\ WF_vars(WorkerStep) /\ SF_vars(Stop) /\ SF_vars(Answer)

-----------------------------------------------------------------------------
(* Properties *)

\* Jobs that were announced, the one that waits for room included, are served in
\* order and one at a time; Run returns when none is left, however it ends.
Ids(jobs) == [i \in 1 .. Len(jobs) |-> jobs[i].id]

Service == INSTANCE JobService
             WITH Jobs <- 1 .. MaxJob,
                  waiting <- Ids(IF reader.pc = "send" THEN Append(queue, reader.job) ELSE queue),
                  serving <- worker.job.id,
                  over <- reader.pc = "returned"
ServiceSpec == Service!Spec

\* The primary session is not closed under a turn, be it the worker's or the one
\* in which the input goroutine switches the model.
NotClosedInTurn ==
  [][session # "none" /\ session' = "none" => ~PromptRuns /\ reader.pc # "turn"]_vars

\* Run returns after Ctrl+C or a restart, whatever the goroutines wait for, and
\* after the end of the input unless a turn asks, whom nobody can answer any more.
EndReturns ==
  cancelled \/ closed ~> reader.pc = "returned" \/ (~cancelled /\ worker.pc = "asking")

\* Everyone waiting on everyone.
AwaitsTheWaiting == reader.pc \in {"send", "set"} /\ worker.pc = "asking"

\* The operator can go on typing, and answering, whatever the worker does, but for one
\* case: the input goroutine waits for a place in the queue, or for the turn of a
\* Copilot session, and the turn for an answer, which only that goroutine reads.
InputComesBack ==
  reader.pc \in {"prepare", "send", "lock", "set", "turn"}
    ~> reader.pc \in {"idle", "wait"} \/ AwaitsTheWaiting
=============================================================================
