------------------------------ MODULE IssueReview ------------------------------
(***************************************************************************)
(* The workflow of one issue: design, approval, implementation, approval.  *)
(*                                                                         *)
(* Composes the review controller (cmd/korocon/issue_review.go), the issue *)
(* workflow (internal/issue/workflow.go), its row in the state database    *)
(* and its artifact files, and the job queue of the daemon that runs the   *)
(* controller's callbacks.  Two goroutines act on the controller: the      *)
(* input goroutine (HandleInput, OnJobStart) and the worker (OnJobFinish). *)
(*                                                                         *)
(* The database and the files survive the process.  The process can be     *)
(* stopped in an orderly way, or crash between any two steps, and is       *)
(* launched again from what the database says.                             *)
(***************************************************************************)
EXTENDS Naturals, Sequences, IssueStates

CONSTANTS Labels,   \* state labels the issue can carry on GitHub at first
          Faults,   \* the operations that can fail, and "crash"
          MaxJob,   \* bound: jobs that are submitted
          MaxStart  \* bound: times the issue is selected

ASSUME IssueReviewAssumption ==
  /\ Faults \subseteq {"sync", "db", "save", "output", "comment", "publish", "crash"}
  /\ MaxJob \in Nat /\ MaxStart \in Nat

VARIABLES
  label,        \* the issue's state label on GitHub, "none" without one
  db,           \* the state stored for the issue, "none" without a row
  artifact,     \* the saved design and implementation: the job that wrote it
  posted,       \* the design that was last posted as a comment
  pushed,       \* the job whose files the branch on origin has
  described,    \* the implementation that the pull request was made with
  starts,       \* how often the issue was selected
  proc,         \* the process
  wPhase,       \* Workflow.Phase
  cPhase,       \* issueReviewController.phase
  prompts,      \* .prompts: how often a prompt is expected
  jobs,         \* .jobs: the ids of the tracked jobs
  pending,      \* .pending
  result,       \* .result: the job whose result is reviewed
  failed,       \* .failed
  failedPrompt, \* .failedPrompt
  worktree,     \* the job whose files Engine.worktree has, 0 before the engine knows it
  input,        \* the input goroutine
  queue,        \* residentJobs
  work,         \* the worker goroutine
  lastJob,      \* nextID
  lost          \* history: no job's end will replace a stored running state, because
                \* it could not be stored, or because a label was all there was

store == <<label, db, artifact, posted, pushed, described, lost>>
phases == <<wPhase, cPhase>>
review == <<pending, result, failed, failedPrompt>>
controller == <<phases, prompts, jobs, review>>
daemon == <<input, queue, work, lastJob>>
vars == <<store, starts, proc, controller, worktree, daemon>>

ASSUME LabelsAssumption == Labels \subseteq States \ {"pr_created"}

\* The prompts of the workflow, of its revisions, and any other text.
Prompts == {"design", "implement", "redesign", "reimplement", "free"}

JobIds == 1 .. MaxJob
Torn == MaxJob + 1  \* a file that was truncated and not written to its end
Version == 0 .. Torn

Idle == [pc |-> "idle", id |-> 0, prompt |-> "free", execute |-> FALSE]
Start(prompt, execute) == [pc |-> "start", id |-> 0, prompt |-> prompt, execute |-> execute]
Job == [id : 0 .. MaxJob, prompt : Prompts, execute : BOOLEAN]
InputPlaces == {"idle", "approving", "posted", "published", "start", "tracked"}
WorkPlaces == {"idle", "running", "succeeded", "failing", "saving", "saved"}
Place(pcs) == [pc : pcs, id : 0 .. MaxJob, prompt : Prompts, execute : BOOLEAN]

TypeOK ==
  /\ label \in Labels
  /\ db \in States
  /\ artifact \in [Stages -> Version]
  /\ posted \in Version
  /\ pushed \in Version /\ described \in Version
  /\ starts \in 0 .. MaxStart
  /\ proc \in {"off", "on", "cancelled", "closed"}
  /\ wPhase \in Phases
  /\ cPhase \in Phases
  /\ prompts \in [Prompts -> Nat]
  /\ jobs \in SUBSET JobIds
  /\ pending \in BOOLEAN
  /\ result \in Version
  /\ failed \in BOOLEAN
  /\ failedPrompt \in Prompts
  /\ worktree \in 0 .. MaxJob
  /\ input \in Place(InputPlaces)
  /\ queue \in Seq(Job)
  /\ work \in Place(WorkPlaces)
  /\ lastJob \in 0 .. MaxJob
  /\ lost \in BOOLEAN

\* No process, and what its variables hold then.
NoPrompts == [p \in Prompts |-> 0]

Init ==
  /\ label \in Labels
  /\ db = "none"
  /\ artifact = [s \in Stages |-> 0]
  /\ posted = 0 /\ pushed = 0 /\ described = 0
  /\ starts = 0
  /\ proc = "off"
  /\ wPhase = "design" /\ cPhase = "design"
  /\ prompts = NoPrompts
  /\ jobs = {}
  /\ pending = FALSE /\ result = 0
  /\ failed = FALSE /\ failedPrompt = "free"
  /\ worktree = 0
  /\ input = Idle /\ queue = <<>> /\ work = Idle
  /\ lastJob = 0
  /\ lost = FALSE

CanFail(fault) == fault \in Faults

-----------------------------------------------------------------------------
(* internal/issue/workflow.go: phases and states *)

Stored == IF db = "none" THEN StateForPhase(Classify(label)) ELSE db

\* The failed phase of "state:failed" depends on whether attempts were saved.
LoadedPhases == IF Classify(Stored) = "failed" THEN Failed ELSE {Classify(Stored)}

\* The prompt of a phase's job, by which OnJobFinish knows a tracked one.
PromptOf(phase) == IF phase = "implementation" THEN "implement" ELSE "design"

\* setState: the row is replaced, or the write fails and nothing changes.
SetState(state) == db' = state /\ lost' = FALSE
SetStateFails == CanFail("db") /\ db' = db

-----------------------------------------------------------------------------
(* Selection of the issue, and the end of the process *)

\* The issue is selected: load and newIssueReviewController.  Failed and pending
\* work waits for the operator, anything else is submitted at once.  The state of
\* an issue without a row is that of its label, the running one of an issue that
\* carries design_approved too.
Launch ==
  /\ proc = "off" /\ starts < MaxStart /\ lastJob < MaxJob
  /\ Stored # "pr_created"
  /\ \E phase \in LoadedPhases :
       LET saved == IF phase \in Ready THEN artifact[ArtifactOf(phase)] ELSE 0
           now == IF saved # 0 THEN phase ELSE Stage(phase)
           retry == phase \in Failed
           expected == [NoPrompts EXCEPT ![PromptOf(phase)] = 1] IN
       /\ wPhase' = now /\ cPhase' = now
       /\ prompts' = IF retry THEN [expected EXCEPT ![PromptOf(now)] = 0] ELSE expected
       /\ failed' = retry
       /\ failedPrompt' = IF retry THEN PromptOf(phase) ELSE "free"
       /\ pending' = (saved # 0)
       /\ result' = saved
       /\ input' = IF retry \/ saved # 0 THEN Idle
                   ELSE Start(PromptOf(now), now = "implementation")
  /\ db' = Stored
  /\ starts' = starts + 1
  /\ proc' = "on"
  /\ jobs' = {}
  /\ worktree' = 0
  /\ lost' = (lost \/ (db = "none" /\ Stored \in Running))
  /\ UNCHANGED <<label, artifact, posted, pushed, described, queue, work, lastJob>>

\* The context of Run is done.  The input goroutine finishes what it does, and
\* may still take a line that arrives at the same time.
Cancel ==
  /\ proc = "on"
  /\ proc' = "cancelled"
  /\ UNCHANGED <<store, starts, controller, worktree, daemon>>

\* The input loop ends, at the end of its input or because of the context: the
\* queue is closed.
Close ==
  /\ proc \in {"on", "cancelled"} /\ input.pc = "idle"
  /\ proc' = "closed"
  /\ UNCHANGED <<store, starts, controller, worktree, daemon>>

\* Run returns once the worker has drained the queue.
Forget ==
  /\ wPhase' = "design" /\ cPhase' = "design"
  /\ prompts' = NoPrompts
  /\ jobs' = {}
  /\ pending' = FALSE /\ result' = 0
  /\ failed' = FALSE /\ failedPrompt' = "free"
  /\ worktree' = 0
  /\ input' = Idle /\ queue' = <<>> /\ work' = Idle
  /\ proc' = "off"
  /\ UNCHANGED <<label, db, artifact, posted, pushed, described, starts, lastJob>>

Exit == proc = "closed" /\ queue = <<>> /\ work.pc = "idle" /\ Forget /\ UNCHANGED lost

Crash == CanFail("crash") /\ proc # "off" /\ Forget /\ lost' = TRUE

-----------------------------------------------------------------------------
(* The input goroutine: HandleInput *)

\* A line is read while the loop runs; bound: it may lead to one more job.
Reads == proc \in {"on", "cancelled"} /\ input.pc = "idle" /\ lastJob < MaxJob

\* A ready phase that was loaded becomes its stage with the first input.
LeaveReady ==
  /\ cPhase' = IF cPhase \in Ready THEN Stage(cPhase) ELSE cPhase
  /\ wPhase' = IF cPhase \in Ready THEN Stage(cPhase) ELSE wPhase

\* A pending result is approved: Approve reads the artifact.
Approve ==
  /\ Reads /\ ~failed /\ pending
  /\ LeaveReady
  /\ input' = [input EXCEPT !.pc = "approving"]
  /\ UNCHANGED <<store, starts, proc, prompts, jobs, review, worktree, queue, work, lastJob>>

\* Approve fails: the result stays pending.
GiveUpApproval ==
  /\ input' = Idle
  /\ UNCHANGED <<label, db, lost, artifact, starts, proc, controller, worktree, queue, work, lastJob>>

\* The design is posted as a comment on the issue.
PostDesign ==
  /\ input.pc = "approving" /\ wPhase = "design" /\ proc = "on"
  /\ posted' = artifact[ArtifactOf(wPhase)]
  /\ input' = [input EXCEPT !.pc = "posted"]
  /\ UNCHANGED <<label, db, lost, artifact, pushed, described, starts, proc, controller, worktree, queue, work, lastJob>>

\* Mutant: an error of the comment command is overlooked.
PostFailsUnnoticed ==
  /\ input.pc = "approving" /\ wPhase = "design"
  /\ proc = "cancelled" \/ CanFail("comment")
  /\ input' = [input EXCEPT !.pc = "posted"]
  /\ UNCHANGED <<store, starts, proc, controller, worktree, queue, work, lastJob>>

\* The command fails, or the context is done; the comment may exist all the same.
PostFails ==
  /\ input.pc = "approving" /\ wPhase = "design"
  /\ proc = "cancelled" \/ CanFail("comment")
  /\ posted' \in {posted, artifact[ArtifactOf(wPhase)]}
  /\ GiveUpApproval /\ UNCHANGED <<pushed, described>>

\* Engine.Publish commits what the worktree has and pushes it, and makes a pull
\* request of the artifact unless the branch has one: that one keeps the
\* description it has.
Push == pushed' = worktree
Describe == described' = IF described = 0 THEN artifact[ArtifactOf(wPhase)] ELSE described

\* Mutant: a pull request that exists is returned before the push.
PublishOnce ==
  /\ input.pc = "approving" /\ wPhase = "implementation" /\ worktree # 0 /\ proc = "on"
  /\ Describe /\ (IF described = 0 THEN Push ELSE UNCHANGED pushed)
  /\ input' = [input EXCEPT !.pc = "published"]
  /\ UNCHANGED <<label, db, lost, artifact, posted, starts, proc, controller, worktree, queue, work, lastJob>>

Publish ==
  /\ input.pc = "approving" /\ wPhase = "implementation" /\ worktree # 0 /\ proc = "on"
  /\ Push /\ Describe
  /\ input' = [input EXCEPT !.pc = "published"]
  /\ UNCHANGED <<label, db, lost, artifact, posted, starts, proc, controller, worktree, queue, work, lastJob>>

\* An engine that has run no job knows no worktree; else one of its commands
\* fails: before the push, after it, or after the pull request was made.
PublishFails ==
  /\ input.pc = "approving" /\ wPhase = "implementation"
  /\ \/ worktree = 0 /\ UNCHANGED <<pushed, described>>
     \/ /\ worktree # 0 /\ (proc = "cancelled" \/ CanFail("publish"))
        /\ \/ UNCHANGED <<pushed, described>>
           \/ Push /\ UNCHANGED described
           \/ Push /\ Describe
  /\ GiveUpApproval /\ UNCHANGED posted

\* An approved design: the implementation job is submitted.
DesignApproved ==
  /\ input.pc = "posted"
  /\ SetState("design_approved")
  /\ pending' = FALSE /\ result' = 0
  /\ cPhase' = "implementation" /\ wPhase' = "implementation"
  /\ prompts' = [prompts EXCEPT !["implement"] = @ + 1]
  /\ input' = Start("implement", TRUE)
  /\ UNCHANGED <<label, artifact, posted, pushed, described, starts, proc, jobs, failed, failedPrompt, worktree,
                 queue, work, lastJob>>

\* An approved implementation: the engine is closed and Run is left, back to
\* the selection.
ImplementationApproved ==
  /\ input.pc = "published"
  /\ SetState("pr_created")
  /\ pending' = FALSE /\ result' = 0
  /\ input' = Idle
  /\ proc' = "closed"
  /\ UNCHANGED <<label, artifact, posted, pushed, described, starts, phases, prompts, jobs, failed,
                 failedPrompt, worktree, queue, work, lastJob>>

\* The approval cannot be recorded: the result stays pending.
ApprovalNotRecorded ==
  /\ input.pc \in {"posted", "published"}
  /\ SetStateFails /\ UNCHANGED lost
  /\ input' = Idle
  /\ UNCHANGED <<label, artifact, posted, pushed, described, starts, proc, controller, worktree, queue, work, lastJob>>

\* Mutant: the review is not closed while its revision is prepared.
ReviseStillPending ==
  LET stage == Stage(cPhase)
      prompt == IF stage = "implementation" THEN "reimplement" ELSE "redesign" IN
  /\ Reads /\ ~failed /\ pending
  /\ LeaveReady
  /\ prompts' = [prompts EXCEPT ![prompt] = @ + 1]
  /\ input' = Start(prompt, stage = "implementation")
  /\ UNCHANGED <<store, starts, proc, jobs, review, worktree, queue, work, lastJob>>

\* Any other text revises the pending result.
Revise ==
  LET stage == Stage(cPhase)
      prompt == IF stage = "implementation" THEN "reimplement" ELSE "redesign" IN
  /\ Reads /\ ~failed /\ pending
  /\ LeaveReady
  /\ pending' = FALSE /\ result' = 0
  /\ prompts' = [prompts EXCEPT ![prompt] = @ + 1]
  /\ input' = Start(prompt, stage = "implementation")
  /\ UNCHANGED <<store, starts, proc, jobs, failed, failedPrompt, worktree, queue, work, lastJob>>

\* A failed job is run again, from where it stopped or from the start; a reset
\* that fails leaves the choice open.  Other lines only print the choices.
Retry ==
  /\ Reads /\ failed
  /\ failed' = FALSE /\ failedPrompt' = "free"
  /\ prompts' = [prompts EXCEPT ![failedPrompt] = @ + 1]
  /\ input' = Start(failedPrompt, cPhase = "implementation")
  /\ UNCHANGED <<store, starts, proc, phases, jobs, pending, result, worktree, queue, work, lastJob>>

\* Without anything to review, a text is a prompt of its own.
FreeText ==
  /\ Reads /\ ~failed /\ ~pending
  /\ input' = Start("free", FALSE)
  /\ UNCHANGED <<store, starts, proc, controller, worktree, queue, work, lastJob>>

-----------------------------------------------------------------------------
(* The input goroutine: startJob, BeforeJob and OnJobStart *)

\* The repository cannot be synchronised: the job is dropped.
PrepareFails ==
  /\ input.pc = "start" /\ lastJob < MaxJob
  /\ proc = "cancelled" \/ CanFail("sync")
  /\ lastJob' = lastJob + 1
  /\ input' = Idle
  /\ UNCHANGED <<store, starts, proc, controller, worktree, queue, work>>

\* The prompt is not one the controller expects: the job is not tracked.
SubmitUntracked ==
  /\ input.pc = "start" /\ lastJob < MaxJob /\ proc = "on"
  /\ prompts[input.prompt] = 0
  /\ lastJob' = lastJob + 1
  /\ queue' = Append(queue, [id |-> lastJob + 1, prompt |-> input.prompt, execute |-> input.execute])
  /\ input' = Idle
  /\ UNCHANGED <<store, starts, proc, controller, worktree, work>>

\* The job is tracked before its start is recorded.
Track ==
  /\ input.pc = "start" /\ lastJob < MaxJob /\ proc = "on"
  /\ prompts[input.prompt] > 0
  /\ prompts' = [prompts EXCEPT ![input.prompt] = @ - 1]
  /\ lastJob' = lastJob + 1
  /\ jobs' = jobs \cup {lastJob + 1}
  /\ input' = [input EXCEPT !.pc = "tracked", !.id = lastJob + 1]
  /\ UNCHANGED <<store, starts, proc, phases, review, worktree, queue, work>>

\* Workflow.Start: the running state is stored, announced, and the job queued.
Submit ==
  /\ input.pc = "tracked"
  /\ SetState(StartState(wPhase))
  /\ queue' = Append(queue, [id |-> input.id, prompt |-> input.prompt, execute |-> input.execute])
  /\ input' = Idle
  /\ UNCHANGED <<label, artifact, posted, pushed, described, starts, proc, controller, worktree, work, lastJob>>

\* The start is not stored, or it is but cannot be announced and is finished as
\* failed: the job is dropped and its prompt expected again.
StartFails ==
  /\ input.pc = "tracked"
  /\ \/ SetStateFails /\ UNCHANGED lost
     \/ CanFail("output") /\ SetState(FailedState(wPhase))
     \/ CanFail("output") /\ CanFail("db") /\ db' = StartState(wPhase) /\ lost' = TRUE
  /\ jobs' = jobs \ {input.id}
  /\ prompts' = [prompts EXCEPT ![input.prompt] = @ + 1]
  /\ input' = Idle
  /\ UNCHANGED <<label, artifact, posted, pushed, described, starts, proc, phases, review, worktree, queue, work, lastJob>>

-----------------------------------------------------------------------------
(* The worker: a job and OnJobFinish *)

\* Mutant: the worker leaves its loop when Run ends.
TakeJobUnlessClosed ==
  /\ work.pc = "idle" /\ queue # <<>> /\ proc # "closed"
  /\ work' = [pc |-> "running", id |-> Head(queue).id, prompt |-> Head(queue).prompt,
              execute |-> Head(queue).execute]
  /\ queue' = Tail(queue)
  /\ UNCHANGED <<store, starts, proc, controller, worktree, input, lastJob>>

\* Jobs are run in the order of their submission, those left at the end too.
TakeJob ==
  /\ work.pc = "idle" /\ queue # <<>>
  /\ work' = [pc |-> "running", id |-> Head(queue).id, prompt |-> Head(queue).prompt,
              execute |-> Head(queue).execute]
  /\ queue' = Tail(queue)
  /\ UNCHANGED <<store, starts, proc, controller, worktree, input, lastJob>>

\* The turn, or the engine, returns.  The engine needs the saved design; once its
\* sessions are started it knows its worktree, and the job works on the files.
JobEnds(outcome) ==
  /\ work.pc = "running"
  /\ work.execute /\ outcome = "succeeded" => artifact["design"] # 0
  /\ worktree' \in IF ~work.execute THEN {worktree}
                   ELSE IF outcome = "succeeded" THEN {work.id} ELSE {worktree, work.id}
  /\ work' = [work EXCEPT !.pc = outcome]
  /\ UNCHANGED <<store, starts, proc, controller, input, queue, lastJob>>

\* OnJobFinish has nothing to do for a job that is not tracked.
IgnoreResult ==
  /\ work.pc \in {"succeeded", "failing"} /\ work.id \notin jobs
  /\ work' = Idle
  /\ UNCHANGED <<store, starts, proc, controller, worktree, input, queue, lastJob>>

\* SaveResult truncates the artifact of the phase, and writes it.
BeginSave ==
  /\ work.pc = "succeeded" /\ work.id \in jobs
  /\ jobs' = jobs \ {work.id}
  /\ artifact' = [artifact EXCEPT ![ArtifactOf(wPhase)] = Torn]
  /\ work' = [work EXCEPT !.pc = "saving"]
  /\ UNCHANGED <<label, db, lost, posted, pushed, described, starts, proc, phases, prompts, review, worktree, input, queue,
                 lastJob>>

EndSave ==
  /\ work.pc = "saving"
  /\ artifact' = [artifact EXCEPT ![ArtifactOf(wPhase)] = work.id]
  /\ work' = [work EXCEPT !.pc = "saved"]
  /\ UNCHANGED <<label, db, lost, posted, pushed, described, starts, proc, controller, worktree, input, queue, lastJob>>

\* The result cannot be saved: the failure is stored and the error displayed.
SaveFails ==
  /\ work.pc = "saving" /\ CanFail("save")
  /\ SetState(FailedState(wPhase)) \/ (SetStateFails /\ lost' = TRUE)
  /\ work' = Idle
  /\ UNCHANGED <<label, artifact, posted, pushed, described, starts, proc, controller, worktree, input, queue, lastJob>>

\* Mutant: the result is up for review before it is saved.
ReviewUnsaved ==
  /\ work.pc \in {"saving", "saved"}
  /\ SetState(ReadyState(wPhase))
  /\ pending' = TRUE /\ result' = work.id
  /\ work' = Idle
  /\ UNCHANGED <<label, artifact, posted, pushed, described, starts, proc, phases, prompts, jobs, failed,
                 failedPrompt, worktree, input, queue, lastJob>>

\* Finish(nil): the ready state is stored and the result is up for review.
ReviewResult ==
  /\ work.pc = "saved"
  /\ SetState(ReadyState(wPhase))
  /\ pending' = TRUE /\ result' = work.id
  /\ work' = Idle
  /\ UNCHANGED <<label, artifact, posted, pushed, described, starts, proc, phases, prompts, jobs, failed,
                 failedPrompt, worktree, input, queue, lastJob>>

ReadyNotRecorded ==
  /\ work.pc = "saved"
  /\ SetStateFails /\ lost' = TRUE
  /\ work' = Idle
  /\ UNCHANGED <<label, artifact, posted, pushed, described, starts, proc, controller, worktree, input, queue, lastJob>>

\* Finish(err): the failed state is stored, the engine is closed and the
\* operator may retry.  The context of Run plays no part in it.
OfferRetry ==
  /\ work.pc = "failing" /\ work.id \in jobs
  /\ SetState(FailedState(wPhase))
  /\ jobs' = jobs \ {work.id}
  /\ failed' = TRUE /\ failedPrompt' = work.prompt
  /\ work' = Idle
  /\ UNCHANGED <<label, artifact, posted, pushed, described, starts, proc, phases, prompts, pending, result,
                 worktree, input, queue, lastJob>>

FailureNotRecorded ==
  /\ work.pc = "failing" /\ work.id \in jobs
  /\ SetStateFails /\ lost' = TRUE
  /\ jobs' = jobs \ {work.id}
  /\ work' = Idle
  /\ UNCHANGED <<label, artifact, posted, pushed, described, starts, proc, phases, prompts, review, worktree, input,
                 queue, lastJob>>

-----------------------------------------------------------------------------
Operator == Approve \/ Revise \/ Retry \/ FreeText

InputStep ==
  \/ PostDesign \/ PostFails \/ Publish \/ PublishFails
  \/ DesignApproved \/ ImplementationApproved \/ ApprovalNotRecorded
  \/ PrepareFails \/ SubmitUntracked \/ Track \/ Submit \/ StartFails

WorkerStep ==
  \/ TakeJob \/ (\E outcome \in {"succeeded", "failing"} : JobEnds(outcome))
  \/ IgnoreResult \/ BeginSave \/ EndSave \/ SaveFails
  \/ ReviewResult \/ ReadyNotRecorded \/ OfferRetry \/ FailureNotRecorded

Life == Launch \/ Cancel \/ Close \/ Exit \/ Crash

Next == Operator \/ InputStep \/ WorkerStep \/ Life

Spec == Init /\ [][Next]_vars

\* The goroutines go on, and turns end; the operator need not do anything.
FairSpec == Spec /\ WF_vars(InputStep) /\ WF_vars(WorkerStep) /\ WF_vars(Exit)

-----------------------------------------------------------------------------
(* Properties *)

\* At most one job is tracked, and none while a result or a failure waits for
\* the operator: HandleInput can read and change the phase without the lock only
\* because OnJobFinish of a tracked job cannot run beside it.
OneTrackedJob ==
  /\ \A i, j \in jobs : i = j
  /\ jobs # {} => ~pending /\ ~failed
  /\ ~(pending /\ failed)

\* The controller and the workflow agree on the phase, which OnJobFinish reads
\* from both.
PhasesAgree == proc # "off" => cPhase = wPhase

\* What is reviewed is what Approve will read: the saved artifact of the phase,
\* written to its end, by the job whose result is shown; the stored state lets
\* a relaunch find it.
ReviewedResultIsSaved ==
  pending => /\ result \in JobIds
             /\ artifact[Stage(cPhase)] = result
             /\ db \in Ready /\ Stage(db) = Stage(cPhase)

\* An implementation is only ever under way for the design that was posted to
\* the issue, however often the design was revised, reposted or reloaded (an
\* issue that came with a label may have been designed elsewhere).
ImplementationFollowsPostedDesign ==
  label = "none" /\ Stage(Classify(db)) = "implementation" => posted # 0 /\ posted = artifact["design"]

\* An issue that is done has a pull request, and its branch has the files of the
\* job whose result was reviewed and is saved, whatever earlier approvals, revisions
\* and processes have pushed.
PullRequestHoldsArtifact ==
  db = "pr_created" => described # 0 /\ pushed # 0 /\ pushed = artifact["implementation"]

\* An issue that is stored as running does not stay so while turns end, unless the
\* end of its job could not be stored, or the load has stored the running state for
\* a label: if no job can be submitted then, nothing takes it back.
RunningSettles == (db \in Running /\ ~lost) ~> (db \notin Running \/ lost)
=============================================================================
