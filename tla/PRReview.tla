-------------------------------- MODULE PRReview --------------------------------
(***************************************************************************)
(* The workflow of one pull request: review, approval and verification of  *)
(* its head, fixes of what a review found, and conflicts with its base.    *)
(*                                                                         *)
(* Composes the review controller (cmd/korocon/pr_review.go), the workflow *)
(* with its row in the database and its files                              *)
(* (internal/pullrequest/workflow.go), the command that runs during a      *)
(* verification (runtime.go) and the daemon that calls them.  What the     *)
(* engine does to the worktree and the head branch is in FixEngine.        *)
(*                                                                         *)
(* A selection loads what the database says and GitHub reports, works in   *)
(* one phase, and ends with a decision of the operator.                    *)
(***************************************************************************)
EXTENDS Naturals, Sequences, PRStates

CONSTANTS Labels,   \* state labels the pull request can carry at first
          Verifies, \* whether runtimeVerificationEnabled is set, by process
          Faults,   \* the operations that can fail, and "crash"
          MaxJob,   \* bound: jobs that are submitted
          MaxStart  \* bound: times the pull request is selected

ASSUME PRReviewAssumption ==
  /\ Verifies \subseteq BOOLEAN
  /\ Faults \subseteq {"git", "db", "save", "post", "close", "crash"}
  /\ MaxJob \in Nat /\ MaxStart \in Nat

VARIABLES
  label,        \* its state label on GitHub from before there was a database
  open,         \* it is open on GitHub
  db,           \* its stored state, "none" without a row
  artifact,     \* the saved results: the job that wrote each
  posted,       \* what was last posted of each kind
  starts,       \* how often it was selected
  proc,         \* the process
  phase,        \* Workflow.Phase
  jobs,         \* prReviewController.jobs: the ids of the tracked jobs
  pending,      \* .pending
  result,       \* .result: the job whose result is reviewed
  awaiting,     \* .awaitingFixInput
  failed,       \* .failed
  failedPrompt, \* .failedPrompt
  command,      \* the process of RuntimeCommand runs
  input,        \* the input goroutine
  queue,        \* residentJobs
  work,         \* the worker goroutine
  lastJob,      \* nextID
  lost          \* history: the end of the last job was not stored

store == <<label, open, db, artifact, posted, lost>>
review == <<pending, result, awaiting, failed, failedPrompt>>
controller == <<phase, jobs, review>>
daemon == <<input, queue, work, lastJob>>
vars == <<store, starts, proc, controller, command, daemon>>

ASSUME LabelsAssumption == Labels \subseteq States

\* The prompts of each phase, and any other text.
Prompts == Stages \cup {"free"}

JobIds == 1 .. MaxJob
Torn == MaxJob + 1  \* a file that was truncated and not written to its end
Version == 0 .. Torn

Idle == [pc |-> "idle", id |-> 0, prompt |-> "free", decision |-> "none"]
Start(prompt) == [Idle EXCEPT !.pc = "start", !.prompt = prompt]
Job == [id : 0 .. MaxJob, prompt : Prompts]
InputPlaces == {"idle", "preparing", "posting", "posted", "start", "tracked"}
WorkPlaces == {"idle", "running", "succeeded", "failing", "saving", "saved"}
Decisions == {"none", "approve", "verify", "changes"}
InputType == [pc : InputPlaces, id : 0 .. MaxJob, prompt : Prompts, decision : Decisions]
WorkType == [pc : WorkPlaces, id : 0 .. MaxJob, prompt : Prompts]
NoWork == [pc |-> "idle", id |-> 0, prompt |-> "free"]

TypeOK ==
  /\ label \in Labels /\ open \in BOOLEAN /\ db \in States
  /\ artifact \in [Stages -> Version] /\ posted \in [Works -> Version]
  /\ starts \in 0 .. MaxStart
  /\ proc \in {"off", "on", "cancelled", "closed"}
  /\ phase \in Phases
  /\ jobs \subseteq JobIds
  /\ pending \in BOOLEAN /\ result \in Version
  /\ awaiting \in BOOLEAN
  /\ failed \in BOOLEAN /\ failedPrompt \in Prompts
  /\ command \in BOOLEAN
  /\ input \in InputType /\ queue \in Seq(Job) /\ work \in WorkType
  /\ lastJob \in 0 .. MaxJob
  /\ lost \in BOOLEAN

Init ==
  /\ label \in Labels /\ open = TRUE /\ db = "none"
  /\ artifact = [s \in Stages |-> 0] /\ posted = [s \in Works |-> 0]
  /\ starts = 0
  /\ proc = "off"
  /\ phase = "review" /\ jobs = {}
  /\ pending = FALSE /\ result = 0 /\ awaiting = FALSE
  /\ failed = FALSE /\ failedPrompt = "free"
  /\ command = FALSE
  /\ input = Idle /\ queue = <<>> /\ work = NoWork
  /\ lastJob = 0
  /\ lost = FALSE

CanFail(fault) == fault \in Faults

-----------------------------------------------------------------------------
(* The row of the pull request; phases and states are in PRStates. *)

\* setState: the row is replaced, or the write fails and nothing changes.
SetState(state) == db' = state /\ lost' = FALSE
SetStateFails == CanFail("db") /\ UNCHANGED db

-----------------------------------------------------------------------------
(* Selections, the end of the process, and GitHub *)

\* The pull request is selected: load and newPRReviewController.  A failed one, a
\* fix and an approved review wait for the operator; else a job is submitted.
Launch ==
  /\ proc = "off" /\ open /\ starts < MaxStart /\ lastJob < MaxJob
  /\ \E conflicted \in BOOLEAN :
       LET stored == IF db = "none" THEN StateForPhase(PhaseFor(label, conflicted)) ELSE db
           loaded == PhaseFor(stored, conflicted) IN
       /\ db' = stored
       /\ phase' = RetriedIn(loaded)
       /\ failed' = (loaded \in Failed)
       /\ failedPrompt' = IF loaded \in Failed THEN RetriedIn(loaded) ELSE "free"
       /\ awaiting' = (loaded = "fix")
       /\ input' = IF loaded \in {"review", "conflict"} THEN Start(loaded) ELSE Idle
  /\ starts' = starts + 1
  /\ proc' = "on"
  /\ UNCHANGED <<label, open, artifact, posted, jobs, pending, result, command, queue, work, lastJob, lost>>

\* The context of Run is done, and with it the command.
Cancel ==
  /\ proc = "on"
  /\ proc' = "cancelled" /\ command' = FALSE
  /\ UNCHANGED <<store, starts, controller, daemon>>

\* The input loop ends: the queue is closed.
Close ==
  /\ proc \in {"on", "cancelled"} /\ input.pc = "idle"
  /\ proc' = "closed"
  /\ UNCHANGED <<store, starts, controller, command, daemon>>

Forget ==
  /\ proc' = "off"
  /\ phase' = "review" /\ jobs' = {}
  /\ pending' = FALSE /\ result' = 0 /\ awaiting' = FALSE
  /\ failed' = FALSE /\ failedPrompt' = "free"
  /\ command' = FALSE
  /\ input' = Idle /\ queue' = <<>> /\ work' = NoWork
  /\ UNCHANGED <<label, open, db, artifact, posted, starts, lastJob>>

\* Mutant: Run returns without waiting for the worker.
ExitAtOnce == proc = "closed" /\ Forget /\ UNCHANGED lost

\* Run returns once the worker has drained the queue, and the deferred functions
\* close the engine and the command.
Exit == proc = "closed" /\ queue = <<>> /\ work.pc = "idle" /\ Forget /\ UNCHANGED lost

Crash == CanFail("crash") /\ proc # "off" /\ Forget /\ lost' = TRUE

\* Somebody closes or merges the pull request.
TheyClose ==
  /\ open /\ open' = FALSE
  /\ UNCHANGED <<label, db, artifact, posted, starts, proc, controller, command, daemon, lost>>

\* pr set-status, when no other process works on the pull request.
SetStatus ==
  /\ proc = "off" /\ open
  /\ \E state \in {"waiting", "pr_review_comment"} : SetState(state)
  /\ UNCHANGED <<label, open, artifact, posted, starts, proc, controller, command, daemon>>

\* The command may end on its own at any time.
CommandEnds ==
  /\ command /\ command' = FALSE
  /\ UNCHANGED <<store, starts, proc, controller, daemon>>

-----------------------------------------------------------------------------
(* The input goroutine: HandleInput *)

\* A line is read while the loop runs; bound: it may lead to one more job.
Reads == proc \in {"on", "cancelled"} /\ input.pc = "idle" /\ lastJob < MaxJob
Reviews == Reads /\ ~failed /\ pending

\* A restart: the context is cancelled and the queue closed.
Restart == proc' = "closed" /\ input' = Idle /\ command' = FALSE

\* A result is approved, or changes are requested of a review.
Decide ==
  /\ Reviews
  /\ \/ phase = "review" /\ input' = [Idle EXCEPT !.pc = "posting", !.decision = "changes"]
     \/ phase \in {"fix", "conflict"} /\ input' = [Idle EXCEPT !.pc = "posting", !.decision = "approve"]
     \/ /\ phase = "review"
        /\ \E verify \in Verifies :
             input' = IF verify THEN [Idle EXCEPT !.pc = "preparing", !.decision = "verify"]
                      ELSE [Idle EXCEPT !.pc = "posting", !.decision = "approve"]
  /\ UNCHANGED <<store, starts, proc, controller, command, queue, work, lastJob>>

\* startVerification: the worktree is updated and the command, if any, started.
StartVerification ==
  /\ input.pc = "preparing" /\ proc = "on"
  /\ command' \in BOOLEAN
  /\ input' = [input EXCEPT !.pc = "posting"]
  /\ UNCHANGED <<store, starts, proc, controller, queue, work, lastJob>>

VerificationDoesNotStart ==
  /\ input.pc = "preparing" /\ (CanFail("git") \/ proc = "cancelled")
  /\ input' = Idle
  /\ UNCHANGED <<store, starts, proc, controller, command, queue, work, lastJob>>

\* What was saved is read and, for a fix or a conflict after the push, posted.
Post ==
  /\ input.pc = "posting" /\ proc = "on"
  /\ posted' = [posted EXCEPT ![phase] = artifact[ArtifactOf(phase)]]
  /\ input' = [input EXCEPT !.pc = "posted"]
  /\ UNCHANGED <<label, open, db, lost, artifact, starts, proc, controller, command, queue, work, lastJob>>

\* Mutant: the error of the comment is overlooked.
PostFailsUnnoticed ==
  /\ input.pc = "posting" /\ (CanFail("post") \/ proc = "cancelled")
  /\ input' = [input EXCEPT !.pc = "posted"]
  /\ UNCHANGED <<store, starts, proc, controller, command, queue, work, lastJob>>

\* The push or the comment fails, though the comment may exist: the result stays
\* up for review, and a command that was started is closed.
PostFails ==
  /\ input.pc = "posting" /\ (CanFail("post") \/ proc = "cancelled")
  /\ posted' \in {posted, [posted EXCEPT ![phase] = artifact[ArtifactOf(phase)]]}
  /\ command' = FALSE
  /\ input' = Idle
  /\ UNCHANGED <<label, open, db, lost, artifact, starts, proc, controller, queue, work, lastJob>>

\* The decision is stored.  An approved review is verified in the same process;
\* any other decision ends in the next selection, except that the approval of a
\* fix stays open when the engine cannot be closed.
RecordDecision ==
  /\ input.pc = "posted"
  /\ SetState(DecidedState(phase, input.decision))
  /\ \/ /\ phase = "fix" /\ CanFail("close")
        /\ input' = Idle
        /\ UNCHANGED <<proc, phase, pending, result, command>>
     \/ /\ pending' = FALSE /\ result' = 0
        /\ IF input.decision = "verify"
           THEN phase' = "verification" /\ input' = Start("verification") /\ UNCHANGED <<proc, command>>
           ELSE Restart /\ UNCHANGED phase
  /\ UNCHANGED <<label, open, artifact, posted, starts, jobs, awaiting, failed, failedPrompt, queue, work, lastJob>>

\* Mutant: the command is left running.
DecisionIsForgotten ==
  /\ input.pc = "posted"
  /\ SetStateFails
  /\ input' = Idle
  /\ UNCHANGED <<label, open, artifact, posted, starts, proc, controller, command, queue, work, lastJob, lost>>

DecisionNotRecorded ==
  /\ input.pc = "posted"
  /\ SetStateFails
  /\ command' = FALSE
  /\ input' = Idle
  /\ UNCHANGED <<label, open, artifact, posted, starts, proc, controller, queue, work, lastJob, lost>>

\* Mutant: the review is not closed while the job is prepared.
ReviseStillPending ==
  /\ Reviews
  /\ input' = Start(phase)
  /\ UNCHANGED <<store, starts, proc, controller, command, queue, work, lastJob>>

\* A review is run again, or a fix or a conflict is worked on further.
Revise ==
  /\ Reviews
  /\ pending' = FALSE /\ result' = 0
  /\ input' = Start(phase)
  /\ UNCHANGED <<store, starts, proc, phase, jobs, awaiting, failed, failedPrompt, command, queue, work, lastJob>>

\* The operator has read what is to be fixed.
StartFix ==
  /\ Reads /\ ~failed /\ phase = "fix" /\ awaiting
  /\ awaiting' = FALSE /\ pending' = FALSE /\ result' = 0
  /\ input' = Start("fix")
  /\ UNCHANGED <<store, starts, proc, phase, jobs, failed, failedPrompt, command, queue, work, lastJob>>

\* An approved review that was selected is left, or reviewed again.
Leave ==
  /\ Reads /\ ~failed /\ phase = "review_approved"
  /\ Restart
  /\ UNCHANGED <<store, starts, controller, queue, work, lastJob>>

ReviewAgain ==
  /\ Reads /\ ~failed /\ phase = "review_approved"
  /\ phase' = "review"
  /\ pending' = FALSE /\ result' = 0
  /\ input' = Start("review")
  /\ UNCHANGED <<store, starts, proc, jobs, awaiting, failed, failedPrompt, command, queue, work, lastJob>>

\* CompleteIfClosed; as long as the pull request is open only its state is printed.
Complete ==
  /\ Reads /\ ~failed /\ phase = "verification" /\ proc = "on"
  /\ ~open
  /\ SetState("completed")
  /\ Restart
  /\ UNCHANGED <<label, open, artifact, posted, starts, controller, queue, work, lastJob>>

\* A failed job is run again; a reset that fails leaves the choice open.
Retry ==
  /\ Reads /\ failed
  /\ failed' = FALSE /\ failedPrompt' = "free"
  /\ pending' = FALSE /\ result' = 0
  /\ input' = Start(failedPrompt)
  /\ UNCHANGED <<store, starts, proc, phase, jobs, awaiting, command, queue, work, lastJob>>

\* Without anything to decide, a text is a prompt of its own.
FreeText ==
  /\ Reads /\ ~failed /\ ~pending /\ ~awaiting /\ phase \in Works
  /\ input' = Start("free")
  /\ UNCHANGED <<store, starts, proc, controller, command, queue, work, lastJob>>

-----------------------------------------------------------------------------
(* The input goroutine: startJob, BeforeJob and OnJobStart *)

\* The repository or the worktree of the review cannot be brought up to date.
PrepareFails ==
  /\ input.pc = "start" /\ lastJob < MaxJob
  /\ CanFail("git") \/ proc = "cancelled"
  /\ lastJob' = lastJob + 1
  /\ input' = Idle
  /\ UNCHANGED <<store, starts, proc, controller, command, queue, work>>

\* A prompt that the controller does not expect.
SubmitUntracked ==
  /\ input.pc = "start" /\ lastJob < MaxJob /\ proc = "on"
  /\ input.prompt = "free"
  /\ lastJob' = lastJob + 1
  /\ queue' = Append(queue, [id |-> lastJob + 1, prompt |-> input.prompt])
  /\ input' = Idle
  /\ UNCHANGED <<store, starts, proc, controller, command, work>>

Track ==
  /\ input.pc = "start" /\ lastJob < MaxJob /\ proc = "on"
  /\ input.prompt # "free"
  /\ lastJob' = lastJob + 1
  /\ jobs' = jobs \cup {lastJob + 1}
  /\ input' = [input EXCEPT !.pc = "tracked", !.id = lastJob + 1]
  /\ UNCHANGED <<store, starts, proc, phase, review, command, queue, work>>

\* Workflow.Start, unless a verification begins, which keeps the stored decision.
Submit ==
  /\ input.pc = "tracked"
  /\ IF phase = "verification" THEN UNCHANGED <<db, lost>> ELSE SetState(StartState(phase))
  /\ queue' = Append(queue, [id |-> input.id, prompt |-> input.prompt])
  /\ input' = Idle
  /\ UNCHANGED <<label, open, artifact, posted, starts, proc, controller, command, work, lastJob>>

\* The job is dropped.
StartFails ==
  /\ input.pc = "tracked" /\ phase # "verification"
  /\ SetStateFails
  /\ jobs' = jobs \ {input.id}
  /\ input' = Idle
  /\ UNCHANGED <<label, open, artifact, posted, starts, proc, phase, review, command, queue, work, lastJob, lost>>

-----------------------------------------------------------------------------
(* The worker: a job and OnJobFinish *)

TakeJob ==
  /\ work.pc = "idle" /\ queue # <<>>
  /\ work' = [pc |-> "running", id |-> Head(queue).id, prompt |-> Head(queue).prompt]
  /\ queue' = Tail(queue)
  /\ UNCHANGED <<store, starts, proc, controller, command, input, lastJob>>

\* The turn, or the engine, returns.
JobEnds(outcome) ==
  /\ work.pc = "running"
  /\ work' = [work EXCEPT !.pc = outcome]
  /\ UNCHANGED <<store, starts, proc, controller, command, input, queue, lastJob>>

\* Mutant: a verification that fails is finished like a review.
EndVerificationAsReview ==
  /\ work.pc \in {"succeeded", "failing"} /\ work.id \in jobs /\ phase = "verification"
  /\ jobs' = jobs \ {work.id}
  /\ IF work.pc = "failing"
     THEN SetState(FailedState(phase)) /\ failed' = TRUE /\ failedPrompt' = work.prompt /\ UNCHANGED artifact
     ELSE artifact' = [artifact EXCEPT !["verification"] = work.id] /\ UNCHANGED <<db, failed, failedPrompt, lost>>
  /\ work' = NoWork
  /\ UNCHANGED <<label, open, posted, starts, proc, phase, pending, result, awaiting, command, input, queue, lastJob>>

IgnoreResult ==
  /\ work.pc \in {"succeeded", "failing"} /\ work.id \notin jobs
  /\ work' = NoWork
  /\ UNCHANGED <<store, starts, proc, controller, command, input, queue, lastJob>>

\* The result of a verification is saved on its own, or cannot be; a failed one
\* may be retried.  The stored state is left alone.
EndVerification ==
  /\ work.pc \in {"succeeded", "failing"} /\ work.id \in jobs /\ phase = "verification"
  /\ jobs' = jobs \ {work.id}
  /\ IF work.pc = "failing" THEN failed' = TRUE /\ failedPrompt' = work.prompt /\ UNCHANGED artifact
     ELSE /\ UNCHANGED <<failed, failedPrompt>>
          /\ \/ artifact' = [artifact EXCEPT !["verification"] = work.id]
             \/ CanFail("save") /\ artifact' = [artifact EXCEPT !["verification"] = Torn]
  /\ work' = NoWork
  /\ UNCHANGED <<label, open, db, lost, posted, starts, proc, phase, pending, result, awaiting, command, input, queue,
                 lastJob>>

\* SaveResult truncates the file of the phase, and writes it.
BeginSave ==
  /\ work.pc = "succeeded" /\ work.id \in jobs /\ phase # "verification"
  /\ jobs' = jobs \ {work.id}
  /\ artifact' = [artifact EXCEPT ![ArtifactOf(phase)] = Torn]
  /\ work' = [work EXCEPT !.pc = "saving"]
  /\ UNCHANGED <<label, open, db, lost, posted, starts, proc, phase, review, command, input, queue, lastJob>>

EndSave ==
  /\ work.pc = "saving"
  /\ artifact' = [artifact EXCEPT ![ArtifactOf(phase)] = work.id]
  /\ work' = [work EXCEPT !.pc = "saved"]
  /\ UNCHANGED <<label, open, db, lost, posted, starts, proc, controller, command, input, queue, lastJob>>

\* The failure is stored, but a retry is not offered.
SaveFails ==
  /\ work.pc = "saving" /\ CanFail("save")
  /\ SetState(FailedState(phase)) \/ (SetStateFails /\ lost' = TRUE)
  /\ work' = NoWork
  /\ UNCHANGED <<label, open, artifact, posted, starts, proc, controller, command, input, queue, lastJob>>

\* Finish(nil): the ready state is stored and the result is up for review.
ReviewResult ==
  /\ work.pc = "saved"
  /\ SetState(ReadyState(phase))
  /\ pending' = TRUE /\ result' = work.id
  /\ work' = NoWork
  /\ UNCHANGED <<label, open, artifact, posted, starts, proc, phase, jobs, awaiting, failed, failedPrompt, command,
                 input, queue, lastJob>>

ReadyNotRecorded ==
  /\ work.pc = "saved"
  /\ SetStateFails /\ lost' = TRUE
  /\ work' = NoWork
  /\ UNCHANGED <<label, open, artifact, posted, starts, proc, controller, command, input, queue, lastJob>>

\* Finish(err): the failed state is stored, the engine closed and a retry offered,
\* unless closing fails.
OfferRetry ==
  /\ work.pc = "failing" /\ work.id \in jobs /\ phase # "verification"
  /\ SetState(FailedState(phase))
  /\ jobs' = jobs \ {work.id}
  /\ \/ failed' = TRUE /\ failedPrompt' = work.prompt
     \/ CanFail("close") /\ UNCHANGED <<failed, failedPrompt>>
  /\ work' = NoWork
  /\ UNCHANGED <<label, open, artifact, posted, starts, proc, phase, pending, result, awaiting, command, input,
                 queue, lastJob>>

FailureNotRecorded ==
  /\ work.pc = "failing" /\ work.id \in jobs /\ phase # "verification"
  /\ SetStateFails /\ lost' = TRUE
  /\ jobs' = jobs \ {work.id}
  /\ work' = NoWork
  /\ UNCHANGED <<label, open, artifact, posted, starts, proc, phase, review, command, input, queue, lastJob>>

-----------------------------------------------------------------------------
Operator ==
  \/ Decide \/ Revise \/ StartFix \/ Leave \/ ReviewAgain \/ Complete \/ Retry \/ FreeText

InputStep ==
  \/ StartVerification \/ VerificationDoesNotStart \/ Post \/ PostFails \/ RecordDecision \/ DecisionNotRecorded
  \/ PrepareFails \/ SubmitUntracked \/ Track \/ Submit \/ StartFails

WorkerStep ==
  \/ TakeJob \/ (\E outcome \in {"succeeded", "failing"} : JobEnds(outcome))
  \/ IgnoreResult \/ EndVerification \/ BeginSave \/ EndSave \/ SaveFails
  \/ ReviewResult \/ ReadyNotRecorded \/ OfferRetry \/ FailureNotRecorded

Life == Launch \/ Cancel \/ Close \/ Exit \/ Crash
Environment == TheyClose \/ SetStatus \/ CommandEnds

Next == Operator \/ InputStep \/ WorkerStep \/ Life \/ Environment

Spec == Init /\ [][Next]_vars

\* The goroutines go on, and turns end; the operator need not do anything.
FairSpec == Spec /\ WF_vars(InputStep) /\ WF_vars(WorkerStep) /\ WF_vars(Exit)

-----------------------------------------------------------------------------
(* Properties *)

\* One job, decision, failure or question at a time, and the job is one of the
\* phase: HandleInput may read and change the phase without the lock, and OnJobFinish
\* saves the result where it belongs, only because of that.
OneTrackedJob ==
  /\ \A i, j \in jobs : i = j
  /\ jobs # {} \/ work.pc \in {"saving", "saved"} => ~pending /\ ~failed /\ ~awaiting
  /\ ~(pending /\ failed) /\ ~(pending /\ awaiting) /\ ~(failed /\ awaiting)
  /\ input.pc = "tracked" => input.prompt = phase
  /\ \A k \in 1 .. Len(queue) : queue[k].id \in jobs => queue[k].prompt = phase
  /\ work.id \in jobs \/ work.pc \in {"saving", "saved"} => work.prompt = phase

\* A decision is only stored of a result that is still reviewed, that is the saved
\* one, written to its end, and that was posted to the pull request.
DecisionIsPosted ==
  [][proc # "off" /\ proc' # "off" /\ db' # db /\ db' \in Decided
     => /\ pending /\ result \in JobIds
        /\ posted[phase] = result /\ artifact[ArtifactOf(phase)] = result]_vars

\* Whatever becomes of a verification, the approval it follows stays stored, with
\* the review as posted, until the pull request is closed.
VerificationKeepsDecision ==
  phase = "verification" =>
    /\ db \in {"review_approved", "completed"}
    /\ posted["review"] # 0 /\ posted["review"] = artifact["review"]
    /\ db = "completed" => ~open

\* The command only runs for a verification or the approval that leads to one:
\* each way an approval can fail stops it.
CommandIsStopped ==
  command => phase = "verification" \/ (input.pc \in {"posting", "posted"} /\ input.decision = "verify")

\* One that is stored as running does not stay so while turns end, unless the
\* end of its job could not be stored.
RunningSettles == (db \in Running /\ ~lost) ~> (db \notin Running \/ lost)
=============================================================================
