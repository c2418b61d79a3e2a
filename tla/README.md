# A TLA+ model of korocon

korocon is a command-line program that walks GitHub issues and pull requests
through a workflow of AI agents: an issue is designed, the design is approved by
the operator, it is implemented and verified in a git worktree, the
implementation is approved and becomes a pull request; the pull request is
reviewed, fixed and merged.  A resident daemon runs the agents, asks the operator
for approvals and keeps the state of every issue and pull request in a database.

This directory holds TLA+ modules of its components, the TLC configurations that
check them on small instances, and theorems checked by TLAPS.  All paths below
are relative to the repository.

## 1. Inventory

| component | source | state | operations | what makes it correct |
|---|---|---|---|---|
| Approval gate | `internal/daemon/daemon.go` 101-330 | pending prompt, one-place queue, allow lists, grants per job and process | a request arrives, waits, is shown, decided or abandoned; `/approve`, `/allow...`, `/decline`, Enter | one prompt at a time; no answer reaches a prompt it was not typed for; grants do not outlive their job; every request is answered |
| Resident daemon | `internal/daemon/daemon.go` 332-760, `input_linux.go` | job queue (128), worker, primary session, status, restart flag | submit, take, run, finish a job; `/model`; end of input, Ctrl+C, restart | jobs run one at a time in order; every accepted job finishes; Run returns |
| Issue review controller | `cmd/korocon/issue_review.go` | phase, expected prompts, tracked jobs, pending result, failure to retry | OnJobStart, OnJobFinish, HandleInput, retries | one job or one decision at a time; what is reviewed is what is saved |
| Issue workflow, database | `internal/issue/workflow.go`, `internal/workflowstate/store.go` | phase, row of the issue, artifact files, labels | load and classify, Start, SaveResult, Finish, Approve, SetStatus, SyncRepository | the stored state lets a relaunch go on; posted and published artifacts are the reviewed ones |
| Implementation engine | `internal/implementation/engine.go` | worktree, branch, two agent sessions, a lock | Run, Reset, Publish, Close | only verified work is pushed; work of others is kept; no agent is left over |
| PR review controller, PR workflow | `cmd/korocon/pr_review.go`, `internal/pullrequest/workflow.go` | phase, pending result, row of the PR, feedback files | review, approval, request for changes, fix, conflict, closing | a stored decision is of the result that was reviewed and posted; an approval outlives its verification |
| Fix engine | `internal/pullrequest/fix_engine.go` | worktree of the PR, sessions for fixes and for conflicts | Run, RunConflict, Publish, PublishConflict, Reset | as the implementation engine; a merge is finished or undone |
| Runtime command | `internal/pullrequest/runtime.go` | a shell process | Start, Close | runs for one verification, stopped on every way out of it |
| Codex session | `internal/runner/session.go` | child process, pending calls, event channel, turn lock | call, RunTurn, reader, Close | every call gets its response or an error; a turn ends |
| Copilot session | `internal/runner/copilot_session.go` | the same over ACP, the model | prompt, permission requests, SetModel, Close | the same |
| Selection and auto mode | `cmd/korocon/main.go` | filters, target, lines of the terminal, a wake-up | list, load, run the daemon, wait, set-status | each target is taken by the role it is due to, whatever the other process does; a line is read by the one it was typed for |
| Synchronisation of the clone | `internal/issue/workflow.go` 356-403 | the operator's changes in the tree and in git's stash | stash, fetch, pull, pop before a job | no change is lost; a job starts with the changes that were put aside |
| Configuration | `internal/config`, `cmd/korocon/config.go` | one file, a copy in each process | load, set, allow, init, save | the file holds what the operator was told |
| Command matching | `internal/daemon/approval.go` | none | tokenise, match commands and paths | an allowed prefix allows nothing else |
| Lists, output, prompts | `cmd/korocon/list.go`, `system_output.go`, `artifact` | none | format | sequential, covered by the tests |

The daemon calls the controllers: `BeforeJob` and `OnJobStart` on the goroutine
that submits a job, `OnJobFinish` on the worker, `HandleInput` on the input
goroutine.  The controllers call the workflow (which writes the database and the
files, and posts to GitHub) and the engines, and give jobs back to the daemon.
The engines run turns of their agent sessions, whose requests for approval come
back to the daemon on goroutines of their own.  Everything a process knows is
gone when it ends; the database, the artifact files, the worktree, the branch on
origin and the issue on GitHub stay.  In auto mode two processes, an implementer and a
reviewer, work on one database, one clone and one configuration file, and nothing else
passes between them.

What is hard about it: four kinds of goroutine share state under three locks and
two channels; results are reviewed asynchronously; publishing is a sequence of
commands any of which can fail or reach GitHub all the same; a process can end
between any two steps and its successor only has what was stored.
`PROJECT.json` lists the hazards one by one, at their lines, with the properties
that watch them.

## 2. The modules

| module | what it is |
|---|---|
| `ApprovalGate` | what the gate promises to one that sends requests: they wait, are shown one at a time, and are answered |
| `Approval` | the gate in detail: handlers, input goroutine, worker, sessions; implements `ApprovalGate` |
| `IssueReview` | the life of one issue: controller, workflow, database, files, queue and worker, over several processes |
| `VerifiedLoop` | what an implementation engine promises: at most `Limit` attempts, results only as verified |
| `Engine` | the implementation engine with its worktree, origin, pull request and agents; implements `VerifiedLoop` |
| `FixEngine` | the engine of a pull request: fixes, conflicts and reviews in one worktree; implements `VerifiedLoop` in a fix |
| `PRReview` | the life of one pull request: controller, workflow, database, files, verification command, queue and worker |
| `Session` | a session with an agent process, Codex or Copilot: calls, turns, reader, waiter, requests, Close |
| `JobService` | what the daemon promises to the controllers: announced jobs are served in order, one at a time, all of them |
| `Resident` | the daemon's queue, worker, input goroutine, primary session and shutdown; implements `JobService` |
| `IssueStates`, `PRStates` | the states and phases of issues and pull requests, as the workflows map them onto each other |
| `AutoRoles` | auto mode: the implementer and the reviewer over one database, from selection to decision |
| `AutoInput` | the terminal in auto mode: one reader, waits with goroutines of their own, the daemons between them |
| `Workspace` | what the processes of one clone share: the operator's changes, git's stash, `config.json` |
| `ApprovalProofs`, `IssueReviewProofs`, `EngineProofs`, `ResidentProofs`, `WorkspaceProofs`, `FixEngineProofs`, `PRReviewProofs`, `SessionProofs` | the theorems of the module each is named after; `WorkspaceProofs` has those of `AutoRoles` and `ResidentProofs` those of `AutoInput` as well |
| `MC...` | instances for TLC |

### Approval

A handler (one goroutine per request) moves through `idle`, `queued` (waits for
`approvalQueue`), `acquired`, `waiting` (shown), `clearing` and `releasing` (the
two deferred functions), `returning`, one action for each.  `slot` is the place
in `approvalQueue`, `pending` is `pendingApproval`, `decision` the buffered
channel of a prompt.  The input goroutine answers in three steps, as
`respondApproval` does: it reads the pending prompt under the lock (`ReadPending`),
records the grant (`GrantScope`, `RefuseScope`), and sends the decision without
blocking (`SendDecision`); in between anything may happen to the prompt.  A
prompt whose handler has returned is a channel nobody reads (`Forgotten`).  The
worker takes and ends jobs, starts and closes the primary session and the
engine's; closing a session ends the context of its outstanding requests.  What a
permanent grant does to `config.json`, and a save that fails, are in `Workspace`.

### IssueReview

The database row (`db`), the label on GitHub, the two artifact files, the posted
design and the published implementation survive the process; the rest does not.
An artifact is the id of the job that wrote it, or `Torn` while it is written.
`worktree`, `pushed` and `described` are the jobs whose files the worktree has, whose files
are on the branch, and whose result is the text of the pull request (0: not known to this
process, or none).  A publish commits and pushes (`Push`) and then opens a pull request,
unless there is one, whose URL it returns and whose text it leaves as it is (`Describe`).
`HandleInput`, a nested sequence of calls that write in several places, is split
where a call can fail: `Approve`, `PostDesign`/`PostFails`, `Publish`/`PublishFails`,
`DesignApproved`, `ImplementationApproved`, `ApprovalNotRecorded`; likewise a
submission (`PrepareFails`, `Track`, `Submit`, `StartFails`) and the end of a job
(`BeginSave`, `EndSave`, `ReviewResult`, `OfferRetry` and their failures).
`Launch` loads what the database says and does what the constructor of the
controller does, its order included.

### Engine

A file tree, a commit and a branch are sets of changes, one number for each turn
of the implementer and one for what others push.  `call` is the holder of
`Engine.mu` with its place; the actions are the calls in `Run` and `Publish` that
can fail separately.  `Commit`, `Rebase`, `RebaseConflicts` and `Push` are what the
git commands do to tree, HEAD, branch and origin: while a rebase is stopped HEAD is
detached, a commit goes beside the branch, and another rebase is refused.
`PublishFails` lets a push or a pull request reach GitHub although the command
reports an error.

### FixEngine

Trees, commits and branches as in `Engine`, with `Theirs` for what others push to the
head branch and `Base` for the base branch.  A selection has one phase, and the
worktree outlives it: `UpdateWorktree` is what `ensureWorktree` makes of a worktree
that is missing, clean and behind, or left as it is; `Diverged` is the case it refuses.
`merging` and `conflict` say how far a merge is and what of it nobody has resolved,
where only markers are visible to `PublishConflict`.  The implementer may leave the
merge, commit it or give it up (`Resolve`, `GiveUpMerge`).  A publish is the places
`commit`, `ancestor` (a conflict only), `push`, `record`, each of which may fail.  The
controller appears as what it asks for: jobs, approvals, a retry from the start.

### PRReview

Built as `IssueReview`, for the controller of pull requests.  A selection works in one
phase; `PhaseFor` and `StateForPhase` give it from the row, the label and the conflict
GitHub reports, in the order of the code (a failure, a conflict, a fix, an approval).
An approval is `Decide`, `StartVerification` (the worktree and the command), `Post`
(push and comment; what they do to the branch is in `FixEngine`) and `RecordDecision`,
each with its failure.  `command` is the process of `RuntimeCommand`: it ends on its
own, with the context, and where the code closes it.  A verification is a job whose
result is saved on its own and stores no state; `Complete` ends it once the pull
request is closed.

`lost`, here and in `IssueReview`, is a history variable: the end of the last job was
not stored, because the database failed or the process was killed.  In `IssueReview` it
also says that the row became running without a job, by the label of the issue.

### Session

Both providers in one module, as they share calls, reader, waiter and Close; `provider`
is chosen at the start.  A caller (the worker, or the input goroutine for `SetModel`)
works off a list of calls: `initialize`, `new`; `turn` and `settings` of Codex; `ide`,
`model`, `prompt` of Copilot.  A call is `Register` (id and channel), `Write`, and a
wait that ends by its response, the context, or the process.  A turn of Codex goes on to
read events (`CodexEvent`); one of Copilot takes events while it waits and, after the
response, until there are none (`TakeResponse`, `CopilotEvent`, `FinishTurn`).  The
reader hands on what is in `out`, and waits in `send` while the channel of events is
full.  `Reap` is `cmd.Wait`, which closes a stdout that may still hold something.  The
agent answers, refuses, says, asks, ends, dies and sends events of no turn; it
takes one turn at a time.

### Resident

The input goroutine (`reader`) is at one of the places where it can wait: `prepare`
(BeforeJob and OnJobStart run), `send` (the queue is full), `lock` (`sessionMu`),
`set` and `turn` (the model of the session is switched; a Copilot session waits for
`turnMu` and then runs a turn of its own), `wait` (`wg.Wait`).  The worker takes a
job, closes or starts the primary session under `sessionMu`, runs the turn, waits
for approvals (`asking`), and calls OnJobFinish.  `sessionMu` and `turnMu` are read
off these places (`SessionLocked`, `PromptRuns`).  What a line means is left to
`Approval` and `IssueReview`: here it is a job, a model, an answer, or a restart.
In `JobService` a job waits from its announcement on, so the job that waits for room
in the queue counts; the refinement mapping appends it to the queue.

### AutoRoles

A process is in the loop of `runInteractive`: `selecting` (the lists are read, every
listed target is migrated, the one with the highest number is taken), `loading` (its
state and its conflict are read again), `starting` and `running` (a job), a question to
the operator, or `waiting`.  What is stored is what the controllers store when a job
starts or ends and when a decision is recorded; `IssueReview` and `PRReview` have what
happens in between.  The two processes read and write one row per target, without a lock.
`SetStatus`, a relaunch and GitHub (a conflict arises or goes, a pull request is closed)
come in at any time.  Two history variables name what the properties except: `left`, a
target whose process was stopped or died in its work, and `shared`, a pull request that
the code lets both processes take up (`TakesAlong` lists the three ways).  A target
without a row gets one from its label and its conflict (`ByLabel`, `Migrated`), or none
and is left out.

### AutoInput

`terminal` is the goroutine of `newAutoPollingInput`, which files each line for the wait
or for the daemon and puts one token into `notify`.  Each wait starts a goroutine in
`nextLine` (`next`), which looks for a line, waits for the token, or gives up when its
context is done; `main` is the loop: `begin`, `wait`, `leave` (`endWait`), `cancel`, then
the daemon's `read` and `token`.  `stolen` records that a goroutine of a wait that was
over has taken a token or a line.

### Workspace

`BeginSync`, `Push`, `Fetch`, `Pull`, `Pop`, `Restore` are the commands of
`SyncRepository`, each with its failure; between any two of them the other process, the
operator and the agents may act.  `stash pop` takes the newest entry, whoever pushed it.
`config.json` is truncated and written in two steps, by a process that allows a command
for good (with all it has in its memory) or by a config command (with what it has loaded).
`mixed` records that another hand has crossed a sync, `fresh` whose copy of the
configuration is the one of the file, `overwritten` that one that was not was saved.

## 3. The runs

Runs that pass:

| run | bounds | what it shows |
|---|---|---|
| `approval_interleaving` | two handlers, one subject, three kinds of requests, two jobs of both kinds, grants for a job | one prompt at a time, no decision before its prompt, a job of the primary session starts without a grant of an earlier one, `ApprovalGate` is implemented |
| `approval_jobs` | two handlers, one subject, one job of either kind, grants for good, fairness | every request that waits is answered, behind another one too |
| `issue_review` | five labels, all faults, five jobs, three selections, fairness | one tracked job, saved results are reviewed, implementations follow posted designs, pull requests hold what was reviewed, nothing stays stored as running but for what `lost` excepts |
| `engine` | two attempts, one turn that changes files, two processes, all faults, pushes of others, a removed worktree, fairness | only verified work is pushed, done means pushed, no orphaned agents, every call ends |
| `fix_engine` | two attempts, one turn that changes files, two selections of any phase, all faults, pushes of others to both branches, a removed worktree | only what was put up for approval is pushed, a resolved conflict holds the base branch, nothing of others is lost, `VerifiedLoop` is implemented |
| `pr_review` | three labels, with and without verification, all faults, four jobs, two selections, fairness | one tracked job, stored decisions are of posted results, a verification keeps its approval, its command is stopped, nothing stays stored as running |
| `session` | both providers, five calls, a channel of one place, two events of no turn, all faults, fairness | a result is complete and of its turn, a closed session leaves nothing, nobody waits for an answer that cannot come, callers return |
| `resident` | a queue of one place, three jobs of both kinds, both providers, two models, all faults, fairness | `JobService` is implemented, no session is closed under a turn, Run returns, the input goroutine comes back but for one deadlock |
| `roles` | an issue and a pull request with and without a label, all faults, two answers that ask for more, one conflict, fairness | no open target is in nobody's hand and due to nobody, what is due is taken, no pull request is fixed and reviewed at once, its states come in order |
| `auto_input` | two waits, three lines, the end of the input among them, fairness | a line is read by the one it was typed for, Enter ends a wait, no wake-up is lost, the daemon hears every line |
| `workspace` | two processes, a config command, one change of the operator's, two commands, two changes of the configuration, all faults | no change is lost, a job starts with the changes its sync has put aside, the file holds what was told |

Every module has a type invariant.  Where it is proved (below) the run leaves it out;
elsewhere it is a conjunct of the run's `...Invariant`, with the property that is named
beside it.

Two handlers are enough for the gate because a third would only wait in the same
queue.  A grant for a job is the one that can come too late; of the two that stay, for good
and for the process, the run has the one that may also be refused, and the theorems have
both.  The five labels of an issue
are none, a design and an implementation to decide, an approved design, which is migrated
to a running state, and a failure of no phase.
Five jobs let an issue be designed, revised, implemented, fail and be
retried; three selections let a process be followed by one that reads what it
left and by one that reads what that one left.  Four jobs let a pull request be
reviewed, reviewed again, and verified with a retry.  Two attempts of one implementation
are enough for a limit that is reached and one that is not; turns that change nothing
are not bounded.  Five calls are the two of the start and two turns, or a turn and a
switch of the model; a channel of one place is full with one event, as the one of the
program is with 256, and two events of no turn are one too many for it.  Two selections of a pull request let every phase meet what any other
has left.  With a queue of one place, three jobs fill every place a job can
have (one runs, one is queued, one waits for room); the 128 places of the program
only make the wait rarer.  Two waits let a goroutine of the first meet the second and
the daemon after it; three lines are one before, one in and one after a wait.  One pull
request is enough for the roles, because a process has one target at a time and the rows
do not touch each other; the issue is the second target that a selection chooses between.
Its labels are one that is migrated to a ready state and one that is not migrated at all,
the pull request's one that makes it the implementer's; the theorems have all labels.
One change of the operator's is in the tree, in one of two stash entries, or committed;
more of them are only in more places.

One run ends in a violation.  `fix_unresolved`: `PublishConflict` runs `git add -A`
(`internal/pullrequest/fix_engine.go` 183) before it asks for unresolved files (186), so
that a conflict without markers is pushed as it was left, against `docs/design.md` 200.

Other divergences of the code from its documents are steps of the models, and exceptions
that the properties name; they have no run of their own:

- `/allow-job` for a request of an engine is a grant to the job that started the engine's
  sessions, which may be over: it is not taken back when the later job ends, and accepts
  requests of jobs still later, against `docs/usage.md` 337, where it ends with its job.
  So `PromptJobStartsUngranted` is about the primary session alone.
- A pull request that was made by an approval which then failed keeps the text of that
  result when another one is approved (`engine.go` 210-212), though `docs/usage.md` 304
  has the saved result in it.  So `PullRequestHoldsArtifact` is about what its branch
  holds, and of the text it asks that there is a pull request.
- The labels of an approved design and of a running implementation are migrated to
  `implementation_running` (`issue/workflow.go` 597-609) before a job has run: if its
  synchronisation fails, nothing is stored, and the row says running for ever (`lost` in
  `IssueReview`).
- A loaded implementation cannot be published: `Publish` wants the worktree that only
  `Run` initialises (`engine.go` 193), although `docs/usage.md` 319 lets a stored result be
  approved after a restart (`Publish` in `IssueReview` is disabled, `PublishFails` is not).
- When `git pull --rebase` stops at a conflict, the next approval commits the files with
  their markers on the detached HEAD and fails at the rebase again (`engine.go` 243-270;
  `docs/usage.md` 304 lets an approval that failed be repeated).  `OnlyVerifiedIsPushed`
  shows that it never gets to origin.
- `/model` during a Copilot turn waits for `turnMu` on the input goroutine
  (`copilot_session.go` 146).  If the turn then asks, nobody reads the answer
  (`docs/design.md` 240 and 244); the same with a full queue.  `InputComesBack` names it.
- A loaded `implementation_ready` issue without artifact is implemented by an untracked
  job (`Launch`, `SubmitUntracked`), a reloaded failed implementation is retried with
  the prompt of a design (`Retry`), a job that could not be prepared is not offered again
  (`PrepareFails`), and an implementation is announced while another job runs (`Track`).
- A prompt queued before `/model` runs with the old model (`NewJob`), `Reset` does nothing
  before the first job of a process, so that a diverged fix fails again and again, and
  grants are not looked at again when a request is shown (`Show`).
- A Copilot turn entered after Ctrl+C can return text of the one that was given up
  (`late` in `Session`).
- In auto mode, an issue with a legacy label that is migrated to a ready or running state
  (`design_ready`, `implementation_ready`, `implementation_running`, `design_approved`) is
  never selected, nor is one with `pr_created` or `implementation_approved`, which is not
  migrated at all (`OutOfReach`); a pull request in `pr_conflict` or
  `pr_conflict_resolved` whose conflict is gone is taken by nobody, nor is a target that
  was left as ready or running by a process that was stopped (`NobodysWork`).
- The reviewer holds a pull request whose review has failed while the implementer selects
  it; a conflict lets both work on it, because the load does not look at running again; a
  reviewer that is slow between list and load may be given a fix (`TakesAlong`).
- The list of pull requests holds closed ones, and loading one ends the process, as does
  any error of `gh` (`LoadPR`, `SelectionFails`).
- An end of the terminal that is met before or in a wait is forgotten, so that a later
  daemon never ends by it (`docs/design.md` 246), and a goroutine of a wait that is over
  can take the wake-up of another (`stolen` in `AutoInput`).
- Two processes that synchronise one clone pop each other's stash entries, or the
  operator's own, because `stash push` succeeds with nothing to stash; after a restore
  that failed the next job starts with a clean tree, without the changes
  (`JobHasItsChanges` excepts the first, `found` starts anew for the second).
- A command that is allowed for good saves all that the process has in its memory: what
  others have changed meanwhile is undone, and `--sync-dirty` is saved with it, against
  `docs/usage.md` 183 (`overwritten` in `Workspace`).  The file is truncated and then
  written: a crash in between leaves one that stops every start until `config init --force`.

Deadlock is not checked where the system may stop: the operator need not type,
bounded counters run out, and a process may be off for good.

### Fairness

`Approval`: handlers, being goroutines, go on when they can (weak fairness of their
steps); a channel serves its senders in order, so one that waits for the slot gets
it (strong fairness of `Acquire`); the operator presses Enter again and again
while a prompt stays (strong fairness, an assumption about a person, without which
no prompt is answered).  `IssueReview`: the two goroutines go on and turns end, by
an answer or an error; nothing is assumed of the operator or of relaunches.
`RunningSettles` excepts `lost`: the end that could not be stored, and the state that a
label was migrated to without a job.
`PRReview`: the same; that the end of a job is stored is not assumed, `lost` excepts it.
`Engine`: turns and commands end.
`Session`: goroutines go on, the agent ends its turns, requests are decided, and a
process whose context is done is killed and reaped.  `CallReturns` names what is not
assumed: that lines fit into the scanner, and that the agent sends no more events
between turns than the channel holds.  Without these two exceptions it fails.
`Resident`: the same of the two goroutines; Go's `select` takes any ready case, so a
loop that finds both a line and a context that is done takes the latter some day
(strong fairness of `Stop`); the operator answers a request that is shown again and
again (strong fairness of `Answer`), where the input goroutine can read the answer.  An agent whose turn never ends blocks the job;
nothing in the code limits a turn, so this is an assumption about agents.
`AutoRoles`: weak fairness of each process's own steps; the operator need not answer, and
set-status is only run for a target nobody works on (assumptions about the operator).  `AutoInput`: goroutines go on; nothing is assumed of the
operator, of GitHub and of the timer of a wait.  `Workspace` has safety only.

## 4. The theorems

`ApprovalProofs` proves, for any number of handlers, subjects and jobs, `TypeOK`,
`OnePromptAtATime`, `NoDecisionBeforePrompt`,
`PromptJobStartsUngranted`, `DecisionStands`, and that `Approval` implements
`ApprovalGate` (safety).  The inductive invariant adds to the properties that
the slot is free when nobody is served, that the prompt the input goroutine holds
belongs to a handler that has not returned, that an answer is only there after
`waiting`, and that job ids the input goroutine holds are of jobs already taken: a
grant that comes late is for an id that no later job gets.

`IssueReviewProofs` proves, for any labels, faults, number of jobs and selections,
`TypeOK`, `OneTrackedJob`, `PhasesAgree` (which no run checks on its own), `ReviewedResultIsSaved`,
`ImplementationFollowsPostedDesign` and `PullRequestHoldsArtifact`.  The argument is
that of a token: a pending result, a failure to retry, an input on its way to a
tracked job, a tracked job and a result that is being saved exclude each other
(`TokenInv`), and a text of the operator never takes part (`FreeInv`).  Whoever
holds the token fixes the phase (`PhaseInv`) and what database and files say
(`StoreInv`); with that, the posted design and the published implementation cannot
change behind the reviewer's back (`PostInv`, `PublishInv`).  That the branch holds the
result that is approved, and not what a later job has left in the worktree, needs more:
jobs run in the order of their ids (`OrderInv`), and while one of the engine is not
tracked there is nothing to review (`StrayInv`); so the worktree, once the process knows
it, has the files of the job whose result is reviewed (`FilesInv`).  The properties alone are not
inductive: `OneTrackedJob` needs to know that a prompt which is expected cannot be
typed by the operator, and the properties of the database need to know that a
torn artifact is only there while it is written or the row says running.

`EngineProofs` proves, for any loop count, faults, turns, processes and pushes of others,
`TypeOK`, `OnlyVerifiedIsPushed`, `NoOrphanSession`, `TheirsIsKept`,
`PublishedHoldsAccepted`, and that `Engine` implements `VerifiedLoop`.
`OnlyVerifiedIsPushed` needs to know that HEAD and the branch never hold unverified
work, and the files do not while a result has passed (`VerifiedInv`);
`PublishedHoldsAccepted` follows the result through the publish, from the files to HEAD,
to the branch, to origin (`CarryInv`), where a stopped rebase is the delicate case: its
branch is behind HEAD, and only the refusal of another rebase keeps it from being pushed.

`ResidentProofs` proves, for any capacity, `TypeOK`, `NotClosedInTurn` and that
`Resident` implements `JobService`.  The refinement needs that job ids are distinct
wherever a job can be (`IdInv`) and that nothing comes into a closed queue (`EndInv`).

For `AutoInput`, any number of lines and of waits, it proves `InputTypeOK`, that lines
keep their reader, and that no wake-up is lost (`InputHolds`). A line that the terminal
holds may be filed at any later time, for whoever reads then; so it is the queues that
have to be clean when a reader begins: `waitLines` is empty outside of a wait
(`FilesInv`), and `normalLines` is emptied when one begins, after which both only hold
lines of that wait's time (`LinesInv`). The goroutines of old waits can take from
`waitLines` but not add to it. A line is filed before its token is left, and whoever
sleeps has looked before: between the two the terminal is at `notify`, and a token that
somebody else takes is taken by his own wait or counts as `stolen` (`WakeInv`).

`WorkspaceProofs` proves, for any number of processes, changes and commands, `TypeOK`,
`ChangesAreKept`, `JobHasItsChanges` and `FileHoldsWhatWasTold`.  `SyncInv` says of each
place of a sync that no other hand has crossed what it relies on: before the push the
changes it has found are in the tree, after it in the newest entry of the stash, one above
the height it has found; only with that is the entry that a pop takes its own.  `FileInv`
says that whoever is fresh has in his memory what was told last, so that the save of
another change on top of it loses none.

For `AutoRoles`, any numbers of issues, pull requests, answers and conflicts, and all
failures, it proves `RolesTypeOK` and `NobodysWork` (`RolesHold`), `FixIsAlone`
(`FixHoldsAlone`) and `StatesInOrder` (`OrderHolds`).  A process that has its target acts
in one way, whatever the action is (`Turn`): it keeps the target or gives it up, leaves
all other rows and the other process alone, and stores at most the row of its target.
The three properties need each other.  Work under way is someone's (`AttendedInv`), so
what a process loads is not under way unless it is in both hands; then either it was
taken along, or what the process does and what is stored agree (`TableInv`: `Suits`
always, `Fits` also unless the target was left).  A fix suits the states of a fix alone
and a review none of them, so both cannot hold one pull request; only a reviewer that
fixes would be left, and `CalmInv` shows that the state cannot become one to fix between
his list and his load before the first conflict.  From `Fits` and `FixIsAlone` the stored
state is the one that the process knows, so that what it stores is next in order.  The
proof needs that GitHub's numbers begin with 1: 0 is no target (`AutoRolesAssumption`).

`FixEngineProofs` proves, for any loop count, faults, turns, selections and pushes of
others, `TypeOK`, `OnlyReviewedIsPushed`, `ResolvedHoldsBase`, `TheirsIsKept`,
`PublishedHoldsReviewed`, and that a fix implements `VerifiedLoop`.  A call is of the
phase of its selection, at a place of its operation (`CallInv`); while a result is up for
approval the files are exactly what was put up last, and an approval takes them from there
to HEAD and to origin (`ReviewedInv`): so it does not matter what an earlier job, phase or
process has left in the worktree.  The check of the base branch lasts until the push,
because no call that fetches comes in between (`BaseInv`).

`PRReviewProofs` proves, for any labels, faults, settings of the verification, jobs and
selections, `TypeOK`, `OneTrackedJob`, `DecisionIsPosted`, `VerificationKeepsDecision` and
`CommandIsStopped`.  The token is that of an issue, with one holder more, a fix that waits
for the operator to read what is to be fixed (`TokenInv`); whatever is tracked, queued,
running or failed is of the phase as it is, because the phase is only changed by the holder
(`PromptInv`, `PhaseInv`).  A result that is up for review is the saved one, and one place
further its comment is what was saved (`ResultInv`): so a decision, which only
`RecordDecision` stores, is of both.  In a verification nobody holds a result, and nothing
that the controller can still do reaches the row or the file of the review.

`SessionProofs` proves, for any capacity, calls, messages and faults, `TypeOK`,
`ResultIsOfTurn` and `NobodyWaitsInVain`, of which `NoAgentIsLeft` is the part about
closed sessions. Who uses the session has calls left to make, and `turnMu` only then; a
call that is expected has a goroutine that waits for it (`CallerInv`), and nobody uses a
session that is being closed (`LifeInv`). That the bound on calls is never met inside a
turn has to be counted: each call ahead, and the `/ide` that may have to come before,
has its id (`CountInv`). For the result, the channel of events, the event in the
reader's hand and what is unread of stdout are one sequence (`Live`), from which only
its head is taken and at whose end only the agent adds. An id is written once and taken
once, and nothing is told of it before (`IdInv`); after the end of a turn nothing is
told of it, and a response of Copilot that has overtaken its text has left all of it in
the channel (`EndInv`). Chunks of Copilot do not say to which turn they belong: `turnMu`
is what makes every one of them belong to the turn that is waited for (`TurnInv`,
`OneTurnInv`). So a turn has a number `t` of messages taken, its text is that of the
first `t`, and the rest is on its way in order, until the context is done (`TextInv`);
at its end nothing is left on the way, and `t` is all that was said. Nobody waits in
vain for two reasons: a call is expected before it is written and until its goroutine is
done with it (`ExpectInv`), so that its response always finds its channel; and the end
of a turn of Codex is on its way, or the agent at work on it, from the moment the turn
was accepted (`StartedInv`), which its goroutine may see much later, while nobody else
takes events (`EventsStay`). This is the safety in `CallReturns`: what remains for
liveness is that what is on the way gets on.

They rest on the named assumptions of the modules (sets of faults and labels, natural
bounds) and on nothing else.

Every invariant, action property and refinement (its safety) that a run checks is proved.
Only model-checked is liveness, which is out of the prover's reach: `RequestIsAnswered`,
`RunningSettles`, `CallEnds`, `EndReturns`, `InputComesBack`, `CallReturns`, `HandedOver`,
`LinesAreHeard`.

## 5. Not modelled

Command and path matching (`internal/daemon/approval.go`) is a pure function of strings,
taken character by character and covered by table tests; `Approval` takes its answer as
a set of subjects.  Lists, output layout, paths and prompts are sequential code without
state that the properties tell apart, as are the menus of an interactive selection, the
line editing of the terminal, and the defaults and checks of the settings that
`Workspace` does not tell apart.  The agents' protocols are modelled up to what the code
tells apart: which option or path a permission request of Copilot names is not.  A
process that is killed leaves its agents and its verification command running, and
`RuntimeCommand` only kills the shell; the models let them end with the process.  That
others delete the branch on origin is left out.  Two processes in the middle of one job's
steps on the same target are outside: `AutoRoles` has them at the grain of what is
stored, `IssueReview` and `PRReview` are of one process at a time.

## 6. Plan

In the order of what matters most to a user:

1. `Approval` with its proofs (done).
2. `IssueReview` with its proofs (done).
3. `Engine`, `VerifiedLoop` with their proofs (done).
4. `Resident`, `JobService` with their proofs (done).
5. `FixEngine`, again a `VerifiedLoop`, with its proofs (done).
6. `PRReview` with the runtime command and its proofs (done).
7. `Session` with its proofs (done).
8. `AutoRoles`, `AutoInput` with their proofs (done).
9. `Workspace` with its proofs (done).
10. A composition of `Resident` with the gate.
