------------------------------- MODULE AutoRoles -------------------------------
(***************************************************************************)
(* Auto mode: how issues and pull requests go from hand to hand between a  *)
(* process of the implementer and one of the reviewer.                     *)
(*                                                                         *)
(* Models the loop of run in cmd/korocon/main.go: what each role selects,  *)
(* what the loaded target makes of the process, and what is stored when a  *)
(* job starts or ends and when the operator decides, over one state        *)
(* database.  Nothing else passes between the two processes.  What happens *)
(* inside a job and beside it is in IssueReview, PRReview and the engines; *)
(* how a wait ends is in AutoInput.  Names are not those of Workspace, so  *)
(* that one module can extend both.                                        *)
(***************************************************************************)
EXTENDS Naturals

CONSTANTS Issues,       \* the numbers of the issues
          PullRequests, \* the numbers of the pull requests
          IssueLabels,  \* state labels that an issue can carry at first
          PRLabels,     \* state labels that a pull request can carry at first
          Failures,     \* what can fail
          MaxAnswer,    \* bound: answers that ask for more work, set-status and relaunches
          MaxConflict   \* bound: conflicts that arise

OfIssue == INSTANCE IssueStates
OfPR == INSTANCE PRStates

ASSUME AutoRolesAssumption ==
  /\ Issues \subseteq Nat \ {0} /\ PullRequests \subseteq Nat \ {0} /\ Issues \cap PullRequests = {}
  /\ IssueLabels \subseteq OfIssue!States /\ PRLabels \subseteq OfPR!States
  /\ Failures \subseteq {"gh", "start", "job", "crash", "cancel"}
  /\ MaxAnswer \in Nat /\ MaxConflict \in Nat

VARIABLES
  db,       \* the stored state of each target, "none" without a row
  label,    \* the state label of each target on GitHub
  pr,       \* each pull request on GitHub
  conflict, \* the pull requests that GitHub reports as conflicting
  process,  \* the two processes
  answers,  \* how often the operator asked for more
  arisen,   \* how many conflicts arose
  left,     \* history: targets that a process left in the middle of its work
  shared    \* history: pull requests that both processes were let to work on at once

github == <<label, pr, conflict>>
bounds == <<answers, arisen>>
history == <<left, shared>>
rolesVars == <<db, github, process, bounds, history>>

Roles == {"implementer", "reviewer"}
Targets == Issues \cup PullRequests
Numbers == Targets \cup {0}

\* Labels are from before there was a database: nothing is given one any more.
Labeled(n) == {"none"} \cup IF n \in Issues THEN IssueLabels ELSE PRLabels
Labelings ==
  {l \in [Targets -> {"none"} \cup IssueLabels \cup PRLabels] : \A n \in Targets : l[n] \in Labeled(n)}

\* "selecting" .. "loading" is between two daemons; "starting" and "running" is a job
\* of the daemon; then the daemon waits for the operator; "waiting" is for a target.
Asks == {"result", "failed", "fix", "leave", "verified", "nothing"}
Daemon == {"starting", "running"} \cup Asks
Places == {"selecting", "loading", "waiting", "over"} \cup Daemon
ProcessState == [pc : Places, target : Numbers, phase : OfPR!Phases \cup OfIssue!Phases]
Selecting == [pc |-> "selecting", target |-> 0, phase |-> "review"]

RolesTypeOK ==
  /\ db \in [Targets -> OfIssue!States \cup OfPR!States]
  /\ label \in Labelings
  /\ pr \in [PullRequests -> {"absent", "open", "closed", "merged"}]
  /\ conflict \subseteq PullRequests
  /\ process \in [Roles -> ProcessState]
  /\ answers \in 0 .. MaxAnswer /\ arisen \in 0 .. MaxConflict
  /\ left \subseteq Targets /\ shared \subseteq PullRequests

RolesInit ==
  /\ db = [n \in Targets |-> "none"]
  /\ pr \in [PullRequests -> {"absent", "open"}]
  /\ label \in Labelings
  /\ \A n \in PullRequests : pr[n] = "absent" => label[n] = "none"
  /\ conflict = {}
  /\ process = [r \in Roles |-> Selecting]
  /\ answers = 0 /\ arisen = 0
  /\ left = {} /\ shared = {}

MayFail(fault) == fault \in Failures

GoesTo(r, pc) == process' = [process EXCEPT ![r].pc = pc]
Leaves(r) == process' = [process EXCEPT ![r] = Selecting]
Dies(r) == process' = [process EXCEPT ![r] = [Selecting EXCEPT !.pc = "over"]]
Store(n, state) == db' = [db EXCEPT ![n] = state]
Conflicts(n) == n \in conflict /\ pr[n] = "open"

-----------------------------------------------------------------------------
(* What a role selects *)

\* StateForIssue and StateForPullRequest store a state for a target without one, by its
\* label; for an issue whose pull request exists they fail and store nothing.
ByLabel(n) ==
  IF n \in PullRequests THEN OfPR!StateForPhase(OfPR!PhaseFor(label[n], Conflicts(n)))
  ELSE IF label[n] = "pr_created" THEN "none"
  ELSE OfIssue!StateForPhase(OfIssue!Classify(label[n]))
Migrated(n) == IF db[n] # "none" THEN db[n] ELSE ByLabel(n)

\* Every listed target is migrated while it is filtered.
Migrate(listed) == db' = [n \in Targets |-> IF n \in listed THEN Migrated(n) ELSE db[n]]

\* Open issues are listed; one is closed by the pull request that resolves it.
IsOpen(i) == db[i] # "pr_created"

IssueTargets ==
  {i \in Issues : IsOpen(i) /\ Migrated(i) \notin {"none"} \cup OfIssue!Running \cup OfIssue!Ready}

\* Mutant: a fixed pull request is not reviewed again.
RoleTargetOnce(r, n) ==
  IF r = "implementer"
  THEN \/ Conflicts(n)
       \/ Migrated(n) \in {"pr_review_comment", "review_fix_running", "review_fix_ready", "failed"} \cup OfPR!Failed
  ELSE ~Conflicts(n) /\ Migrated(n) = "waiting"

\* Mutant: the reviewer looks at the conflict only.
RoleTargetAnyState(r, n) == (r = "implementer") = (Conflicts(n) \/ Migrated(n) = "pr_review_comment")

\* pullRequestIsRoleTargetInDir
RoleTarget(r, n) ==
  IF r = "implementer"
  THEN \/ Conflicts(n)
       \/ Migrated(n) \in {"pr_review_comment", "review_fix_running", "review_fix_ready", "failed"} \cup OfPR!Failed
  ELSE ~Conflicts(n) /\ Migrated(n) \in {"waiting", "review_fixed"}

\* The list holds closed ones too.
Listed == {n \in PullRequests : pr[n] # "absent"}

PRTargets(r) ==
  {n \in Listed : pr[n] # "merged" /\ Migrated(n) \notin OfPR!Running /\ RoleTarget(r, n)}

\* An issue comes first, and of its kind the one with the highest number; the pull
\* requests are only listed when there is no issue.
Select(r) ==
  /\ process[r].pc = "selecting"
  /\ LET issues == IF r = "implementer" THEN IssueTargets ELSE {}
         eligible == IF issues # {} THEN issues ELSE PRTargets(r)
         listed == IF r = "implementer" THEN {i \in Issues : IsOpen(i)} ELSE {} IN
     /\ IF issues # {} THEN Migrate(listed) ELSE Migrate(listed \cup Listed)
     /\ \/ eligible = {} /\ GoesTo(r, "waiting")
        \/ \E n \in eligible :
             /\ \A m \in eligible : m <= n
             /\ process' = [process EXCEPT ![r].pc = "loading", ![r].target = n]
  /\ UNCHANGED <<github, bounds, history>>

\* waitForAutoPolling: Enter, or the interval.
WaitEnds(r) ==
  /\ process[r].pc = "waiting"
  /\ Leaves(r)
  /\ UNCHANGED <<db, github, bounds, history>>

\* Any error of a list, of a load or of what precedes the daemon ends the process.
SelectionFails(r) ==
  /\ process[r].pc \in {"selecting", "loading"} /\ MayFail("gh")
  /\ Dies(r)
  /\ UNCHANGED <<db, github, bounds, history>>

\* loadIssue and newIssueReviewController; only what came between the list and the
\* load can make it ready.
LoadIssue(r, i) ==
  LET phase == OfIssue!Classify(db[i])
      known == IF phase = "failed" THEN OfIssue!Failed ELSE {phase} IN
  \E p \in known :
    process' = [process EXCEPT ![r].phase = OfIssue!Stage(p),
                         ![r].pc = CASE p \in OfIssue!Failed -> "failed"
                                     [] p \in OfIssue!Ready -> "result"
                                     [] OTHER -> "starting"]

\* loadPullRequest and newPRReviewController: the state and the conflict are read
\* again, whether it is running is not.
LoadPR(r, n) ==
  IF pr[n] # "open" THEN Dies(r)
  ELSE LET loaded == OfPR!PhaseFor(db[n], Conflicts(n)) IN
       process' = [process EXCEPT ![r].phase = OfPR!RetriedIn(loaded),
                            ![r].pc = CASE loaded \in OfPR!Failed -> "failed"
                                        [] loaded = "fix" -> "fix"
                                        [] loaded = "review_approved" -> "leave"
                                        [] OTHER -> "starting"]

\* In the daemon of role r.
WorksOn(r, n) == process[r].pc \in Daemon /\ process[r].target = n
Shared(n) == \A r \in Roles : WorksOn(r, n)

\* The ways the code lets both work on one pull request: a conflict; a review that
\* failed or was approved, which the implementer takes up; and a state that becomes
\* another between the list and the load, so that the reviewer fixes.
TakesAlong(n) ==
  /\ Shared(n)
  /\ \/ \E r \in Roles : process[r].phase = "conflict"
     \/ process["implementer"].phase # "fix"
     \/ process["reviewer"].phase = "fix" /\ arisen > 0

Load(r) ==
  /\ process[r].pc = "loading"
  /\ IF process[r].target \in Issues THEN LoadIssue(r, process[r].target) ELSE LoadPR(r, process[r].target)
  /\ UNCHANGED <<db, github, bounds, left>>
  /\ shared' = shared \cup {n \in PullRequests : TakesAlong(n)'}

-----------------------------------------------------------------------------
(* A job and its end *)

StartState(n, phase) ==
  IF n \in Issues THEN OfIssue!StartState(phase)
  ELSE IF phase = "verification" THEN db[n] ELSE OfPR!StartState(phase)

\* Mutant: the job runs without its running state.
StartUnstored(r) ==
  /\ process[r].pc = "starting"
  /\ GoesTo(r, "running")
  /\ UNCHANGED <<db, github, bounds, history>>

\* OnJobStart
Start(r) ==
  LET p == process[r] IN
  /\ p.pc = "starting"
  /\ Store(p.target, StartState(p.target, p.phase))
  /\ GoesTo(r, "running")
  /\ left' = IF p.phase = "verification" THEN left ELSE left \ {p.target}
  /\ UNCHANGED <<github, bounds, shared>>

\* BeforeJob or OnJobStart fails: the daemon has no job and no question.
StartFails(r) ==
  /\ process[r].pc = "starting" /\ MayFail("start")
  /\ GoesTo(r, "nothing")
  /\ UNCHANGED <<db, github, bounds, history>>

\* OnJobFinish: the ready state is stored, but for a verification.
Finish(r) ==
  LET p == process[r] IN
  /\ p.pc = "running"
  /\ IF p.phase = "verification" THEN GoesTo(r, "verified") /\ UNCHANGED db
     ELSE /\ GoesTo(r, "result")
          /\ Store(p.target, IF p.target \in Issues THEN OfIssue!ReadyState(p.phase) ELSE OfPR!ReadyState(p.phase))
  /\ UNCHANGED <<github, bounds, history>>

StoreFailed(p) ==
  IF p.phase = "verification" THEN UNCHANGED db
  ELSE Store(p.target, IF p.target \in Issues THEN OfIssue!FailedState(p.phase) ELSE OfPR!FailedState(p.phase))

FinishFailed(r) ==
  /\ process[r].pc = "running" /\ MayFail("job")
  /\ StoreFailed(process[r])
  /\ GoesTo(r, "failed")
  /\ UNCHANGED <<github, bounds, history>>

-----------------------------------------------------------------------------
(* The operator *)

\* The design is approved: the implementation follows in the same daemon.
ApproveDesign(r) ==
  LET p == process[r] IN
  /\ p.pc = "result" /\ p.phase = "design"
  /\ Store(p.target, "design_approved")
  /\ process' = [process EXCEPT ![r].pc = "starting", ![r].phase = "implementation"]
  /\ UNCHANGED <<github, bounds, history>>

\* The implementation is approved: a pull request is opened, one of these, or one that
\* the filters leave out.
ApproveImplementation(r) ==
  LET p == process[r] IN
  /\ p.pc = "result" /\ p.phase = "implementation"
  /\ Store(p.target, "pr_created")
  /\ \/ \E n \in PullRequests : pr[n] = "absent" /\ pr' = [pr EXCEPT ![n] = "open"]
     \/ UNCHANGED pr
  /\ Leaves(r)
  /\ UNCHANGED <<label, conflict, bounds, history>>

\* A review, a fix or a conflict is approved, and the process goes on to its next
\* target.  GitHub takes its time to see that the conflict is gone.
ApprovePR(r) ==
  LET p == process[r] IN
  /\ p.pc = "result" /\ p.phase \in OfPR!Works
  /\ Store(p.target, OfPR!DecidedState(p.phase, "approve"))
  /\ conflict' \in IF p.phase = "conflict" THEN {conflict, conflict \ {p.target}} ELSE {conflict}
  /\ Leaves(r)
  /\ UNCHANGED <<label, pr, bounds, history>>

\* The review is approved and the head is verified before.
ApproveVerified(r) ==
  LET p == process[r] IN
  /\ p.pc = "result" /\ p.phase = "review"
  /\ Store(p.target, "review_approved")
  /\ process' = [process EXCEPT ![r].pc = "starting", ![r].phase = "verification"]
  /\ UNCHANGED <<github, bounds, history>>

\* The reviewer hands the pull request to the implementer.
RequestChanges(r) ==
  LET p == process[r] IN
  /\ p.pc = "result" /\ p.phase = "review" /\ answers < MaxAnswer
  /\ Store(p.target, OfPR!DecidedState("review", "changes"))
  /\ answers' = answers + 1
  /\ Leaves(r)
  /\ UNCHANGED <<github, arisen, history>>

\* What is to be fixed was read.
StartFix(r) ==
  /\ process[r].pc = "fix"
  /\ GoesTo(r, "starting")
  /\ UNCHANGED <<db, github, bounds, history>>

\* A result is revised, or a failed job retried.
WorkAgain(r) ==
  /\ process[r].pc \in {"result", "failed"} /\ answers < MaxAnswer
  /\ answers' = answers + 1
  /\ GoesTo(r, "starting")
  /\ UNCHANGED <<db, github, arisen, history>>

\* An approved review is left, or reviewed again.
Leave(r) ==
  /\ process[r].pc = "leave"
  /\ Leaves(r)
  /\ UNCHANGED <<db, github, bounds, history>>

ReviewAgain(r) ==
  /\ process[r].pc = "leave" /\ answers < MaxAnswer
  /\ answers' = answers + 1
  /\ process' = [process EXCEPT ![r].pc = "starting", ![r].phase = "review"]
  /\ UNCHANGED <<db, github, arisen, history>>

\* CompleteIfClosed
Complete(r) ==
  LET p == process[r] IN
  /\ p.pc = "verified" /\ pr[p.target] \in {"closed", "merged"}
  /\ Store(p.target, "completed")
  /\ Leaves(r)
  /\ UNCHANGED <<github, bounds, history>>

\* The target, when its stored state says that work is under way or to be decided.
UnderWay == OfIssue!Running \cup OfIssue!Ready \cup OfPR!Running \cup OfPR!Ready
LeftBy(r) == {n \in Targets : process[r].target = n /\ process[r].pc \in Daemon /\ db[n] \in UnderWay}

\* Mutant: the job that is cancelled does not reach OnJobFinish.
CancelDropsJob(r) ==
  /\ process[r].pc # "over" /\ MayFail("cancel")
  /\ UNCHANGED <<db, left>>
  /\ Dies(r)
  /\ UNCHANGED <<github, bounds, shared>>

\* Ctrl+C: the job that runs is stored as failed.
Cancel(r) ==
  /\ process[r].pc # "over" /\ MayFail("cancel")
  /\ IF process[r].pc = "running" THEN StoreFailed(process[r]) /\ UNCHANGED left
     ELSE left' = left \cup LeftBy(r) /\ UNCHANGED db
  /\ Dies(r)
  /\ UNCHANGED <<github, bounds, shared>>

Crash(r) ==
  /\ process[r].pc # "over" /\ MayFail("crash")
  /\ left' = left \cup LeftBy(r)
  /\ Dies(r)
  /\ UNCHANGED <<db, github, bounds, shared>>

Relaunch(r) ==
  /\ process[r].pc = "over" /\ answers < MaxAnswer
  /\ answers' = answers + 1
  /\ Leaves(r)
  /\ UNCHANGED <<db, github, arisen, history>>

\* issue set-status and pr set-status, for a target that no process works on.
SetStatus(n) ==
  /\ answers < MaxAnswer /\ \A r \in Roles : process[r].target # n
  /\ \/ n \in Issues /\ IsOpen(n) /\ \E state \in {"detected", "design_approved"} : Store(n, state)
     \/ n \in PullRequests /\ pr[n] = "open" /\ \E state \in {"waiting", "pr_review_comment"} : Store(n, state)
  /\ answers' = answers + 1
  /\ left' = left \ {n}
  /\ UNCHANGED <<github, process, arisen, shared>>

-----------------------------------------------------------------------------
(* GitHub *)

ConflictArises(n) ==
  /\ pr[n] = "open" /\ n \notin conflict /\ arisen < MaxConflict
  /\ conflict' = conflict \cup {n} /\ arisen' = arisen + 1
  /\ UNCHANGED <<db, label, pr, process, answers, history>>

\* Resolved by others, or not yet known again after a push.
ConflictGoes(n) ==
  /\ n \in conflict
  /\ conflict' = conflict \ {n}
  /\ UNCHANGED <<db, label, pr, process, bounds, history>>

TheyClose(n) ==
  /\ pr[n] = "open"
  /\ \E end \in {"closed", "merged"} : pr' = [pr EXCEPT ![n] = end]
  /\ UNCHANGED <<db, label, conflict, process, bounds, history>>

-----------------------------------------------------------------------------
\* What a process does by itself.
Step(r) ==
  \/ Select(r) \/ WaitEnds(r) \/ SelectionFails(r) \/ Load(r)
  \/ Start(r) \/ StartFails(r) \/ Finish(r) \/ FinishFailed(r)

Operator(r) ==
  \/ ApproveDesign(r) \/ ApproveImplementation(r) \/ ApprovePR(r) \/ ApproveVerified(r)
  \/ RequestChanges(r) \/ StartFix(r) \/ WorkAgain(r) \/ Leave(r) \/ ReviewAgain(r) \/ Complete(r)
  \/ Cancel(r) \/ Relaunch(r)

RolesNext ==
  \/ \E r \in Roles : Step(r) \/ Operator(r) \/ Crash(r)
  \/ \E n \in Targets : SetStatus(n)
  \/ \E n \in PullRequests : ConflictArises(n) \/ ConflictGoes(n) \/ TheyClose(n)

RolesSpec == RolesInit /\ [][RolesNext]_rolesVars

\* A process goes on, its turns and its waits end; the operator need not do anything.
FairRolesSpec == RolesSpec /\ \A r \in Roles : WF_rolesVars(Step(r))

-----------------------------------------------------------------------------
(* Properties *)

InHand(n) == \E r \in Roles : process[r].target = n

\* Whose turn it is, as docs/usage.md tells it (lines 166 and 168).
Due(r, n) ==
  IF n \in Issues
  THEN r = "implementer" /\ Migrated(n) \in {"detected", "design_approved", "failed"} \cup OfIssue!Failed
  ELSE /\ pr[n] = "open"
       /\ IF r = "implementer"
          THEN (n \in conflict /\ db[n] \notin OfPR!Running) \/ Migrated(n) = "pr_review_comment"
          ELSE n \notin conflict /\ Migrated(n) \in {"waiting", "review_fixed"}

\* What is due is taken, so that nothing stays due: the process of the role comes to
\* it, unless it waits for the operator or is over.
HandedOver ==
  \A r \in Roles, n \in Targets :
    []<>(~Due(r, n) \/ process[r].target = n \/ process[r].pc \in Asks \cup {"over"})

\* Nothing falls between the roles: an open target that is in nobody's hand is decided
\* for good or due to one of them.  There are three exceptions: it was left by a
\* process that was stopped or died in its work; it has, or had, a conflict, or the
\* label of one; the label of an issue, from before there was a database, makes it one
\* whose work is under way, to be decided or done (OutOfReach).
OutOfReach(i) ==
  /\ label[i] = "pr_created" \/ ByLabel(i) \in OfIssue!Running \cup OfIssue!Ready
  /\ db[i] \in {"none", ByLabel(i)}
NobodysWork ==
  /\ \A i \in Issues \ left : ~InHand(i) /\ IsOpen(i) => i \in IssueTargets \/ OutOfReach(i)
  /\ \A n \in PullRequests \ left : ~InHand(n) /\ pr[n] = "open"
       => \/ \E r \in Roles : RoleTarget(r, n)
          \/ Migrated(n) \in {"review_approved", "pr_conflict", "pr_conflict_resolved"}

\* The two together: every state is of its type, and NobodysWork.
RolesInvariant == RolesTypeOK /\ NobodysWork

\* A pull request is not fixed by one process while the other reviews it, unless they
\* had come together in one of the ways of TakesAlong.
FixIsAlone == \A n \in PullRequests \ shared : ~Shared(n)

\* The states that may follow each other (docs/usage.md, lines 224 to 228).
Follow(state) ==
  CASE state = "none" -> {"waiting", "pr_conflict", "review_approved", "pr_review_comment"} \cup OfPR!Failed
    [] state \in {"waiting", "review_failed", "review_fixed"} -> {"review_running"}
    [] state = "review_running" -> {"review_ready", "review_failed"}
    [] state = "review_ready" -> {"review_running", "review_approved", "pr_review_comment"}
    [] state = "review_approved" -> {"review_running", "completed"}
    [] state \in {"pr_review_comment", "review_fix_failed"} -> {"review_fix_running"}
    [] state = "review_fix_running" -> {"review_fix_ready", "review_fix_failed"}
    [] state = "review_fix_ready" -> {"review_fix_running", "review_fixed"}
    [] state = "pr_conflict_running" -> {"pr_conflict_ready", "pr_conflict_failed"}
    [] state = "pr_conflict_ready" -> {"pr_conflict_resolved", "review_running"}
    [] state = "pr_conflict_resolved" -> {"review_running"}
    [] OTHER -> {}

\* Though nothing but its row passes between the processes, a pull request goes through
\* its states in order: no process stores over what the other has stored meanwhile.
\* Exceptions: set-status, which leaves the processes alone, a conflict, and one that is
\* shared or was left.
StatesInOrder ==
  [][\A n \in PullRequests \ (shared' \cup left) :
       db'[n] # db[n] /\ process' # process
       => \/ db'[n] \in Follow(db[n])
          \/ db'[n] = "pr_conflict_running" /\ db[n] \notin {"review_running", "review_fix_running"}]_rolesVars
=============================================================================
