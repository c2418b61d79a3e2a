--------------------------------- MODULE Engine ---------------------------------
(***************************************************************************)
(* The implementation engine of an issue (internal/implementation).        *)
(*                                                                         *)
(* Run lets an implementer and a verifier work in turns in a git worktree; *)
(* Publish commits, rebases, pushes and opens the pull request; Reset goes *)
(* back to the base branch.  Engine.mu makes the calls exclude each other, *)
(* so that one record, call, is where the lock's holder is.  The review    *)
(* controller calls Run for every implementation job, Publish when a       *)
(* passed implementation is approved, and Reset when a failed one is to be *)
(* run from the start.                                                     *)
(*                                                                         *)
(* Files and commits are sets of changes: one number per turn of the       *)
(* implementer, and Theirs for what others push to the branch.  A commit   *)
(* can be pushed over another one it contains.                             *)
(***************************************************************************)
EXTENDS Integers, FiniteSets

CONSTANTS LoopCount,  \* implementationLoopCount of the configuration
          Faults,     \* what can fail besides turns: commands, the database
          Others,     \* what others do to the branch on origin and the worktree
          MaxTurn,    \* bound: turns of the implementer
          MaxProcess  \* bound: starts of the process

ASSUME EngineAssumption ==
  /\ LoopCount \in Int /\ MaxTurn \in Nat /\ MaxProcess \in Nat
  /\ Faults \subseteq {"git", "session", "design", "gh", "db", "crash"}
  /\ Others \subseteq {"push", "remove"}

VARIABLES
  worktree,   \* the directory of the worktree exists
  tree,       \* the changes in its files
  head,       \* the changes in the commit HEAD
  branch,     \* the changes in the branch; HEAD is on it unless rebasing
  rebasing,   \* a rebase was stopped by a conflict
  conflict,   \* where conflict markers are: "none", "files" or "committed"
  origin,     \* the changes in the branch on origin
  onOrigin,   \* whether origin has it
  pr,         \* a pull request of the branch was opened
  outcome,    \* what became of the last Run, as the issue's state tells
  proc,       \* the process
  known,      \* Engine.worktree and .branch are set
  held,       \* Engine.implementer and .verifier are set (always both)
  alive,      \* the agent processes that live
  call,       \* the call that holds Engine.mu
  turns,      \* turns of the implementer so far
  processes,  \* starts of the process so far
  accepted,   \* history: the works the verifier has passed
  last        \* history: the one it passed last

git == <<worktree, tree, head, branch, rebasing, conflict>>
hub == <<origin, onOrigin, pr>>
sessions == <<held, alive>>
bounds == <<turns, processes>>
history == <<accepted, last>>
vars == <<git, hub, outcome, proc, known, sessions, call, bounds, history>>

\* New: a count that is not set is 3, a large one is cut.
Limit == IF LoopCount <= 0 THEN 3 ELSE IF LoopCount > 10 THEN 10 ELSE LoopCount

Theirs == 0
Changes == 0 .. MaxTurn
Agents == {"implementer", "verifier"}
RunPlaces == {"start", "implementer", "verifier", "design", "implement", "verify", "close"}
PublishPlaces == {"commit", "look", "rebase", "push", "open"}
Call == [op : {"none", "run", "publish"}, pc : {"none"} \cup RunPlaces \cup PublishPlaces, attempt : 0 .. Limit]
NoCall == [op |-> "none", pc |-> "none", attempt |-> 0]

TypeOK ==
  /\ worktree \in BOOLEAN /\ rebasing \in BOOLEAN /\ onOrigin \in BOOLEAN /\ pr \in BOOLEAN
  /\ tree \subseteq Changes /\ head \subseteq Changes /\ branch \subseteq Changes /\ origin \subseteq Changes
  /\ conflict \in {"none", "files", "committed"}
  /\ outcome \in {"none", "running", "passed", "failed", "published"}
  /\ proc \in {"off", "on", "cancelled"}
  /\ known \in BOOLEAN /\ held \in BOOLEAN
  /\ alive \subseteq Agents
  /\ call \in Call
  /\ turns \in 0 .. MaxTurn /\ processes \in 0 .. MaxProcess
  /\ accepted \subseteq SUBSET Changes /\ last \subseteq Changes

Init ==
  /\ worktree = FALSE
  /\ tree = {} /\ head = {} /\ branch = {} /\ rebasing = FALSE /\ conflict = "none"
  /\ origin = {} /\ onOrigin = FALSE /\ pr = FALSE
  /\ outcome = "none" /\ proc = "off"
  /\ known = FALSE /\ held = FALSE /\ alive = {}
  /\ call = NoCall
  /\ turns = 0 /\ processes = 0
  /\ accepted = {} /\ last = {}

CanFail(fault) == fault \in Faults \/ proc = "cancelled"
At(op, pc) == call.op = op /\ call.pc = pc
Goto(pc) == call' = [call EXCEPT !.pc = pc]
Free == call = NoCall

-----------------------------------------------------------------------------
(* Run *)

\* A job of the controller: the first one, a revision of a passed result, or a
\* failed one again.  The queue is drained even when the process is cancelled.
Run ==
  /\ proc # "off" /\ Free /\ outcome # "published"
  /\ call' = [NoCall EXCEPT !.op = "run", !.pc = "start"]
  /\ outcome' = "running"
  /\ UNCHANGED <<git, hub, proc, known, sessions, bounds, history>>

\* Sessions that are held are used again.
SessionsHeld ==
  /\ At("run", "start") /\ held
  /\ Goto("design")
  /\ UNCHANGED <<git, hub, outcome, proc, known, sessions, bounds, history>>

\* ensureWorktree: a directory that exists is taken as it is; else the branch is
\* set to HEAD of the repository, whatever it held.
EnsureWorktree ==
  /\ At("run", "start") /\ ~held /\ (worktree \/ proc = "on")
  /\ Goto("implementer")
  /\ worktree' = TRUE
  /\ IF worktree THEN UNCHANGED <<tree, head, branch, rebasing, conflict>>
     ELSE /\ tree' = {} /\ head' = {} /\ branch' = {}
          /\ rebasing' = FALSE /\ conflict' = "none"
  /\ UNCHANGED <<hub, outcome, proc, known, sessions, bounds, history>>

\* Mutant: the implementer is not closed when the verifier cannot be started.
FailAndForget ==
  /\ call.op = "run"
  /\ \/ call.pc = "start" /\ ~held /\ CanFail("git")
     \/ call.pc \in {"implementer", "verifier"} /\ CanFail("session")
     \/ call.pc = "design" /\ CanFail("design")
  /\ Goto("close")
  /\ UNCHANGED <<git, hub, outcome, proc, known, sessions, bounds, history>>

\* The worktree cannot be prepared, a session cannot be started (the other one is
\* closed), or the design cannot be read.
StartFails ==
  /\ call.op = "run"
  /\ \/ call.pc = "start" /\ ~held /\ CanFail("git")
     \/ call.pc \in {"implementer", "verifier"} /\ CanFail("session")
     \/ call.pc = "design" /\ CanFail("design")
  /\ Goto("close")
  /\ alive' = IF held THEN alive ELSE {}
  /\ UNCHANGED <<git, hub, outcome, proc, known, held, bounds, history>>

StartImplementer ==
  /\ At("run", "implementer") /\ proc = "on"
  /\ alive' = alive \cup {"implementer"}
  /\ Goto("verifier")
  /\ UNCHANGED <<git, hub, outcome, proc, known, held, bounds, history>>

\* Only now the engine holds the sessions and knows its worktree.
StartVerifier ==
  /\ At("run", "verifier") /\ proc = "on"
  /\ alive' = alive \cup {"verifier"}
  /\ held' = TRUE /\ known' = TRUE
  /\ Goto("design")
  /\ UNCHANGED <<git, hub, outcome, proc, bounds, history>>

ReadDesign ==
  /\ At("run", "design")
  /\ call' = [call EXCEPT !.pc = "implement", !.attempt = 1]
  /\ UNCHANGED <<git, hub, outcome, proc, known, sessions, bounds, history>>

\* What a turn does to the files: one more change, or nothing.
Edit ==
  /\ "implementer" \in alive /\ worktree /\ turns < MaxTurn
  /\ turns' = turns + 1
  /\ tree' = tree \cup {turns + 1}

\* A turn of the implementer, whose answer is saved.
Implement ==
  /\ At("run", "implement") /\ "implementer" \in alive
  /\ Edit \/ UNCHANGED <<tree, turns>>
  /\ Goto("verify")
  /\ UNCHANGED <<worktree, head, branch, rebasing, conflict, hub, outcome, proc, known, sessions, processes,
                 history>>

\* Mutant: a session that has died is waited for.
ImplementWaits ==
  /\ At("run", "implement") /\ "implementer" \in alive
  /\ Edit \/ UNCHANGED <<tree, turns>>
  /\ Goto("close")
  /\ UNCHANGED <<worktree, head, branch, rebasing, conflict, hub, outcome, proc, known, sessions, processes,
                 history>>

\* The turn fails half-way, its answer cannot be saved, or the session is dead.
ImplementFails ==
  /\ At("run", "implement")
  /\ Edit \/ UNCHANGED <<tree, turns>>
  /\ Goto("close")
  /\ UNCHANGED <<worktree, head, branch, rebasing, conflict, hub, outcome, proc, known, sessions, processes,
                 history>>

\* The verdict of the verifier, who only reads: the result is returned.
Passed ==
  /\ At("run", "verify") /\ "verifier" \in alive
  /\ outcome' = "passed"
  /\ accepted' = accepted \cup {tree} /\ last' = tree
  /\ call' = NoCall
  /\ UNCHANGED <<git, hub, proc, known, sessions, bounds>>

\* Mutant: one attempt too many.
ChangesRequestedOnceMore ==
  /\ At("run", "verify") /\ "verifier" \in alive
  /\ call' = IF call.attempt <= Limit
             THEN [call EXCEPT !.pc = "implement", !.attempt = @ + 1]
             ELSE [call EXCEPT !.pc = "close"]
  /\ UNCHANGED <<git, hub, outcome, proc, known, sessions, bounds, history>>

\* Changes are requested: the feedback goes into the next attempt, if there is one.
ChangesRequested ==
  /\ At("run", "verify") /\ "verifier" \in alive
  /\ call' = IF call.attempt < Limit
             THEN [call EXCEPT !.pc = "implement", !.attempt = @ + 1]
             ELSE [call EXCEPT !.pc = "close"]
  /\ UNCHANGED <<git, hub, outcome, proc, known, sessions, bounds, history>>

\* Mutant: a verdict that cannot be parsed counts as passed.
UnparsedPasses ==
  /\ At("run", "verify")
  /\ outcome' = "passed"
  /\ call' = NoCall
  /\ UNCHANGED <<git, hub, proc, known, sessions, bounds, history>>

\* The turn fails, its answer cannot be saved, or it is no verdict.
VerifyFails ==
  /\ At("run", "verify")
  /\ Goto("close")
  /\ UNCHANGED <<git, hub, outcome, proc, known, sessions, bounds, history>>

\* Run has returned an error: OnJobFinish stores it and closes the engine, or
\* cannot store it and leaves the sessions as they are.
CloseAfterFailure ==
  /\ At("run", "close")
  /\ \/ outcome' = "failed" /\ held' = FALSE /\ alive' = {}
     \/ "db" \in Faults /\ UNCHANGED <<outcome, sessions>>
  /\ call' = NoCall
  /\ UNCHANGED <<git, hub, proc, known, bounds, history>>

-----------------------------------------------------------------------------
(* Reset, before a failed job is run from the start *)

\* The sessions are closed, the worktree is reset and cleaned, and the job is
\* submitted.  An engine that has run no job knows no worktree, and resets none.
Reset ==
  /\ proc = "on" /\ Free /\ outcome = "failed"
  /\ held' = FALSE /\ alive' = {}
  /\ IF known
     THEN /\ worktree
          /\ tree' = {} /\ head' = {} /\ conflict' = "none"
          /\ branch' = IF rebasing THEN branch ELSE {}
     ELSE UNCHANGED <<tree, head, branch, conflict>>
  /\ call' = [op |-> "run", pc |-> "start", attempt |-> 0]
  /\ outcome' = "running"
  /\ UNCHANGED <<worktree, rebasing, hub, proc, known, bounds, history>>

\* git reset fails, or git clean does, which leaves the new files.
ResetFails ==
  /\ proc # "off" /\ Free /\ outcome = "failed" /\ known
  /\ CanFail("git") \/ ~worktree
  /\ held' = FALSE /\ alive' = {}
  /\ \/ UNCHANGED <<tree, head, branch, conflict>>
     \/ /\ worktree
        /\ tree' = tree \ head /\ head' = {} /\ conflict' = "none"
        /\ branch' = IF rebasing THEN branch ELSE {}
  /\ UNCHANGED <<worktree, rebasing, hub, outcome, proc, known, call, bounds, history>>

-----------------------------------------------------------------------------
(* Publish, when a passed implementation is approved *)

Publish ==
  /\ proc = "on" /\ Free /\ outcome = "passed" /\ known
  /\ call' = [NoCall EXCEPT !.op = "publish", !.pc = "commit"]
  /\ UNCHANGED <<git, hub, outcome, proc, known, sessions, bounds, history>>

\* stageAndCommitIfNeeded and ensureBranchHasCommit: whatever the files hold is
\* committed, on the branch or, while rebasing, beside it.
Commit ==
  /\ At("publish", "commit") /\ worktree /\ proc = "on"
  /\ head' = tree
  /\ branch' = IF rebasing THEN branch ELSE tree
  /\ conflict' = IF conflict = "files" THEN "committed" ELSE conflict
  /\ Goto("look")
  /\ UNCHANGED <<worktree, tree, rebasing, hub, outcome, proc, known, sessions, bounds, history>>

\* publishBranch: a branch that is on origin is rebased first.
LookAtOrigin ==
  /\ At("publish", "look") /\ worktree /\ proc = "on"
  /\ Goto(IF onOrigin THEN "rebase" ELSE "push")
  /\ UNCHANGED <<git, hub, outcome, proc, known, sessions, bounds, history>>

\* git pull --rebase, which refuses to start in the middle of a rebase.
Rebase ==
  /\ At("publish", "rebase") /\ worktree /\ onOrigin /\ ~rebasing /\ proc = "on"
  /\ head' = head \cup origin /\ branch' = head' /\ tree' = head'
  /\ Goto("push")
  /\ UNCHANGED <<worktree, rebasing, conflict, hub, outcome, proc, known, sessions, bounds, history>>

\* It stops at a conflict: HEAD is detached on origin's commit, and the files
\* hold both versions.
RebaseConflicts ==
  /\ At("publish", "rebase") /\ worktree /\ onOrigin /\ ~rebasing
  /\ ~(origin \subseteq head)
  /\ rebasing' = TRUE /\ conflict' = "files"
  /\ head' = origin /\ tree' = tree \cup origin
  /\ call' = NoCall
  /\ UNCHANGED <<worktree, branch, hub, outcome, proc, known, sessions, bounds, history>>

\* Mutant: the branch is pushed with --force.
PushByForce ==
  /\ At("publish", "push") /\ worktree /\ proc = "on"
  /\ origin' = branch /\ onOrigin' = TRUE
  /\ Goto("open")
  /\ UNCHANGED <<git, pr, outcome, proc, known, sessions, bounds, history>>

\* The push of the branch; origin refuses it unless it contains what is there.
Push ==
  /\ At("publish", "push") /\ worktree /\ proc = "on"
  /\ onOrigin => origin \subseteq branch
  /\ origin' = branch /\ onOrigin' = TRUE
  /\ Goto("open")
  /\ UNCHANGED <<git, pr, outcome, proc, known, sessions, bounds, history>>

\* The pull request of the branch is found, be it closed, or opened; then the issue's state is
\* stored and the process goes back to the selection, or it cannot be stored and
\* the approval is repeated.
OpenPullRequest ==
  /\ At("publish", "open") /\ worktree /\ proc = "on"
  /\ pr \/ onOrigin
  /\ pr' = TRUE
  /\ outcome' \in {"published"} \cup (IF "db" \in Faults THEN {outcome} ELSE {})
  /\ call' = NoCall
  /\ UNCHANGED <<git, origin, onOrigin, proc, known, sessions, bounds, history>>

\* Mutant: a push that fails is overlooked.
FailedPushIsIgnored ==
  /\ call.op = "publish"
  /\ \/ call.pc = "open" /\ CanFail("gh") /\ pr' \in {pr, pr \/ onOrigin}
     \/ call.pc = "open" /\ ~pr /\ ~onOrigin /\ UNCHANGED pr
     \/ ~worktree /\ UNCHANGED pr
     \/ call.pc \in {"commit", "look", "rebase", "push"} /\ CanFail("git") /\ UNCHANGED pr
     \/ call.pc = "rebase" /\ (rebasing \/ ~onOrigin) /\ UNCHANGED pr
     \/ call.pc = "push" /\ onOrigin /\ ~(origin \subseteq branch) /\ UNCHANGED pr
  /\ call' = IF call.pc = "push" THEN [call EXCEPT !.pc = "open"] ELSE NoCall
  /\ UNCHANGED <<git, origin, onOrigin, outcome, proc, known, sessions, bounds, history>>

\* A command fails: the result stays up for approval.  A push or a pull request
\* may have reached GitHub all the same.
PublishFails ==
  /\ call.op = "publish"
  /\ \/ call.pc = "open" /\ CanFail("gh") /\ pr' \in {pr, pr \/ onOrigin} /\ UNCHANGED <<origin, onOrigin>>
     \/ call.pc = "open" /\ ~pr /\ ~onOrigin /\ UNCHANGED hub
     \/ ~worktree /\ UNCHANGED hub
     \/ call.pc \in {"commit", "look", "rebase", "push"} /\ CanFail("git") /\ UNCHANGED hub
     \/ call.pc = "rebase" /\ (rebasing \/ ~onOrigin) /\ UNCHANGED hub
     \/ call.pc = "push" /\ onOrigin /\ ~(origin \subseteq branch) /\ UNCHANGED hub
     \/ /\ call.pc = "push" /\ CanFail("git") /\ (onOrigin => origin \subseteq branch)
        /\ origin' = branch /\ onOrigin' = TRUE /\ UNCHANGED pr
  /\ call' = NoCall
  /\ UNCHANGED <<git, outcome, proc, known, sessions, bounds, history>>

-----------------------------------------------------------------------------
(* The process, its agents, and others *)

Launch ==
  /\ proc = "off" /\ outcome # "published" /\ processes < MaxProcess
  /\ proc' = "on" /\ processes' = processes + 1
  /\ UNCHANGED <<git, hub, outcome, known, sessions, call, turns, history>>

\* The context is done: the agents are killed, and every command fails.
Cancel ==
  /\ proc = "on"
  /\ proc' = "cancelled" /\ alive' = {}
  /\ UNCHANGED <<git, hub, outcome, known, held, call, bounds, history>>

Leave ==
  /\ proc' = "off" /\ known' = FALSE /\ held' = FALSE /\ alive' = {}
  /\ call' = NoCall
  /\ UNCHANGED <<git, hub, outcome, bounds, history>>

\* The deferred Close, once no call holds the lock.
Exit == proc # "off" /\ Free /\ Leave

Crash == "crash" \in Faults /\ proc # "off" /\ Leave

AgentDies ==
  /\ "session" \in Faults
  /\ \E agent \in alive : alive' = alive \ {agent}
  /\ UNCHANGED <<git, hub, outcome, proc, known, held, call, bounds, history>>

TheyPush ==
  /\ "push" \in Others
  /\ origin' = origin \cup {Theirs} /\ onOrigin' = TRUE
  /\ UNCHANGED <<git, pr, outcome, proc, known, sessions, call, bounds, history>>

\* The operator removes the worktree to have it made again.
TheyRemove ==
  /\ "remove" \in Others /\ worktree /\ Free
  /\ worktree' = FALSE
  /\ UNCHANGED <<tree, head, branch, rebasing, conflict, hub, outcome, proc, known, sessions, call, bounds,
                 history>>

-----------------------------------------------------------------------------
RunStep ==
  \/ SessionsHeld \/ EnsureWorktree \/ StartImplementer \/ StartVerifier \/ StartFails \/ ReadDesign
  \/ Implement \/ ImplementFails \/ Passed \/ ChangesRequested \/ VerifyFails \/ CloseAfterFailure

PublishStep ==
  Commit \/ LookAtOrigin \/ Rebase \/ RebaseConflicts \/ Push \/ OpenPullRequest \/ PublishFails

Controller == Run \/ Reset \/ ResetFails \/ Publish
Life == Launch \/ Cancel \/ Exit \/ Crash
Environment == AgentDies \/ TheyPush \/ TheyRemove

Next == RunStep \/ PublishStep \/ Controller \/ Life \/ Environment

Spec == Init /\ [][Next]_vars

\* Turns and commands come to an end.
FairSpec == Spec /\ WF_vars(RunStep) /\ WF_vars(PublishStep)

-----------------------------------------------------------------------------
(* Properties *)

\* The engine is a verified loop: it returns a result as the verifier passed it,
\* and never asks the implementer more than Limit times.
Stage ==
  CASE At("run", "implement") -> "implementing"
    [] At("run", "verify") -> "verifying"
    [] At("run", "close") \/ (Free /\ outcome = "failed") -> "failed"
    [] call.op # "run" /\ outcome = "passed" -> "passed"
    [] OTHER -> "idle"

Loop == INSTANCE VerifiedLoop
          WITH Works <- SUBSET Changes, stage <- Stage, work <- tree,
               attempt <- IF At("run", "implement") \/ At("run", "verify") THEN call.attempt ELSE 0
LoopSpec == Loop!Spec

\* Nothing of ours gets to origin that no verifier has passed, whatever failed,
\* was repeated, reset or made again in between.
OnlyVerifiedIsPushed == origin \subseteq (UNION accepted) \cup {Theirs}

\* An issue only becomes done when its branch on origin has all that was passed
\* last.
PublishedHoldsAccepted ==
  [][outcome # "published" /\ outcome' = "published" => accepted # {} /\ last \subseteq origin]_vars

\* What others push to the branch is kept, whenever they do it.
TheirsIsKept == [][(Theirs \in origin) => (Theirs \in origin')]_vars

\* No agent lives that the engine could not close, once no call runs.
NoOrphanSession == call.op # "run" => alive = {} \/ held

\* A call comes to its end: the attempts are limited.
CallEnds == (call.op # "none") ~> (call.op = "none")
=============================================================================
