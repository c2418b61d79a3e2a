------------------------------- MODULE FixEngine -------------------------------
(***************************************************************************)
(* The engine that works in the worktree of a pull request                 *)
(* (internal/pullrequest/fix_engine.go).                                   *)
(*                                                                         *)
(* One selection of the pull request has one phase.  In a fix, Run lets an *)
(* implementer and a verifier work in turns; in a conflict, RunConflict    *)
(* merges the base branch and gives the implementer one turn; a result the *)
(* operator approves is committed and pushed to the head branch by Publish *)
(* or PublishConflict.  In a review, PrepareWorktree brings the worktree   *)
(* up to date and the reviewer reads it.  FixEngine.mu makes the calls     *)
(* exclude each other.  The worktree outlives the selections: a phase      *)
(* meets what an earlier one has left there.                               *)
(*                                                                         *)
(* Files and commits are sets of changes: one number per turn of the       *)
(* implementer, Theirs for what others push to the head branch, and Base   *)
(* for what they push to the base branch.                                  *)
(***************************************************************************)
EXTENDS Integers, FiniteSets

CONSTANTS LoopCount,    \* implementationLoopCount of the configuration
          Faults,       \* what can fail besides turns: commands, the database
          Others,       \* what others do to the branches and the worktree
          MaxTurn,      \* bound: turns of the implementer
          MaxSelection  \* bound: selections of the pull request

ASSUME FixEngineAssumption ==
  /\ LoopCount \in Int /\ MaxTurn \in Nat /\ MaxSelection \in Nat
  /\ Faults \subseteq {"git", "session", "gh", "db", "crash"}
  /\ Others \subseteq {"push", "base", "remove"}

VARIABLES
  worktree,   \* the directory of the worktree exists
  tree,       \* the changes in its files
  head,       \* the changes in the commit HEAD, which is detached
  merging,    \* MERGE_HEAD exists: a merge of the base branch is under way
  conflict,   \* what of a merge nobody has resolved: "none", "markers" in the
              \* files, or "plain", a conflict git can write no markers for
  origin,     \* the changes in the head branch on origin
  base,       \* the changes in the base branch on origin
  fetched,    \* the changes in the base branch as fetched last
  proc,       \* the selection: "off", "on" or "cancelled"
  phase,      \* its phase
  outcome,    \* what became of the last job, as the stored state tells
  known,      \* FixEngine.worktree is set
  prepared,   \* FixEngine.conflictPrepared
  held,       \* the agents FixEngine.implementer and .verifier refer to
  alive,      \* the agent processes that live
  call,       \* the job or approval under way
  turns,      \* turns of the implementer so far
  selections, \* selections so far
  accepted,   \* history: the works the verifier has passed
  reviewed    \* history: the work put up for approval last, and all changes put up

git == <<worktree, tree, head, merging, conflict>>
hub == <<origin, base>>
stored == <<phase, outcome>>
sessions == <<held, alive>>
bounds == <<turns, selections>>
history == <<accepted, reviewed>>
vars == <<git, hub, fetched, proc, stored, known, prepared, sessions, call, bounds, history>>

\* NewFixEngine: a count that is not set is 3, a large one is cut.
Limit == IF LoopCount <= 0 THEN 3 ELSE IF LoopCount > 10 THEN 10 ELSE LoopCount

Theirs == 0
Base == -1
Changes == Base .. MaxTurn
Agents == {"implementer", "verifier"}
Phases == {"review", "fix", "conflict"}
RunPlaces == {"start", "merge", "implementer", "verifier", "implement", "verify", "resolve", "save", "close"}
PublishPlaces == {"commit", "ancestor", "push", "record"}
Call == [op : {"none", "run", "conflict", "publish", "publishConflict"},
         pc : {"none"} \cup RunPlaces \cup PublishPlaces, attempt : 0 .. Limit]
NoCall == [op |-> "none", pc |-> "none", attempt |-> 0]
Reviewed == [last : SUBSET Changes, all : SUBSET Changes]

TypeOK ==
  /\ worktree \in BOOLEAN /\ merging \in BOOLEAN /\ known \in BOOLEAN /\ prepared \in BOOLEAN
  /\ tree \subseteq Changes /\ head \subseteq Changes /\ origin \subseteq Changes
  /\ base \subseteq {Base} /\ fetched \subseteq {Base}
  /\ conflict \in {"none", "markers", "plain"}
  /\ proc \in {"off", "on", "cancelled"} /\ phase \in Phases
  /\ outcome \in {"none", "running", "ready", "failed", "published"}
  /\ held \subseteq Agents /\ alive \subseteq Agents
  /\ call \in Call
  /\ turns \in 0 .. MaxTurn /\ selections \in 0 .. MaxSelection
  /\ accepted \subseteq SUBSET Changes
  /\ reviewed \in Reviewed

Init ==
  /\ worktree = FALSE /\ tree = {} /\ head = {} /\ merging = FALSE /\ conflict = "none"
  /\ origin = {} /\ base = {} /\ fetched = {}
  /\ proc = "off" /\ phase = "review" /\ outcome = "none"
  /\ known = FALSE /\ prepared = FALSE /\ held = {} /\ alive = {}
  /\ call = NoCall
  /\ turns = 0 /\ selections = 0
  /\ accepted = {} /\ reviewed = [last |-> {}, all |-> {}]

CanFail(fault) == fault \in Faults \/ proc = "cancelled"
At(op, pc) == call.op = op /\ call.pc = pc
Goto(pc) == call' = [call EXCEPT !.pc = pc]
Free == call = NoCall
Dirty == merging \/ tree # head
PutUp(work) == reviewed' = [last |-> work, all |-> reviewed.all \cup work]

-----------------------------------------------------------------------------
(* The worktree *)

\* ensureWorktree fetches everything.  A worktree that is not there is made of the
\* head branch, a clean one is moved forward to it, a dirty one is taken as it is.
UpdateWorktree ==
  /\ fetched' = base
  /\ worktree' = TRUE
  /\ \/ /\ ~worktree
        /\ tree' = origin /\ head' = origin /\ merging' = FALSE /\ conflict' = "none"
     \/ /\ worktree /\ ~Dirty /\ head \subseteq origin
        /\ tree' = origin /\ head' = origin /\ UNCHANGED <<merging, conflict>>
     \/ /\ worktree /\ (Dirty \/ origin \subseteq head)
        /\ UNCHANGED <<tree, head, merging, conflict>>

\* A clean worktree whose commit and the head branch have gone separate ways.
Diverged == worktree /\ ~Dirty /\ ~(head \subseteq origin) /\ ~(origin \subseteq head)

\* PrepareWorktree, when a pull request is selected for a review and before every
\* job of it: what is not committed must not be reviewed.
PrepareReview ==
  /\ proc = "on" /\ Free /\ phase = "review"
  /\ ~(worktree /\ Dirty)
  /\ UpdateWorktree
  /\ known' = TRUE /\ outcome' = "running"
  /\ UNCHANGED <<hub, proc, phase, prepared, sessions, call, bounds, history>>

-----------------------------------------------------------------------------
(* Run, the job of a fix *)

\* What the operator asks for: the first job, a revision of a result, or a failed
\* job again.  A job whose end could not be stored has left nothing to answer.
MayRun == proc # "off" /\ Free /\ outcome \in {"none", "ready", "failed"}

Run ==
  /\ MayRun /\ phase = "fix"
  /\ call' = [NoCall EXCEPT !.op = "run", !.pc = "start"]
  /\ outcome' = "running"
  /\ UNCHANGED <<git, hub, fetched, proc, phase, known, prepared, sessions, bounds, history>>

\* The sessions the job needs are held.
Started == IF call.op = "run" THEN held = Agents ELSE "implementer" \in held /\ prepared

SessionsHeld ==
  /\ At("run", "start") /\ Started
  /\ call' = [call EXCEPT !.pc = "implement", !.attempt = 1]
  /\ UNCHANGED <<git, hub, fetched, proc, stored, known, prepared, sessions, bounds, history>>

EnsureWorktree ==
  /\ At("run", "start") /\ ~Started /\ proc = "on"
  /\ UpdateWorktree
  /\ Goto("implementer")
  /\ UNCHANGED <<hub, proc, stored, known, prepared, sessions, bounds, history>>

StartImplementer ==
  /\ call.op \in {"run", "conflict"} /\ call.pc = "implementer" /\ proc = "on"
  /\ alive' = alive \cup {"implementer"}
  /\ IF call.op = "run" THEN Goto("verifier") /\ UNCHANGED held
     ELSE Goto("resolve") /\ held' = held \cup {"implementer"}
  /\ UNCHANGED <<git, hub, fetched, proc, stored, known, prepared, bounds, history>>

\* Only now the engine holds the sessions and knows its worktree.
StartVerifier ==
  /\ At("run", "verifier") /\ proc = "on"
  /\ alive' = alive \cup {"verifier"}
  /\ held' = Agents /\ known' = TRUE
  /\ call' = [call EXCEPT !.pc = "implement", !.attempt = 1]
  /\ UNCHANGED <<git, hub, fetched, proc, stored, prepared, bounds, history>>

\* The worktree cannot be brought up to date, a session cannot be started (the
\* other one is closed), the merge is refused or its conflicts cannot be listed.
CannotStart ==
  \/ call.op \in {"run", "conflict"} /\ call.pc = "start" /\ ~Started /\ (CanFail("git") \/ Diverged)
  \/ At("conflict", "merge") /\ (CanFail("git") \/ (~merging /\ tree # head))
  \/ call.pc \in {"implementer", "verifier"} /\ CanFail("session")
  \/ At("conflict", "resolve") /\ (CanFail("git") \/ ~worktree)

StartFails ==
  /\ CannotStart
  /\ Goto("close")
  /\ alive' = alive \cap held
  /\ fetched' \in {fetched} \cup (IF call.pc \in {"start", "merge"} THEN {base} ELSE {})
  /\ UNCHANGED <<git, hub, proc, stored, known, prepared, held, bounds, history>>

\* What a turn does to the files: one more change, or nothing.
Edit ==
  \/ /\ "implementer" \in alive /\ worktree /\ turns < MaxTurn
     /\ turns' = turns + 1 /\ tree' = tree \cup {turns + 1}
  \/ UNCHANGED <<turns, tree>>

Implement ==
  /\ At("run", "implement") /\ "implementer" \in alive
  /\ Edit
  /\ Goto("verify")
  /\ UNCHANGED <<worktree, head, merging, conflict, hub, fetched, proc, stored, known, prepared, sessions,
                 selections, history>>

\* The turn fails half-way, its answer cannot be saved, or the session is dead.
ImplementFails ==
  /\ At("run", "implement")
  /\ Edit
  /\ Goto("close")
  /\ UNCHANGED <<worktree, head, merging, conflict, hub, fetched, proc, stored, known, prepared, sessions,
                 selections, history>>

\* The verdict of the verifier, who only reads.
Passed ==
  /\ At("run", "verify") /\ "verifier" \in alive
  /\ Goto("save")
  /\ accepted' = accepted \cup {tree} /\ PutUp(tree)
  /\ UNCHANGED <<git, hub, fetched, proc, stored, known, prepared, sessions, bounds>>

\* Mutant: one attempt too many.
ChangesRequestedOnceMore ==
  /\ At("run", "verify") /\ "verifier" \in alive
  /\ call' = IF call.attempt <= Limit
             THEN [call EXCEPT !.pc = "implement", !.attempt = @ + 1]
             ELSE [call EXCEPT !.pc = "close"]
  /\ UNCHANGED <<git, hub, fetched, proc, stored, known, prepared, sessions, bounds, history>>

\* The feedback goes into the next attempt, if there is one.
ChangesRequested ==
  /\ At("run", "verify") /\ "verifier" \in alive
  /\ call' = IF call.attempt < Limit
             THEN [call EXCEPT !.pc = "implement", !.attempt = @ + 1]
             ELSE [call EXCEPT !.pc = "close"]
  /\ UNCHANGED <<git, hub, fetched, proc, stored, known, prepared, sessions, bounds, history>>

\* Mutant: a verdict that cannot be parsed counts as passed.
UnparsedPasses ==
  /\ At("run", "verify")
  /\ Goto("save")
  /\ UNCHANGED <<git, hub, fetched, proc, stored, known, prepared, sessions, bounds, history>>

\* The turn fails, its answer cannot be saved, or it is no verdict.
VerifyFails ==
  /\ At("run", "verify")
  /\ Goto("close")
  /\ UNCHANGED <<git, hub, fetched, proc, stored, known, prepared, sessions, bounds, history>>

-----------------------------------------------------------------------------
(* RunConflict, the job of a conflict *)

RunConflict ==
  /\ MayRun /\ phase = "conflict"
  /\ call' = [NoCall EXCEPT !.op = "conflict", !.pc = "start"]
  /\ outcome' = "running"
  /\ UNCHANGED <<git, hub, fetched, proc, phase, known, prepared, sessions, bounds, history>>

\* ensureConflictStarted: a merge that was prepared is not prepared again, be
\* there an implementer or not.
EnsureConflictStarted ==
  /\ At("conflict", "start")
  /\ IF Started
     THEN Goto("resolve") /\ UNCHANGED <<git, fetched, known>>
     ELSE /\ proc = "on" /\ UpdateWorktree /\ known' = TRUE
          /\ Goto(IF prepared THEN "implementer" ELSE "merge")
  /\ UNCHANGED <<hub, proc, stored, prepared, sessions, bounds, history>>

\* prepareConflictMerge: a merge under way is gone on with; else the base branch is
\* fetched and merged.  A conflict stops the merge and is what was asked for.
PrepareMerge ==
  /\ At("conflict", "merge") /\ worktree /\ proc = "on"
  /\ prepared' = TRUE
  /\ \/ merging /\ UNCHANGED <<tree, head, merging, conflict, fetched>>
     \/ /\ ~merging /\ fetched' = base
        /\ \/ head' = head \cup base /\ tree' = tree \cup base /\ UNCHANGED <<merging, conflict>>
           \/ /\ ~(base \subseteq head)
              /\ merging' = TRUE /\ conflict' \in {"markers", "plain"}
              /\ tree' = tree \cup base /\ UNCHANGED head
  /\ Goto(IF "implementer" \in held THEN "resolve" ELSE "implementer")
  /\ UNCHANGED <<worktree, hub, proc, stored, known, sessions, bounds, history>>

\* What the one turn may leave: the conflict resolved or not, and the merge
\* still under way, committed by the agent itself, or given up.
Resolve ==
  /\ Edit
  /\ conflict' \in {conflict, "none"}
  /\ \/ UNCHANGED <<head, merging>>
     \/ merging /\ merging' = FALSE /\ head' = tree'

GiveUpMerge ==
  /\ merging /\ merging' = FALSE
  /\ tree' = head /\ conflict' = "none"
  /\ UNCHANGED <<turns, head>>

ConflictTurn ==
  /\ At("conflict", "resolve") /\ "implementer" \in alive /\ worktree
  /\ Resolve \/ GiveUpMerge
  /\ \/ Goto("save") /\ PutUp(tree')
     \/ Goto("close") /\ UNCHANGED reviewed
  /\ UNCHANGED <<worktree, hub, fetched, proc, stored, known, prepared, sessions, selections, accepted>>

\* The session is dead.
ConflictTurnFails ==
  /\ At("conflict", "resolve") /\ "implementer" \notin alive
  /\ Goto("close")
  /\ UNCHANGED <<git, hub, fetched, proc, stored, known, prepared, sessions, bounds, history>>

-----------------------------------------------------------------------------
(* The end of a job, and a failed one from the start *)

\* OnJobFinish saves the result and puts it up for approval, unless the artifact
\* or the state cannot be stored.
SaveResult ==
  /\ call.pc = "save"
  /\ outcome' \in {"ready"} \cup (IF "db" \in Faults THEN {"running"} ELSE {})
  /\ call' = NoCall
  /\ UNCHANGED <<git, hub, fetched, proc, phase, known, prepared, sessions, bounds, history>>

\* OnJobFinish stores the failure and closes the sessions, or cannot store it and
\* leaves them.  What was done to the worktree stays, and so does the merge.
CloseAfterFailure ==
  /\ call.pc = "close"
  /\ \/ outcome' = "failed" /\ held' = {} /\ alive' = {}
     \/ "db" \in Faults /\ UNCHANGED <<outcome, sessions>>
  /\ call' = NoCall
  /\ UNCHANGED <<git, hub, fetched, proc, phase, known, prepared, bounds, history>>

Again == call' = [NoCall EXCEPT !.op = IF phase = "fix" THEN "run" ELSE "conflict", !.pc = "start"]

\* Reset, and then the job.  An engine that knows no worktree resets none.
Reset ==
  /\ proc = "on" /\ Free /\ outcome = "failed" /\ phase # "review"
  /\ held' = {} /\ alive' = {} /\ prepared' = FALSE
  /\ IF known
     THEN /\ worktree
          /\ tree' = origin /\ head' = origin /\ merging' = FALSE /\ conflict' = "none"
     ELSE UNCHANGED <<tree, head, merging, conflict>>
  /\ outcome' = "running" /\ Again
  /\ UNCHANGED <<worktree, hub, fetched, proc, phase, known, bounds, history>>

\* It fails at once, after git merge --abort, or at git clean, which leaves the
\* files that are new.
ResetFails ==
  /\ proc # "off" /\ Free /\ outcome = "failed" /\ phase # "review" /\ known
  /\ CanFail("git") \/ ~worktree
  /\ held' = {} /\ alive' = {} /\ prepared' = FALSE
  /\ \/ UNCHANGED <<tree, head, merging, conflict>>
     \/ /\ worktree /\ merging
        /\ merging' = FALSE /\ conflict' = "none" /\ tree' = head /\ UNCHANGED head
     \/ /\ worktree
        /\ merging' = FALSE /\ conflict' = "none" /\ head' = origin
        /\ tree' = origin \cup (tree \ head)
  /\ UNCHANGED <<worktree, hub, fetched, proc, stored, known, call, bounds, history>>

-----------------------------------------------------------------------------
(* Publish and PublishConflict, when a result is approved *)

Publish ==
  /\ proc = "on" /\ Free /\ outcome = "ready" /\ known
  /\ phase = "conflict" => prepared
  /\ call' = [NoCall EXCEPT !.op = IF phase = "fix" THEN "publish" ELSE "publishConflict", !.pc = "commit"]
  /\ UNCHANGED <<git, hub, fetched, proc, stored, known, prepared, sessions, bounds, history>>

\* Whatever the files hold is added and committed, and a merge with it.  The index
\* of a conflict is checked first: by then every file counts as resolved, and only
\* markers that are not yet committed are found.
Commit ==
  /\ call.pc = "commit" /\ worktree /\ proc = "on"
  /\ call.op = "publishConflict" => ~(merging /\ conflict = "markers")
  /\ head' = tree /\ merging' = FALSE
  /\ Goto(IF call.op = "publish" THEN "push" ELSE "ancestor")
  /\ UNCHANGED <<worktree, tree, conflict, hub, fetched, proc, stored, known, prepared, sessions, bounds,
                 history>>

\* Mutant: whether the merge was given up is not looked at.
BaseIsIntegratedAnyway ==
  /\ call.pc = "ancestor" /\ worktree /\ proc = "on"
  /\ Goto("push")
  /\ UNCHANGED <<git, hub, fetched, proc, stored, known, prepared, sessions, bounds, history>>

\* The base branch, as fetched last, must be in what is pushed.
BaseIsIntegrated ==
  /\ call.pc = "ancestor" /\ worktree /\ proc = "on"
  /\ fetched \subseteq head
  /\ Goto("push")
  /\ UNCHANGED <<git, hub, fetched, proc, stored, known, prepared, sessions, bounds, history>>

\* Mutant: the head is pushed with --force.
PushByForce ==
  /\ call.pc = "push" /\ worktree /\ proc = "on"
  /\ origin' = head
  /\ Goto("record")
  /\ UNCHANGED <<git, base, fetched, proc, stored, known, prepared, sessions, bounds, history>>

\* Origin refuses a head that does not contain what is there; nothing is rebased.
Push ==
  /\ call.pc = "push" /\ worktree /\ proc = "on"
  /\ origin \subseteq head
  /\ origin' = head
  /\ Goto("record")
  /\ UNCHANGED <<git, base, fetched, proc, stored, known, prepared, sessions, bounds, history>>

\* ApproveFix and ApproveConflict comment on the pull request and store the state;
\* the controller closes the engine.
Record ==
  /\ call.pc = "record"
  /\ outcome' = "published" /\ held' = {} /\ alive' = {}
  /\ call' = NoCall
  /\ UNCHANGED <<git, hub, fetched, proc, phase, known, prepared, bounds, history>>

\* Why an approval cannot go on.
CannotPublish ==
  \/ call.op \in {"publish", "publishConflict"} /\ call.pc # "record" /\ (CanFail("git") \/ ~worktree)
  \/ At("publishConflict", "commit") /\ merging /\ conflict = "markers"
  \/ call.pc = "ancestor" /\ ~(fetched \subseteq head)
  \/ call.pc = "push" /\ ~(origin \subseteq head)
  \/ call.pc = "record" /\ (CanFail("gh") \/ "db" \in Faults)

\* Mutant: a push that fails is overlooked.
FailedPushIsIgnored ==
  /\ CannotPublish
  /\ call' = IF call.pc = "push" THEN [call EXCEPT !.pc = "record"] ELSE NoCall
  /\ UNCHANGED <<git, hub, fetched, proc, stored, known, prepared, sessions, bounds, history>>

\* The result stays up for approval.  A push may have arrived all the same.
PublishFails ==
  /\ CannotPublish
  /\ \/ UNCHANGED origin
     \/ call.pc = "push" /\ CanFail("git") /\ worktree /\ origin \subseteq head /\ origin' = head
  /\ call' = NoCall
  /\ UNCHANGED <<git, base, fetched, proc, stored, known, prepared, sessions, bounds, history>>

-----------------------------------------------------------------------------
(* The selections, the agents, and others *)

\* The pull request is selected.  The state that is stored, a conflict GitHub
\* reports, or pr set-status in another process decide the phase; a failed job is
\* loaded as failed.
Select ==
  /\ proc = "off" /\ selections < MaxSelection
  /\ proc' = "on" /\ selections' = selections + 1
  /\ phase' \in Phases
  /\ outcome' = IF outcome = "failed" /\ phase' = phase THEN "failed" ELSE "none"
  /\ phase' = "conflict" /\ outcome' = "none" => ~(base \subseteq origin)
  /\ UNCHANGED <<git, hub, fetched, known, prepared, sessions, call, turns, history>>

\* The context is done: the agents are killed, and every command fails.
Cancel ==
  /\ proc = "on"
  /\ proc' = "cancelled" /\ alive' = {}
  /\ UNCHANGED <<git, hub, fetched, stored, known, prepared, held, call, bounds, history>>

Leave ==
  /\ proc' = "off" /\ known' = FALSE /\ prepared' = FALSE /\ held' = {} /\ alive' = {}
  /\ call' = NoCall
  /\ UNCHANGED <<git, hub, fetched, stored, bounds, history>>

\* The deferred Close, once no call holds the lock.
Exit == proc # "off" /\ Free /\ Leave

Crash == "crash" \in Faults /\ proc # "off" /\ Leave

AgentDies ==
  /\ "session" \in Faults
  /\ \E agent \in alive : alive' = alive \ {agent}
  /\ UNCHANGED <<git, hub, fetched, proc, stored, known, prepared, held, call, bounds, history>>

TheyPush ==
  /\ "push" \in Others
  /\ origin' = origin \cup {Theirs}
  /\ UNCHANGED <<git, base, fetched, proc, stored, known, prepared, sessions, call, bounds, history>>

TheyMerge ==
  /\ "base" \in Others
  /\ base' = {Base}
  /\ UNCHANGED <<git, origin, fetched, proc, stored, known, prepared, sessions, call, bounds, history>>

\* The operator removes the worktree to have it made again.
TheyRemove ==
  /\ "remove" \in Others /\ worktree /\ Free
  /\ worktree' = FALSE
  /\ UNCHANGED <<tree, head, merging, conflict, hub, fetched, proc, stored, known, prepared, sessions, call,
                 bounds, history>>

-----------------------------------------------------------------------------
JobStep ==
  \/ SessionsHeld \/ EnsureWorktree \/ StartImplementer \/ StartVerifier \/ StartFails
  \/ Implement \/ ImplementFails \/ Passed \/ ChangesRequested \/ VerifyFails
  \/ EnsureConflictStarted \/ PrepareMerge \/ ConflictTurn \/ ConflictTurnFails
  \/ SaveResult \/ CloseAfterFailure

PublishStep == Commit \/ BaseIsIntegrated \/ Push \/ Record \/ PublishFails

Controller == PrepareReview \/ Run \/ RunConflict \/ Reset \/ ResetFails \/ Publish
Life == Select \/ Cancel \/ Exit \/ Crash
Environment == AgentDies \/ TheyPush \/ TheyMerge \/ TheyRemove

Next == JobStep \/ PublishStep \/ Controller \/ Life \/ Environment

Spec == Init /\ [][Next]_vars

-----------------------------------------------------------------------------
(* Properties *)

\* A fix is a verified loop: a result is put up as the verifier passed it, and the
\* implementer is never asked more than Limit times.
Stage ==
  CASE At("run", "implement") -> "implementing"
    [] At("run", "verify") -> "verifying"
    [] At("run", "save") \/ (phase = "fix" /\ outcome = "ready" /\ call.op # "run") -> "passed"
    [] At("run", "close") \/ (phase = "fix" /\ outcome = "failed" /\ Free) -> "failed"
    [] OTHER -> "idle"

Loop == INSTANCE VerifiedLoop
          WITH Works <- SUBSET Changes, stage <- Stage, work <- tree,
               attempt <- IF At("run", "implement") \/ At("run", "verify") THEN call.attempt ELSE 0
LoopSpec == Loop!Spec

\* Nothing of ours gets to the pull request that was not put up for approval,
\* whatever an earlier job, phase or process has left in the worktree.
OnlyReviewedIsPushed == origin \subseteq reviewed.all \cup {Theirs}

\* A job only becomes done when the head branch has all that was put up last.
PublishedHoldsReviewed ==
  [][outcome # "published" /\ outcome' = "published" => reviewed.last \subseteq origin]_vars

\* A conflict only becomes resolved when the head branch has the base branch as it
\* was fetched: an agent that gives up the merge cannot make it look resolved.
ResolvedHoldsBase == phase = "conflict" /\ outcome = "published" => fetched \subseteq origin

\* What others push to the head branch is kept, whenever they do it.
TheirsIsKept == [][(Theirs \in origin) => (Theirs \in origin')]_vars

\* An approval of a conflict pushes no unresolved file.
UnresolvedIsNotPushed == [][call.op = "publishConflict" /\ origin' # origin => conflict = "none"]_vars
=============================================================================
