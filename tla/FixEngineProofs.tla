----------------------------- MODULE FixEngineProofs -----------------------------
(***************************************************************************)
(* Proofs about the engine of a pull request, for every loop count, all    *)
(* faults, whatever others do, and any number of turns and selections.     *)
(***************************************************************************)
EXTENDS FixEngine, TLAPS

RunAt == {"start", "implementer", "verifier", "implement", "verify", "save", "close"}
ConflictAt == {"start", "merge", "implementer", "resolve", "save", "close"}

\* A call is of the phase, at a place of its operation, with the outcome it was begun with.
CallInv ==
  /\ call.op = "none" => call = NoCall
  /\ call.op = "run" => outcome = "running" /\ phase = "fix" /\ call.pc \in RunAt
  /\ call.op = "conflict" => outcome = "running" /\ phase = "conflict" /\ call.pc \in ConflictAt
  /\ call.op = "publish" => outcome = "ready" /\ phase = "fix" /\ call.pc \in {"commit", "push", "record"}
  /\ call.op = "publishConflict" => outcome = "ready" /\ phase = "conflict" /\ call.pc \in PublishPlaces
  /\ outcome \in {"ready", "failed"} => phase # "review"
  /\ proc = "off" => call = NoCall

\* The files are as they were put up until they are published, and an approval takes
\* them from there to the commit and to origin.
ReviewedInv ==
  /\ reviewed.last \subseteq reviewed.all
  /\ origin \subseteq reviewed.all \cup {Theirs}
  /\ outcome = "ready" \/ call.pc = "save" => tree = reviewed.last
  /\ call.pc \in {"ancestor", "push"} => head = tree
  /\ call.pc = "record" => reviewed.last \subseteq origin

\* On the way of a conflict, so is the base branch.
BaseInv ==
  /\ At("publishConflict", "push") => fetched \subseteq head
  /\ At("publishConflict", "record") => fetched \subseteq origin
  /\ ResolvedHoldsBase

IInv == TypeOK /\ CallInv /\ ReviewedInv /\ BaseInv
-----------------------------------------------------------------------------
(* Types *)

LEMMA LimitType == Limit \in Nat /\ Limit >= 1
BY FixEngineAssumption DEF Limit

LEMMA NoCallType == NoCall \in Call
BY LimitType DEF NoCall, Call

LEMMA CallType ==
  ASSUME NEW op \in {"run", "conflict", "publish", "publishConflict"}, NEW pc \in RunPlaces \cup PublishPlaces,
         NEW attempt \in 0 .. Limit
  PROVE  [op |-> op, pc |-> pc, attempt |-> attempt] \in Call
BY DEF Call

LEMMA GotoFacts ==
  ASSUME TypeOK, NEW pc \in RunPlaces \cup PublishPlaces, Goto(pc)
  PROVE  call' \in Call /\ call'.op = call.op /\ call'.pc = pc /\ call'.attempt = call.attempt
BY DEF Goto, TypeOK, Call

LEMMA BeginFacts ==
  ASSUME NEW op \in {"run", "conflict", "publish", "publishConflict"}, NEW pc \in RunPlaces \cup PublishPlaces,
         call' = [NoCall EXCEPT !.op = op, !.pc = pc]
  PROVE  call' \in Call /\ call'.op = op /\ call'.pc = pc /\ call'.attempt = 0
<1>1. call' = [op |-> op, pc |-> pc, attempt |-> 0]
  BY DEF NoCall
<1>2. 0 \in 0 .. Limit
  BY LimitType
<1>3. [op |-> op, pc |-> pc, attempt |-> 0] \in Call
  BY <1>2, CallType
<1>4. call'.op = op /\ call'.pc = pc /\ call'.attempt = 0
  BY <1>1 DEF NoCall
<1>5. call' \in Call
  BY <1>1, <1>3
<1> QED
  BY <1>4, <1>5

LEMMA AttemptFacts ==
  ASSUME TypeOK, call.op = "run", NEW attempt \in 0 .. Limit,
         call' = [call EXCEPT !.pc = "implement", !.attempt = attempt]
  PROVE  call' \in Call /\ call'.op = "run" /\ call'.pc = "implement" /\ call'.attempt = attempt
<1>1. call' = [op |-> "run", pc |-> "implement", attempt |-> attempt]
  BY DEF TypeOK, Call
<1> QED
  BY <1>1, CallType DEF RunPlaces

LEMMA FirstAttempt ==
  ASSUME TypeOK, call.op = "run", call' = [call EXCEPT !.pc = "implement", !.attempt = 1]
  PROVE  call' \in Call /\ call'.op = "run" /\ call'.pc = "implement" /\ call'.attempt = 1
<1>1. 1 \in 0 .. Limit
  BY LimitType
<1> QED
  BY <1>1, AttemptFacts

LEMMA AgainFacts ==
  ASSUME Again
  PROVE  call' \in Call /\ call'.op = (IF phase = "fix" THEN "run" ELSE "conflict") /\ call'.pc = "start"
<1>1. "start" \in RunPlaces \cup PublishPlaces
  BY DEF RunPlaces
<1> DEFINE op == IF phase = "fix" THEN "run" ELSE "conflict"
<1>2. op \in {"run", "conflict", "publish", "publishConflict"} /\ call' = [NoCall EXCEPT !.op = op, !.pc = "start"]
  BY DEF Again
<1> HIDE DEF op
<1>3. call' \in Call /\ call'.op = op /\ call'.pc = "start"
  BY <1>1, <1>2, BeginFacts
<1> QED
  BY <1>3 DEF op

LEMMA PublishFacts ==
  ASSUME Publish
  PROVE  /\ call' \in Call /\ call'.op = (IF phase = "fix" THEN "publish" ELSE "publishConflict")
         /\ call'.pc = "commit"
<1>1. "commit" \in RunPlaces \cup PublishPlaces
  BY DEF PublishPlaces
<1> DEFINE op == IF phase = "fix" THEN "publish" ELSE "publishConflict"
<1>2. op \in {"run", "conflict", "publish", "publishConflict"} /\ call' = [NoCall EXCEPT !.op = op, !.pc = "commit"]
  BY DEF Publish
<1> HIDE DEF op
<1>3. call' \in Call /\ call'.op = op /\ call'.pc = "commit"
  BY <1>1, <1>2, BeginFacts
<1> QED
  BY <1>3 DEF op

LEMMA ChangesRequestedFacts ==
  ASSUME TypeOK, ChangesRequested
  PROVE  /\ call.op = "run" /\ call.pc = "verify" /\ call' \in Call /\ call'.op = "run"
         /\ \/ call.attempt < Limit /\ call'.pc = "implement" /\ call'.attempt = call.attempt + 1
            \/ call'.pc = "close"
<1>1. call.op = "run" /\ call.pc = "verify" /\ call.attempt \in 0 .. Limit
  BY DEF ChangesRequested, At, TypeOK, Call
<1>2. CASE call.attempt < Limit
  <2>1. call.attempt + 1 \in 0 .. Limit
    BY <1>1, <1>2, LimitType
  <2>2. call' = [call EXCEPT !.pc = "implement", !.attempt = call.attempt + 1]
    BY <1>2 DEF ChangesRequested
  <2> QED
    BY <1>1, <1>2, <2>1, <2>2, AttemptFacts
<1>3. CASE ~(call.attempt < Limit)
  <2>1. call' = [op |-> "run", pc |-> "close", attempt |-> call.attempt]
    BY <1>1, <1>3 DEF ChangesRequested, TypeOK, Call
  <2> QED
    BY <1>1, <2>1, CallType DEF RunPlaces
<1> QED
  BY <1>2, <1>3

LEMMA BaseType == Base \in Changes /\ Theirs \in Changes
BY FixEngineAssumption DEF Base, Theirs, Changes

\* What is made of the git state.
GitOK ==
  /\ worktree \in BOOLEAN /\ tree \subseteq Changes /\ head \subseteq Changes /\ merging \in BOOLEAN
  /\ conflict \in {"none", "markers", "plain"} /\ fetched \subseteq {Base}

LEMMA UpdateType == TypeOK /\ UpdateWorktree => GitOK'
BY DEF UpdateWorktree, TypeOK, GitOK

LEMMA EditType ==
  ASSUME TypeOK, Edit
  PROVE  tree' \subseteq Changes /\ turns' \in 0 .. MaxTurn
<1>1. CASE turns < MaxTurn /\ turns' = turns + 1 /\ tree' = tree \cup {turns + 1}
  <2>1. turns' \in 0 .. MaxTurn /\ turns + 1 \in Changes
    BY <1>1, FixEngineAssumption DEF TypeOK, Changes, Base
  <2> QED
    BY <1>1, <2>1 DEF TypeOK
<1>2. CASE UNCHANGED <<turns, tree>>
  BY <1>2 DEF TypeOK
<1> QED
  BY <1>1, <1>2 DEF Edit

LEMMA PutUpFacts ==
  ASSUME TypeOK, NEW work \in SUBSET Changes, PutUp(work)
  PROVE  reviewed' \in Reviewed /\ reviewed'.last = work /\ reviewed'.all = reviewed.all \cup work
BY DEF PutUp, TypeOK, Reviewed

LEMMA ReviewedType == TypeOK => reviewed.last \subseteq Changes /\ reviewed.all \subseteq Changes
BY DEF TypeOK, Reviewed

LEMMA InitInv == Init => IInv
<1> SUFFICES ASSUME Init PROVE IInv
  OBVIOUS
<1>1. TypeOK
  <2>1. /\ worktree \in BOOLEAN /\ merging \in BOOLEAN /\ known \in BOOLEAN /\ prepared \in BOOLEAN
        /\ tree \subseteq Changes /\ head \subseteq Changes /\ origin \subseteq Changes
        /\ base \subseteq {Base} /\ fetched \subseteq {Base} /\ held \subseteq Agents /\ alive \subseteq Agents
        /\ accepted \subseteq SUBSET Changes
    BY DEF Init
  <2>2. /\ conflict \in {"none", "markers", "plain"} /\ proc \in {"off", "on", "cancelled"} /\ phase \in Phases
        /\ outcome \in {"none", "running", "ready", "failed", "published"}
    BY DEF Init, Phases
  <2>3. turns \in 0 .. MaxTurn /\ selections \in 0 .. MaxSelection /\ call \in Call /\ reviewed \in Reviewed
    BY NoCallType, FixEngineAssumption DEF Init, Reviewed
  <2> QED
    BY <2>1, <2>2, <2>3 DEF TypeOK
<1>2. CallInv
  BY DEF Init, CallInv, NoCall
<1>3. ReviewedInv /\ BaseInv
  BY DEF Init, ReviewedInv, BaseInv, ResolvedHoldsBase, NoCall, At
<1> QED
  BY <1>1, <1>2, <1>3 DEF IInv

-----------------------------------------------------------------------------
(* Each action preserves the type invariant *)

LEMMA JobStepType ==
  ASSUME TypeOK, JobStep
  PROVE  TypeOK'
<1> USE DEF git, hub, stored, sessions, bounds, history, RunPlaces
<1>1. CASE SessionsHeld
  <2>1. call' \in Call
    <3>1. CASE call.op = "run"
      BY <1>1, <3>1, FirstAttempt DEF SessionsHeld
    <3> QED
      BY <1>1, <3>1 DEF SessionsHeld, At
  <2> QED
    BY <1>1, <2>1 DEF SessionsHeld, TypeOK
<1>2. CASE EnsureWorktree
  BY <1>2, GotoFacts, UpdateType DEF EnsureWorktree, TypeOK, GitOK
<1>3. CASE StartImplementer
  <2>1. call' \in Call /\ held' \subseteq Agents /\ alive' \subseteq Agents
    BY <1>3, GotoFacts DEF StartImplementer, TypeOK, Agents
  <2> QED
    BY <1>3, <2>1 DEF StartImplementer, TypeOK
<1>4. CASE StartVerifier
  <2>1. call' \in Call
    BY <1>4, FirstAttempt DEF StartVerifier, At
  <2> QED
    BY <1>4, <2>1 DEF StartVerifier, TypeOK, Agents
<1>5. CASE StartFails
  <2>1. call' \in Call /\ fetched' \subseteq {Base} /\ alive' \subseteq Agents
    BY <1>5, GotoFacts DEF StartFails, TypeOK
  <2> QED
    BY <1>5, <2>1 DEF StartFails, TypeOK
<1>6. CASE Implement
  BY <1>6, GotoFacts, EditType DEF Implement, TypeOK
<1>7. CASE ImplementFails
  BY <1>7, GotoFacts, EditType DEF ImplementFails, TypeOK
<1>8. CASE Passed
  <2>1. call' \in Call /\ reviewed' \in Reviewed /\ accepted' \subseteq SUBSET Changes
    BY <1>8, GotoFacts, PutUpFacts DEF Passed, TypeOK
  <2> QED
    BY <1>8, <2>1 DEF Passed, TypeOK
<1>9. CASE ChangesRequested
  BY <1>9, ChangesRequestedFacts DEF ChangesRequested, TypeOK
<1>10. CASE VerifyFails
  BY <1>10, GotoFacts DEF VerifyFails, TypeOK
<1>11. CASE EnsureConflictStarted
  <2>1. GitOK' /\ known' \in BOOLEAN
    BY <1>11, UpdateType DEF EnsureConflictStarted, TypeOK, GitOK
  <2>2. call' \in Call
    BY <1>11, GotoFacts DEF EnsureConflictStarted
  <2> QED
    BY <1>11, <2>1, <2>2 DEF EnsureConflictStarted, TypeOK, GitOK
<1>12. CASE PrepareMerge
  <2>1. GitOK'
    BY <1>12, BaseType DEF PrepareMerge, TypeOK, GitOK
  <2>2. call' \in Call
    BY <1>12, GotoFacts DEF PrepareMerge
  <2> QED
    BY <1>12, <2>1, <2>2 DEF PrepareMerge, TypeOK, GitOK
<1>13. CASE ConflictTurn
  <2>1. tree' \subseteq Changes /\ turns' \in 0 .. MaxTurn /\ UNCHANGED worktree
    BY <1>13, EditType DEF ConflictTurn, Resolve, GiveUpMerge, TypeOK
  <2>2. head' \subseteq Changes /\ merging' \in BOOLEAN /\ conflict' \in {"none", "markers", "plain"}
    BY <1>13, <2>1 DEF ConflictTurn, Resolve, GiveUpMerge, TypeOK
  <2>3. call' \in Call /\ reviewed' \in Reviewed
    BY <1>13, <2>1, GotoFacts, PutUpFacts DEF ConflictTurn, TypeOK
  <2> QED
    BY <1>13, <2>1, <2>2, <2>3 DEF ConflictTurn, TypeOK
<1>14. CASE ConflictTurnFails
  BY <1>14, GotoFacts DEF ConflictTurnFails, TypeOK
<1>15. CASE SaveResult
  BY <1>15, NoCallType DEF SaveResult, TypeOK
<1>16. CASE CloseAfterFailure
  BY <1>16, NoCallType DEF CloseAfterFailure, TypeOK
<1> QED
  BY <1>1, <1>2, <1>3, <1>4, <1>5, <1>6, <1>7, <1>8, <1>9, <1>10, <1>11, <1>12, <1>13, <1>14, <1>15, <1>16
  DEF JobStep

LEMMA PublishStepType ==
  ASSUME TypeOK, PublishStep
  PROVE  TypeOK'
<1> USE DEF git, hub, stored, sessions, bounds, history, PublishPlaces
<1>1. CASE Commit
  BY <1>1, GotoFacts DEF Commit, TypeOK
<1>2. CASE BaseIsIntegrated
  BY <1>2, GotoFacts DEF BaseIsIntegrated, TypeOK
<1>3. CASE Push
  BY <1>3, GotoFacts DEF Push, TypeOK
<1>4. CASE Record
  BY <1>4, NoCallType DEF Record, TypeOK
<1>5. CASE PublishFails
  <2>1. origin' \subseteq Changes
    BY <1>5 DEF PublishFails, TypeOK
  <2> QED
    BY <1>5, <2>1, NoCallType DEF PublishFails, TypeOK
<1> QED
  BY <1>1, <1>2, <1>3, <1>4, <1>5 DEF PublishStep

LEMMA ControllerType ==
  ASSUME TypeOK, Controller
  PROVE  TypeOK'
<1> USE DEF git, hub, stored, sessions, bounds, history
<1>1. CASE PrepareReview
  BY <1>1, UpdateType DEF PrepareReview, TypeOK, GitOK
<1>2. CASE Run
  BY <1>2, BeginFacts DEF Run, TypeOK, RunPlaces
<1>3. CASE RunConflict
  BY <1>3, BeginFacts DEF RunConflict, TypeOK, RunPlaces
<1>4. CASE Reset
  <2>1. tree' \subseteq Changes /\ head' \subseteq Changes /\ merging' \in BOOLEAN /\ conflict' \in {"none", "markers", "plain"}
    BY <1>4 DEF Reset, TypeOK
  <2> QED
    BY <1>4, <2>1, AgainFacts DEF Reset, TypeOK
<1>5. CASE ResetFails
  <2>1. tree' \subseteq Changes /\ head' \subseteq Changes /\ merging' \in BOOLEAN /\ conflict' \in {"none", "markers", "plain"}
    BY <1>5 DEF ResetFails, TypeOK
  <2> QED
    BY <1>5, <2>1 DEF ResetFails, TypeOK
<1>6. CASE Publish
  BY <1>6, PublishFacts DEF Publish, TypeOK
<1> QED
  BY <1>1, <1>2, <1>3, <1>4, <1>5, <1>6 DEF Controller

LEMMA LifeType ==
  ASSUME TypeOK, Life
  PROVE  TypeOK'
<1> USE DEF git, hub, stored, sessions, bounds, history
<1>1. CASE Select
  BY <1>1, FixEngineAssumption DEF Select, TypeOK
<1>2. CASE Cancel
  BY <1>2 DEF Cancel, TypeOK
<1>3. CASE Leave
  BY <1>3, NoCallType DEF Leave, TypeOK
<1> QED
  BY <1>1, <1>2, <1>3 DEF Life, Exit, Crash

LEMMA EnvironmentType ==
  ASSUME TypeOK, Environment
  PROVE  TypeOK'
<1> USE DEF git, hub, stored, sessions, bounds, history
<1>1. CASE AgentDies
  BY <1>1 DEF AgentDies, TypeOK
<1>2. CASE TheyPush
  BY <1>2, BaseType DEF TheyPush, TypeOK
<1>3. CASE TheyMerge
  BY <1>3 DEF TheyMerge, TypeOK
<1>4. CASE TheyRemove
  BY <1>4 DEF TheyRemove, TypeOK
<1> QED
  BY <1>1, <1>2, <1>3, <1>4 DEF Environment

LEMMA NextType == TypeOK /\ [Next]_vars => TypeOK'
<1> SUFFICES ASSUME TypeOK, [Next]_vars PROVE TypeOK'
  OBVIOUS
<1>1. CASE UNCHANGED vars
  BY <1>1 DEF vars, git, hub, stored, sessions, bounds, history, TypeOK
<1> QED
  BY <1>1, JobStepType, PublishStepType, ControllerType, LifeType, EnvironmentType DEF Next

-----------------------------------------------------------------------------
(* Each action preserves the place of the call *)

LEMMA NextCall == TypeOK /\ CallInv /\ [Next]_vars => CallInv'
<1> SUFFICES ASSUME TypeOK, CallInv, [Next]_vars PROVE CallInv'
  OBVIOUS
<1> USE DEF stored
\* A job goes on.
<1>1. ASSUME call.op = "run", call'.op = "run", call'.pc \in RunAt, UNCHANGED <<stored, proc>> PROVE CallInv'
  BY <1>1 DEF CallInv, NoCall
<1>2. ASSUME call.op = "conflict", call'.op = "conflict", call'.pc \in ConflictAt, UNCHANGED <<stored, proc>>
      PROVE  CallInv'
  BY <1>2 DEF CallInv, NoCall
<1>3. CASE SessionsHeld \/ StartVerifier
  <2>1. call.op = "run" /\ call'.op = "run" /\ call'.pc = "implement"
    BY <1>3, FirstAttempt DEF SessionsHeld, StartVerifier, At
  <2> QED
    BY <1>1, <1>3, <2>1 DEF SessionsHeld, StartVerifier, RunAt
<1>4. CASE EnsureWorktree \/ Implement \/ ImplementFails \/ Passed \/ VerifyFails
  <2>1. call.op = "run" /\ call'.op = "run" /\ call'.pc \in RunAt
    BY <1>4, GotoFacts DEF EnsureWorktree, Implement, ImplementFails, Passed, VerifyFails, At, RunPlaces, RunAt
  <2> QED
    BY <1>1, <1>4, <2>1 DEF EnsureWorktree, Implement, ImplementFails, Passed, VerifyFails
<1>5. CASE ChangesRequested
  BY <1>1, <1>5, ChangesRequestedFacts DEF ChangesRequested, RunAt
<1>6. CASE EnsureConflictStarted \/ PrepareMerge \/ ConflictTurn \/ ConflictTurnFails
  <2>1. call.op = "conflict" /\ call'.op = "conflict" /\ call'.pc \in ConflictAt
    BY <1>6, GotoFacts
    DEF EnsureConflictStarted, PrepareMerge, ConflictTurn, ConflictTurnFails, At, RunPlaces, ConflictAt
  <2> QED
    BY <1>2, <1>6, <2>1 DEF EnsureConflictStarted, PrepareMerge, ConflictTurn, ConflictTurnFails
<1>7. CASE StartImplementer
  <2>1. CASE call.op = "run"
    <3>1. call'.op = "run" /\ call'.pc \in RunAt
      BY <1>7, <2>1, GotoFacts DEF StartImplementer, RunPlaces, RunAt
    <3> QED
      BY <1>1, <1>7, <2>1, <3>1 DEF StartImplementer
  <2>2. CASE call.op = "conflict"
    <3>1. call'.op = "conflict" /\ call'.pc \in ConflictAt
      BY <1>7, <2>2, GotoFacts DEF StartImplementer, RunPlaces, ConflictAt
    <3> QED
      BY <1>2, <1>7, <2>2, <3>1 DEF StartImplementer
  <2> QED
    BY <1>7, <2>1, <2>2 DEF StartImplementer
<1>8. CASE StartFails
  <2>1. call.op \in {"run", "conflict"}
    <3>1. call.op # "none" /\ call.pc \in {"start", "merge", "implementer", "verifier", "resolve"}
      BY <1>8 DEF StartFails, CannotStart, At, CallInv, NoCall
    <3> QED
      BY <3>1 DEF CallInv, TypeOK, Call, PublishPlaces
  <2>2. call'.op = call.op /\ call'.pc = "close"
    BY <1>8, GotoFacts DEF StartFails, RunPlaces
  <2> QED
    BY <1>1, <1>2, <1>8, <2>1, <2>2 DEF StartFails, RunAt, ConflictAt
<1>9. CASE SaveResult \/ CloseAfterFailure
  <2>1. call.op \in {"run", "conflict"}
    <3>1. call.op # "none" /\ call.pc \in {"save", "close"}
      BY <1>9 DEF SaveResult, CloseAfterFailure, CallInv, NoCall
    <3> QED
      BY <3>1 DEF CallInv, TypeOK, Call, PublishPlaces
  <2>2. call' = NoCall /\ phase' = phase
    BY <1>9 DEF SaveResult, CloseAfterFailure
  <2> QED
    BY <2>1, <2>2 DEF CallInv, NoCall
<1>10. CASE Commit \/ BaseIsIntegrated \/ Push
  <2>1. call.op \in {"publish", "publishConflict"}
    <3>1. call.op # "none" /\ call.pc \in {"commit", "ancestor", "push"}
      BY <1>10 DEF Commit, BaseIsIntegrated, Push, CallInv, NoCall
    <3> QED
      BY <3>1 DEF CallInv, TypeOK, Call, RunAt, ConflictAt
  <2>2. call'.op = call.op /\ call'.pc \in PublishPlaces /\ (call.op = "publish" => call'.pc # "ancestor")
    BY <1>10, <2>1, GotoFacts DEF Commit, BaseIsIntegrated, Push, CallInv, PublishPlaces
  <2>3. UNCHANGED <<stored, proc>>
    BY <1>10 DEF Commit, BaseIsIntegrated, Push
  <2> QED
    BY <2>1, <2>2, <2>3 DEF CallInv, PublishPlaces, NoCall
<1>11. CASE Record \/ PublishFails
  BY <1>11 DEF Record, PublishFails, CallInv, NoCall
<1>12. CASE PrepareReview
  BY <1>12 DEF PrepareReview, Free, CallInv, NoCall
<1>13. CASE Run
  <2>1. call'.op = "run" /\ call'.pc = "start"
    BY <1>13, BeginFacts DEF Run, RunPlaces
  <2> QED
    BY <1>13, <2>1 DEF Run, MayRun, CallInv, RunAt
<1>14. CASE RunConflict
  <2>1. call'.op = "conflict" /\ call'.pc = "start"
    BY <1>14, BeginFacts DEF RunConflict, RunPlaces
  <2> QED
    BY <1>14, <2>1 DEF RunConflict, MayRun, CallInv, ConflictAt
<1>15. CASE Reset
  <2>1. call'.op = (IF phase = "fix" THEN "run" ELSE "conflict") /\ call'.pc = "start"
    BY <1>15, AgainFacts DEF Reset
  <2> QED
    BY <1>15, <2>1 DEF Reset, CallInv, RunAt, ConflictAt, TypeOK, Phases
<1>16. CASE Publish
  <2>1. call'.op = (IF phase = "fix" THEN "publish" ELSE "publishConflict") /\ call'.pc = "commit"
    BY <1>16, PublishFacts
  <2> QED
    BY <1>16, <2>1 DEF Publish, CallInv, PublishPlaces, TypeOK, Phases
<1>17. CASE Select
  <2>1. call' = NoCall
    BY <1>17 DEF Select, CallInv
  <2>2. outcome' \in {"none", "failed"} /\ (outcome' = "failed" => outcome = "failed" /\ phase' = phase)
    BY <1>17 DEF Select
  <2> QED
    BY <1>17, <2>1, <2>2 DEF Select, CallInv, NoCall
<1>18. CASE Leave
  BY <1>18 DEF Leave, CallInv, NoCall
<1>19. CASE ResetFails \/ Cancel \/ Environment \/ UNCHANGED vars
  <2>1. UNCHANGED <<call, stored>> /\ (proc' = proc \/ proc' = "cancelled")
    BY <1>19 DEF ResetFails, Cancel, Environment, AgentDies, TheyPush, TheyMerge, TheyRemove, vars
  <2> QED
    BY <2>1 DEF CallInv
<1> QED
  BY <1>3, <1>4, <1>5, <1>6, <1>7, <1>8, <1>9, <1>10, <1>11, <1>12, <1>13, <1>14, <1>15, <1>16, <1>17, <1>18, <1>19
  DEF Next, JobStep, PublishStep, Controller, Life, Exit, Crash
-----------------------------------------------------------------------------
(* Each action preserves what was put up *)

\* The head branch only grows: origin refuses any other push.
LEMMA OriginGrows == TypeOK /\ [Next]_vars => origin \subseteq origin'
<1> SUFFICES ASSUME TypeOK, [Next]_vars PROVE origin \subseteq origin'
  OBVIOUS
<1>1. CASE Push \/ PublishFails \/ TheyPush
  BY <1>1 DEF Push, PublishFails, TheyPush
<1>2. CASE JobStep
  BY <1>2
  DEF JobStep, SessionsHeld, EnsureWorktree, StartImplementer, StartVerifier, StartFails, Implement, ImplementFails,
      Passed, ChangesRequested, VerifyFails, EnsureConflictStarted, PrepareMerge, ConflictTurn, ConflictTurnFails,
      SaveResult, CloseAfterFailure, hub
<1>3. CASE Commit \/ BaseIsIntegrated \/ Record \/ Controller
  BY <1>3
  DEF Commit, BaseIsIntegrated, Record, Controller, PrepareReview, Run, RunConflict, Reset, ResetFails, Publish, hub
<1>4. CASE Life \/ AgentDies \/ TheyMerge \/ TheyRemove \/ UNCHANGED vars
  BY <1>4 DEF Life, Select, Cancel, Exit, Crash, Leave, AgentDies, TheyMerge, TheyRemove, vars, hub
<1> QED
  BY <1>1, <1>2, <1>3, <1>4 DEF Next, PublishStep, Environment

\* The places of a call at which something is put up or on its way.
OnTheWay == {"save", "ancestor", "push", "record"}

\* The steps of a job before its result, and its end without one.
Working ==
  \/ SessionsHeld \/ EnsureWorktree \/ StartImplementer \/ StartVerifier \/ StartFails
  \/ Implement \/ ImplementFails \/ ChangesRequested \/ VerifyFails
  \/ EnsureConflictStarted \/ PrepareMerge \/ ConflictTurnFails \/ CloseAfterFailure

LEMMA WorkingFacts ==
  ASSUME TypeOK, CallInv, CallInv', Working
  PROVE  /\ UNCHANGED <<origin, reviewed, phase>> /\ call'.pc \notin OnTheWay
         /\ outcome' \in {"running", "failed"}
<1> USE DEF hub, history, stored, RunPlaces, OnTheWay
<1>1. CASE SessionsHeld \/ StartVerifier
  <2>1. call'.op = "run" /\ call'.pc = "implement"
    BY <1>1, FirstAttempt DEF SessionsHeld, StartVerifier, At
  <2> QED
    BY <1>1, <2>1 DEF SessionsHeld, StartVerifier, CallInv
<1>2. CASE EnsureWorktree \/ Implement \/ ImplementFails \/ VerifyFails
  <2>1. call'.op = "run" /\ call'.pc \in {"implementer", "verify", "close"}
    BY <1>2, GotoFacts DEF EnsureWorktree, Implement, ImplementFails, VerifyFails, At
  <2> QED
    BY <1>2, <2>1 DEF EnsureWorktree, Implement, ImplementFails, VerifyFails, CallInv
<1>3. CASE StartImplementer
  <2>1. call'.op \in {"run", "conflict"} /\ call'.pc \in {"verifier", "resolve"}
    BY <1>3, GotoFacts DEF StartImplementer
  <2> QED
    BY <1>3, <2>1 DEF StartImplementer, CallInv
<1>4. CASE StartFails
  <2>1. call.op \in {"run", "conflict"}
    <3>1. call.op # "none" /\ call.pc \in {"start", "merge", "implementer", "verifier", "resolve"}
      BY <1>4 DEF StartFails, CannotStart, At, CallInv, NoCall
    <3> QED
      BY <3>1 DEF CallInv, TypeOK, Call, PublishPlaces
  <2>2. call'.op = call.op /\ call'.pc = "close"
    BY <1>4, GotoFacts DEF StartFails
  <2> QED
    BY <1>4, <2>1, <2>2 DEF StartFails, CallInv
<1>5. CASE ChangesRequested
  <2>1. call'.op = "run" /\ call'.pc \in {"implement", "close"}
    BY <1>5, ChangesRequestedFacts
  <2> QED
    BY <1>5, <2>1 DEF ChangesRequested, CallInv
<1>6. CASE EnsureConflictStarted \/ PrepareMerge \/ ConflictTurnFails
  <2>1. call'.op = "conflict" /\ call'.pc \in {"merge", "implementer", "resolve", "close"}
    BY <1>6, GotoFacts DEF EnsureConflictStarted, PrepareMerge, ConflictTurnFails, At
  <2> QED
    BY <1>6, <2>1 DEF EnsureConflictStarted, PrepareMerge, ConflictTurnFails, CallInv
<1>7. CASE CloseAfterFailure
  <2>1. call.op \in {"run", "conflict"}
    <3>1. call.op # "none" /\ call.pc = "close"
      BY <1>7 DEF CloseAfterFailure, CallInv, NoCall
    <3> QED
      BY <3>1 DEF CallInv, TypeOK, Call, PublishPlaces
  <2> QED
    BY <1>7, <2>1 DEF CloseAfterFailure, CallInv, NoCall
<1> QED
  BY <1>1, <1>2, <1>3, <1>4, <1>5, <1>6, <1>7 DEF Working

\* Between jobs and approvals: a step that puts nothing up and takes nothing to origin.
Quiet ==
  \/ PrepareReview \/ Run \/ RunConflict \/ Reset \/ ResetFails \/ Publish \/ Life
  \/ AgentDies \/ TheyMerge \/ TheyRemove \/ UNCHANGED vars

LEMMA QuietFacts ==
  ASSUME TypeOK, CallInv, Quiet
  PROVE  /\ UNCHANGED <<origin, reviewed>>
         /\ call' = call \/ call'.pc \notin OnTheWay
         /\ (outcome' = "ready" \/ call'.pc \in OnTheWay) => UNCHANGED <<tree, head, outcome>>
         /\ outcome' = "published" => UNCHANGED <<stored, fetched>>
<1> USE DEF git, hub, history, stored, OnTheWay
<1>0. Free => call.pc \notin OnTheWay
  BY DEF Free, NoCall
<1>1. CASE PrepareReview
  BY <1>0, <1>1 DEF PrepareReview
<1>2. CASE Run \/ RunConflict
  <2>1. call'.pc = "start"
    BY <1>2, BeginFacts DEF Run, RunConflict, RunPlaces
  <2> QED
    BY <1>2, <2>1 DEF Run, RunConflict
<1>3. CASE Reset
  BY <1>3, AgainFacts DEF Reset
<1>4. CASE ResetFails
  BY <1>0, <1>4 DEF ResetFails
<1>5. CASE Publish
  <2>1. call'.pc = "commit"
    BY <1>5, PublishFacts
  <2> QED
    BY <1>5, <2>1 DEF Publish
<1>6. CASE Select
  <2>1. call'.pc \notin OnTheWay /\ outcome' \in {"none", "failed"}
    BY <1>6 DEF Select, CallInv, NoCall
  <2> QED
    BY <1>6, <2>1 DEF Select
<1>7. CASE Leave
  <2>1. call'.pc \notin OnTheWay
    BY <1>7 DEF Leave, NoCall
  <2> QED
    BY <1>7, <2>1 DEF Leave
<1>8. CASE Cancel \/ AgentDies \/ TheyMerge \/ TheyRemove \/ UNCHANGED vars
  BY <1>8 DEF Cancel, AgentDies, TheyMerge, TheyRemove, vars
<1> QED
  BY <1>1, <1>2, <1>3, <1>4, <1>5, <1>6, <1>7, <1>8 DEF Quiet, Life, Exit, Crash

LEMMA NextReviewed == TypeOK /\ CallInv /\ CallInv' /\ ReviewedInv /\ [Next]_vars => ReviewedInv'
<1> SUFFICES ASSUME TypeOK, CallInv, CallInv', ReviewedInv, [Next]_vars PROVE ReviewedInv'
  OBVIOUS
<1> USE DEF git, hub, history, stored
<1>0. tree \in SUBSET Changes
  BY DEF TypeOK
<1>1. CASE Working
  BY <1>1, WorkingFacts DEF ReviewedInv, OnTheWay
<1>2. CASE Quiet
  <2>1. UNCHANGED <<origin, reviewed>>
    BY <1>2, QuietFacts
  <2>2. outcome' = "ready" \/ call'.pc = "save" => tree' = reviewed'.last
    BY <1>2, QuietFacts DEF ReviewedInv, OnTheWay
  <2>3. call'.pc \in {"ancestor", "push", "record"} => call' = call /\ UNCHANGED <<head, tree>>
    BY <1>2, QuietFacts DEF OnTheWay
  <2> QED
    BY <2>1, <2>2, <2>3 DEF ReviewedInv
<1>3. CASE Passed
  <2>1. call'.pc = "save" /\ PutUp(tree) /\ UNCHANGED <<tree, origin>>
    BY <1>3, GotoFacts DEF Passed, RunPlaces
  <2> QED
    BY <1>0, <2>1, PutUpFacts DEF ReviewedInv
<1>4. CASE ConflictTurn
  <2>1. tree' \in SUBSET Changes
    BY <1>4, JobStepType DEF JobStep, TypeOK
  <2>2. UNCHANGED origin /\ outcome' = "running"
    BY <1>4 DEF ConflictTurn, At, CallInv
  <2>3. CASE Goto("save") /\ PutUp(tree')
    <3>1. call'.pc = "save"
      BY <2>3, GotoFacts DEF RunPlaces
    <3> QED
      BY <2>1, <2>2, <2>3, <3>1, PutUpFacts DEF ReviewedInv
  <2>4. CASE Goto("close") /\ UNCHANGED reviewed
    <3>1. call'.pc = "close"
      BY <2>4, GotoFacts DEF RunPlaces
    <3> QED
      BY <2>2, <2>4, <3>1 DEF ReviewedInv
  <2> QED
    BY <1>4, <2>3, <2>4 DEF ConflictTurn
<1>5. CASE SaveResult
  BY <1>5 DEF SaveResult, ReviewedInv, NoCall
<1>6. CASE PublishStep
  <2>0. outcome = "ready" /\ tree = reviewed.last
    <3>1. call.op \in {"publish", "publishConflict"}
      <4>1. call.op # "none" /\ (call.op \in {"publish", "publishConflict"} \/ call.pc \in PublishPlaces)
        BY <1>6
        DEF PublishStep, Commit, BaseIsIntegrated, Push, Record, PublishFails, CannotPublish, At, CallInv, NoCall,
            PublishPlaces
      <4> QED
        BY <4>1 DEF CallInv, TypeOK, Call, PublishPlaces, RunAt, ConflictAt
    <3> QED
      BY <3>1 DEF CallInv, ReviewedInv
  <2>1. CASE Commit
    <3>1. call'.pc \in {"push", "ancestor"} /\ head' = tree /\ UNCHANGED <<tree, origin, reviewed>>
      BY <2>1, GotoFacts DEF Commit, PublishPlaces
    <3> QED
      BY <2>0, <3>1 DEF ReviewedInv
  <2>2. CASE BaseIsIntegrated
    <3>1. call'.pc = "push" /\ call.pc = "ancestor" /\ UNCHANGED <<tree, head, origin, reviewed>>
      BY <2>2, GotoFacts DEF BaseIsIntegrated, PublishPlaces
    <3> QED
      BY <2>0, <3>1 DEF ReviewedInv
  <2>3. CASE Push
    <3>1. call'.pc = "record" /\ call.pc = "push" /\ origin' = head /\ UNCHANGED <<tree, reviewed>>
      BY <2>3, GotoFacts DEF Push, PublishPlaces
    <3> QED
      BY <2>0, <3>1 DEF ReviewedInv
  <2>4. CASE Record
    BY <2>4 DEF Record, ReviewedInv, NoCall
  <2>5. CASE PublishFails
    <3>1. call' = NoCall /\ UNCHANGED <<tree, reviewed>> /\ (origin' = origin \/ (call.pc = "push" /\ origin' = head))
      BY <2>5 DEF PublishFails
    <3> QED
      BY <2>0, <3>1 DEF ReviewedInv, NoCall
  <2> QED
    BY <1>6, <2>1, <2>2, <2>3, <2>4, <2>5 DEF PublishStep
<1>7. CASE TheyPush
  BY <1>7 DEF TheyPush, ReviewedInv
<1> QED
  BY <1>1, <1>2, <1>3, <1>4, <1>5, <1>6, <1>7 DEF Next, JobStep, Working, Quiet, Controller, Environment

LEMMA NextBase == TypeOK /\ CallInv /\ CallInv' /\ BaseInv /\ [Next]_vars => BaseInv'
<1> SUFFICES ASSUME TypeOK, CallInv, CallInv', BaseInv, [Next]_vars PROVE BaseInv'
  OBVIOUS
<1> USE DEF git, hub, history, stored
<1>0. origin \subseteq origin'
  BY OriginGrows
\* A step with which nothing gets nearer to being published.
<1>1. ASSUME (call' = call /\ UNCHANGED <<head, fetched>>) \/ call'.pc \notin {"push", "record"},
             outcome' = "published" => UNCHANGED <<stored, fetched>>
      PROVE  BaseInv'
  BY <1>0, <1>1 DEF BaseInv, ResolvedHoldsBase, At
<1>2. CASE Working
  BY <1>1, <1>2, WorkingFacts DEF OnTheWay
<1>3. CASE Quiet
  <2>1. CASE call'.pc \notin OnTheWay
    BY <1>1, <1>3, <2>1, QuietFacts DEF OnTheWay
  <2>2. CASE call'.pc \in OnTheWay
    <3>1. call' = call /\ ~Free /\ call.op # "none"
      BY <1>3, <2>2, QuietFacts DEF OnTheWay, Free, NoCall, CallInv
    <3>2. ~Leave /\ ~Select
      BY <2>2, <3>1 DEF Leave, NoCall, OnTheWay, Select, CallInv, Free
    <3>3. UNCHANGED <<head, fetched>>
      BY <1>3, <3>1, <3>2
      DEF Quiet, PrepareReview, Run, RunConflict, Reset, ResetFails, MayRun, Publish, Life, Cancel, Exit, Crash,
          AgentDies, TheyMerge, TheyRemove, vars
    <3> QED
      BY <1>1, <1>3, <3>1, <3>3, QuietFacts
  <2> QED
    BY <2>1, <2>2
<1>4. CASE Passed \/ ConflictTurn
  <2>1. call'.pc \in {"save", "close"} /\ outcome' = "running"
    BY <1>4, GotoFacts DEF Passed, ConflictTurn, At, CallInv, RunPlaces
  <2> QED
    BY <1>1, <2>1
<1>5. CASE SaveResult
  BY <1>1, <1>5 DEF SaveResult, NoCall
<1>6. CASE Commit
  <2>1. call'.pc \in {"push", "ancestor"} /\ call'.op = call.op /\ (call'.pc = "push" => call.op = "publish")
    BY <1>6, GotoFacts DEF Commit, PublishPlaces
  <2>2. UNCHANGED <<origin, fetched, stored>>
    BY <1>6 DEF Commit
  <2> QED
    BY <2>1, <2>2 DEF BaseInv, ResolvedHoldsBase, At
<1>7. CASE BaseIsIntegrated
  <2>1. call'.pc = "push" /\ fetched \subseteq head /\ UNCHANGED <<head, fetched, origin, stored>>
    BY <1>7, GotoFacts DEF BaseIsIntegrated, PublishPlaces
  <2> QED
    BY <2>1 DEF BaseInv, ResolvedHoldsBase, At
<1>8. CASE Push
  <2>1. call'.pc = "record" /\ call'.op = call.op /\ call.pc = "push" /\ origin' = head /\ UNCHANGED <<fetched, stored>>
    BY <1>8, GotoFacts DEF Push, PublishPlaces
  <2> QED
    BY <1>0, <2>1 DEF BaseInv, ResolvedHoldsBase, At
<1>9. CASE Record
  <2>1. call.pc = "record" /\ call' = NoCall /\ UNCHANGED <<origin, fetched, phase>>
    BY <1>9 DEF Record
  <2>2. phase = "conflict" => call.op = "publishConflict"
    BY <2>1 DEF CallInv, NoCall, TypeOK, Call, RunAt, ConflictAt
  <2> QED
    BY <2>1, <2>2 DEF BaseInv, ResolvedHoldsBase, At, NoCall
<1>10. CASE PublishFails
  BY <1>1, <1>10 DEF PublishFails, NoCall
<1>11. CASE TheyPush
  BY <1>1, <1>11 DEF TheyPush
<1> QED
  BY <1>2, <1>3, <1>4, <1>5, <1>6, <1>7, <1>8, <1>9, <1>10, <1>11
  DEF Next, JobStep, PublishStep, Working, Quiet, Controller, Environment

-----------------------------------------------------------------------------
(* Theorems *)

\* The inductive invariant: types, the place of the call, and what is put up.
THEOREM Inductive == Spec => []IInv
<1>1. IInv /\ [Next]_vars => IInv'
  BY NextType, NextCall, NextReviewed, NextBase DEF IInv
<1> QED
  BY InitInv, <1>1, PTL DEF Spec

\* The state of the engine is always of its type: no attempt beyond the limit.
THEOREM TypeCorrect == Spec => []TypeOK
<1>1. IInv => TypeOK
  BY DEF IInv
<1> QED
  BY Inductive, <1>1, PTL

\* Nothing of ours gets to the pull request that was not put up for approval, whatever
\* an earlier job, phase or process has left in the worktree (fix_engine.go 155-217).
THEOREM ReviewedOnly == Spec => []OnlyReviewedIsPushed
<1>1. IInv => OnlyReviewedIsPushed
  BY DEF IInv, ReviewedInv, OnlyReviewedIsPushed
<1> QED
  BY Inductive, <1>1, PTL

\* A conflict that counts as resolved has the base branch as it was fetched in the head
\* branch (fix_engine.go 177-217).
THEOREM ResolvedIsMerged == Spec => []ResolvedHoldsBase
<1>1. IInv => ResolvedHoldsBase
  BY DEF IInv, BaseInv
<1> QED
  BY Inductive, <1>1, PTL

\* What others push to the head branch stays there, whenever they do it (the push
\* of fix_engine.go 155-217 is never forced).
THEOREM OthersAreKept == Spec => TheirsIsKept
<1>1. IInv /\ [Next]_vars => ((Theirs \in origin) => (Theirs \in origin'))
  BY OriginGrows DEF IInv
<1> QED
  BY Inductive, <1>1, PTL DEF Spec, TheirsIsKept

LEMMA OnlyRecordPublishes ==
  ASSUME IInv, IInv', [Next]_vars, outcome # "published", outcome' = "published"
  PROVE  Record
<1> USE DEF IInv
<1>1. CASE Working
  BY <1>1, WorkingFacts
<1>2. CASE Quiet
  BY <1>2, QuietFacts DEF stored
<1>3. CASE Passed \/ ConflictTurn \/ SaveResult
  BY <1>3 DEF Passed, ConflictTurn, SaveResult, At, CallInv, stored
<1>4. CASE Commit \/ BaseIsIntegrated \/ Push \/ PublishFails \/ TheyPush
  BY <1>4 DEF Commit, BaseIsIntegrated, Push, PublishFails, TheyPush, stored
<1> QED
  BY <1>1, <1>2, <1>3, <1>4 DEF Next, JobStep, PublishStep, Working, Quiet, Controller, Environment

\* A fix or a conflict only becomes done when the head branch has all that was put up
\* for approval last (fix_engine.go 155-217).
THEOREM DoneMeansPushed == Spec => PublishedHoldsReviewed
<1>1. ASSUME IInv, IInv', [Next]_vars, outcome # "published", outcome' = "published"
      PROVE  reviewed.last \subseteq origin
  <2>1. call.pc = "record"
    BY <1>1, OnlyRecordPublishes DEF Record
  <2> QED
    BY <1>1, <2>1 DEF IInv, ReviewedInv
<1>2. IInv /\ IInv' /\ [Next]_vars
        => (outcome # "published" /\ outcome' = "published" => reviewed.last \subseteq origin)
  BY <1>1
<1> QED
  BY <1>2, Inductive, PTL DEF Spec, PublishedHoldsReviewed
-----------------------------------------------------------------------------
(* A fix implements VerifiedLoop *)

LoopAttempt == IF At("run", "implement") \/ At("run", "verify") THEN call.attempt ELSE 0

LEMMA BetweenStep ==
  ASSUME TypeOK', Stage \in {"idle", "passed", "failed"}, Stage' \in {Stage, "idle"}, LoopAttempt' = 0,
         accepted' = accepted
  PROVE  Loop!Next
BY DEF Loop!Next, Loop!Between, LoopAttempt, TypeOK

LEMMA FailStep ==
  ASSUME TypeOK', Stage \in {"idle", "implementing", "verifying"}, Stage' \in {"failed", "idle"}, LoopAttempt' = 0,
         accepted' = accepted, Stage = "verifying" => tree' = tree
  PROVE  Loop!Next
BY DEF Loop!Next, Loop!Fail, LoopAttempt, TypeOK

LEMMA LoopInit == Init => Loop!Init
BY DEF Init, Loop!Init, Stage, LoopAttempt, At, Free, NoCall

\* The stage of a job of a fix is its place, and of all else the outcome.
LEMMA RunStage ==
  ASSUME call.op = "run"
  PROVE  /\ Stage = CASE call.pc = "implement" -> "implementing" [] call.pc = "verify" -> "verifying"
                      [] call.pc = "save" -> "passed" [] call.pc = "close" -> "failed" [] OTHER -> "idle"
         /\ LoopAttempt = IF call.pc \in {"implement", "verify"} THEN call.attempt ELSE 0
BY DEF Stage, LoopAttempt, At, Free, NoCall

LEMMA OtherStage ==
  ASSUME call.op # "run"
  PROVE  /\ Stage = IF phase = "fix" /\ outcome = "ready" THEN "passed"
                    ELSE IF phase = "fix" /\ outcome = "failed" /\ Free THEN "failed" ELSE "idle"
         /\ LoopAttempt = 0
BY DEF Stage, LoopAttempt, At

\* A step of something else than a job of a fix is one between the calls.
LEMMA LoopOutside ==
  ASSUME TypeOK', call.op # "run", call'.op # "run", accepted' = accepted,
         \/ phase' # "fix" \/ outcome' \notin {"ready", "failed"}
         \/ UNCHANGED stored /\ (Free' => Free)
         \/ outcome = "ready" /\ UNCHANGED stored
  PROVE  Loop!Next
<1>1. /\ Stage = IF phase = "fix" /\ outcome = "ready" THEN "passed"
                 ELSE IF phase = "fix" /\ outcome = "failed" /\ Free THEN "failed" ELSE "idle"
      /\ Stage' = IF phase' = "fix" /\ outcome' = "ready" THEN "passed"
                  ELSE IF phase' = "fix" /\ outcome' = "failed" /\ Free' THEN "failed" ELSE "idle"
      /\ LoopAttempt' = 0
  BY OtherStage DEF Stage, LoopAttempt, At
<1>2. Stage \in {"idle", "passed", "failed"} /\ Stage' \in {Stage, "idle"}
  BY <1>1 DEF stored
<1> QED
  BY <1>1, <1>2, BetweenStep

LEMMA LoopJobStep ==
  ASSUME TypeOK, TypeOK', CallInv, CallInv', JobStep
  PROVE  Loop!Next
<1> USE DEF history, git, RunPlaces
<1>1. CASE SessionsHeld \/ StartVerifier
  <2>1. CASE call.op = "run"
    <3>1. /\ call.pc \in {"start", "verifier"} /\ UNCHANGED <<tree, accepted>>
          /\ call'.op = "run" /\ call'.pc = "implement" /\ call'.attempt = 1
      BY <1>1, <2>1, FirstAttempt DEF SessionsHeld, StartVerifier, At
    <3>2. Stage = "idle" /\ Stage' = "implementing" /\ LoopAttempt' = 1
      BY <2>1, <3>1 DEF Stage, LoopAttempt, At, Free, NoCall
    <3> QED
      BY <3>1, <3>2 DEF Loop!Next, Loop!Begin, LoopAttempt
  <2> QED
    BY <1>1, <2>1 DEF SessionsHeld, StartVerifier, At
<1>2. CASE (EnsureWorktree \/ StartImplementer) /\ call.op = "run"
  <2>1. /\ call.pc \in {"start", "implementer"} /\ accepted' = accepted
        /\ call'.op = "run" /\ call'.pc \in {"implementer", "verifier"}
    BY <1>2, GotoFacts DEF EnsureWorktree, StartImplementer, At
  <2>2. Stage = "idle" /\ Stage' = "idle" /\ LoopAttempt' = 0
    BY <1>2, <2>1 DEF Stage, LoopAttempt, At, Free, NoCall
  <2> QED
    BY <2>1, <2>2, BetweenStep
<1>3. CASE StartFails /\ call.op = "run"
  <2>1. /\ call.pc \in {"start", "merge", "implementer", "verifier", "resolve"} /\ accepted' = accepted
        /\ call'.op = "run" /\ call'.pc = "close"
    BY <1>3, GotoFacts DEF StartFails, CannotStart, At
  <2>2. Stage = "idle" /\ Stage' = "failed" /\ LoopAttempt' = 0
    BY <1>3, <2>1 DEF Stage, LoopAttempt, At, Free, NoCall
  <2> QED
    BY <2>1, <2>2, FailStep
<1>4. CASE Implement
  <2>1. /\ call.op = "run" /\ call.pc = "implement" /\ accepted' = accepted
        /\ call'.op = "run" /\ call'.pc = "verify" /\ call'.attempt = call.attempt
    BY <1>4, GotoFacts DEF Implement, At
  <2>2. Stage = "implementing" /\ Stage' = "verifying" /\ LoopAttempt' = LoopAttempt
    BY <2>1 DEF Stage, LoopAttempt, At, Free, NoCall
  <2> QED
    BY <2>1, <2>2 DEF Loop!Next, Loop!Implement, LoopAttempt, TypeOK
<1>5. CASE ImplementFails \/ VerifyFails
  <2>1. /\ call.op = "run" /\ call.pc \in {"implement", "verify"} /\ accepted' = accepted
        /\ call'.op = "run" /\ call'.pc = "close" /\ (call.pc = "verify" => tree' = tree)
    BY <1>5, GotoFacts DEF ImplementFails, VerifyFails, At
  <2>2. Stage' = "failed" /\ LoopAttempt' = 0
    BY <2>1 DEF Stage, LoopAttempt, At, Free, NoCall
  <2>3. Stage = IF call.pc = "implement" THEN "implementing" ELSE "verifying"
    BY <2>1 DEF Stage, At, Free, NoCall
  <2> QED
    BY <2>1, <2>2, <2>3, FailStep
<1>6. CASE Passed
  <2>1. /\ call.op = "run" /\ call.pc = "verify" /\ accepted' = accepted \cup {tree} /\ tree' = tree
        /\ call'.op = "run" /\ call'.pc = "save"
    BY <1>6, GotoFacts DEF Passed, At
  <2>2. Stage = "verifying" /\ Stage' = "passed" /\ LoopAttempt' = 0
    BY <2>1 DEF Stage, LoopAttempt, At, Free, NoCall
  <2> QED
    BY <2>1, <2>2 DEF Loop!Next, Loop!Pass, LoopAttempt
<1>7. CASE ChangesRequested
  <2>1. call.op = "run" /\ call.pc = "verify" /\ UNCHANGED <<tree, accepted>> /\ call'.op = "run"
    BY <1>7, ChangesRequestedFacts DEF ChangesRequested
  <2>2. Stage = "verifying" /\ LoopAttempt = call.attempt
    BY <2>1 DEF Stage, LoopAttempt, At, Free, NoCall
  <2>3. CASE call.attempt < Limit /\ call'.pc = "implement" /\ call'.attempt = call.attempt + 1
    <3>1. Stage' = "implementing" /\ LoopAttempt' = LoopAttempt + 1
      BY <2>1, <2>2, <2>3 DEF Stage, LoopAttempt, At, Free, NoCall
    <3> QED
      BY <2>1, <2>2, <2>3, <3>1 DEF Loop!Next, Loop!Refuse, LoopAttempt
  <2>4. CASE call'.pc = "close"
    <3>1. Stage' = "failed" /\ LoopAttempt' = 0
      BY <2>1, <2>4 DEF Stage, LoopAttempt, At, Free, NoCall
    <3> QED
      BY <2>1, <2>2, <3>1, FailStep
  <2> QED
    BY <1>7, <2>3, <2>4, ChangesRequestedFacts
<1>8. CASE (SaveResult \/ CloseAfterFailure) /\ call.op = "run"
  <2>1. /\ call' = NoCall /\ accepted' = accepted /\ phase' = "fix"
        /\ \/ call.pc = "save" /\ outcome' \in {"ready", "running"}
           \/ call.pc = "close" /\ outcome' \in {"failed", "running"}
    BY <1>8 DEF SaveResult, CloseAfterFailure, CallInv
  <2>2. Stage = IF call.pc = "save" THEN "passed" ELSE "failed"
    BY <1>8, <2>1 DEF Stage, At, Free, NoCall
  <2>3. Stage' \in {Stage, "idle"} /\ LoopAttempt' = 0
    BY <2>1, <2>2 DEF Stage, LoopAttempt, At, Free, NoCall
  <2> QED
    BY <2>1, <2>2, <2>3, BetweenStep
<1>9. CASE /\ call.op # "run"
           /\ \/ EnsureWorktree \/ StartImplementer \/ StartFails \/ SaveResult \/ CloseAfterFailure
              \/ EnsureConflictStarted \/ PrepareMerge \/ ConflictTurn \/ ConflictTurnFails
  <2>1. phase' = phase /\ accepted' = accepted
    BY <1>9
    DEF EnsureWorktree, StartImplementer, StartFails, SaveResult, CloseAfterFailure, EnsureConflictStarted,
        PrepareMerge, ConflictTurn, ConflictTurnFails, stored
  <2>2. call.op = "conflict"
    <3>1. /\ call.op # "none"
          /\ \/ call.op = "conflict"
             \/ call.pc \in {"start", "merge", "implementer", "verifier", "resolve", "save", "close"}
      BY <1>9
      DEF EnsureWorktree, StartImplementer, StartFails, CannotStart, SaveResult, CloseAfterFailure,
          EnsureConflictStarted, PrepareMerge, ConflictTurn, ConflictTurnFails, At, CallInv, NoCall
    <3> QED
      BY <1>9, <3>1 DEF CallInv, TypeOK, Call, PublishPlaces
  <2>3. phase' # "fix" /\ call'.op # "run"
    BY <2>1, <2>2 DEF CallInv
  <2> QED
    BY <1>9, <2>1, <2>3, LoopOutside
<1>10. EnsureConflictStarted \/ PrepareMerge \/ ConflictTurn \/ ConflictTurnFails => call.op # "run"
  BY DEF EnsureConflictStarted, PrepareMerge, ConflictTurn, ConflictTurnFails, At
<1> QED
  BY <1>1, <1>2, <1>3, <1>4, <1>5, <1>6, <1>7, <1>8, <1>9, <1>10 DEF JobStep

LEMMA LoopControllerStep ==
  ASSUME TypeOK, TypeOK', CallInv, CallInv', Controller
  PROVE  Loop!Next
<1> USE DEF history
<1>0. call = NoCall /\ call.op # "run" /\ accepted' = accepted
  BY DEF Controller, PrepareReview, Run, RunConflict, Reset, ResetFails, Publish, MayRun, Free, NoCall
<1>1. CASE call'.op = "run"
  <2>1. call'.pc = "start"
    BY <1>0, <1>1, BeginFacts, AgainFacts, PublishFacts
    DEF Controller, PrepareReview, Run, RunConflict, Reset, ResetFails, Publish, RunPlaces
  <2>2. Stage \in {"idle", "passed", "failed"} /\ Stage' = "idle" /\ LoopAttempt' = 0
    BY <1>0, <1>1, <2>1 DEF Stage, LoopAttempt, At, Free, NoCall
  <2> QED
    BY <1>0, <2>2, BetweenStep
<1>2. CASE call'.op # "run"
  <2>1. CASE Publish
    BY <1>0, <1>2, <2>1, LoopOutside DEF Publish
  <2>2. CASE ResetFails
    BY <1>0, <1>2, <2>2, LoopOutside DEF ResetFails
  <2>3. CASE PrepareReview \/ Run \/ RunConflict \/ Reset
    <3>1. outcome' = "running"
      BY <2>3 DEF PrepareReview, Run, RunConflict, Reset
    <3> QED
      BY <1>0, <1>2, <3>1, LoopOutside
  <2> QED
    BY <2>1, <2>2, <2>3 DEF Controller
<1> QED
  BY <1>1, <1>2

LEMMA LoopPublishStep ==
  ASSUME TypeOK, TypeOK', CallInv, CallInv', PublishStep
  PROVE  Loop!Next
<1> USE DEF history, PublishPlaces
<1>1. call.op \in {"publish", "publishConflict"} /\ outcome = "ready"
  <2>1. call.op # "none" /\ (call.op \in {"publish", "publishConflict"} \/ call.pc \in PublishPlaces)
    BY DEF PublishStep, Commit, BaseIsIntegrated, Push, Record, PublishFails, CannotPublish, At, CallInv, NoCall
  <2> QED
    BY <2>1 DEF CallInv, TypeOK, Call, RunAt, ConflictAt
<1>2. accepted' = accepted
  BY DEF PublishStep, Commit, BaseIsIntegrated, Push, Record, PublishFails
<1>3. call'.op # "run"
  <2>1. CASE Commit \/ BaseIsIntegrated \/ Push
    BY <1>1, <2>1, GotoFacts DEF Commit, BaseIsIntegrated, Push
  <2>2. CASE Record \/ PublishFails
    BY <2>2 DEF Record, PublishFails, NoCall
  <2> QED
    BY <2>1, <2>2 DEF PublishStep
<1>4. CASE Record
  BY <1>1, <1>2, <1>3, <1>4, LoopOutside DEF Record
<1>5. CASE ~Record
  <2>1. UNCHANGED stored
    BY <1>5 DEF PublishStep, Commit, BaseIsIntegrated, Push, PublishFails
  <2> QED
    BY <1>1, <1>2, <1>3, <2>1, LoopOutside
<1> QED
  BY <1>4, <1>5

LEMMA LoopLeave ==
  ASSUME TypeOK, TypeOK', CallInv, CallInv', Leave
  PROVE  Loop!Next
<1> USE DEF history, git, stored
<1>1. call' = NoCall /\ call'.op = "none" /\ UNCHANGED <<phase, outcome, accepted, tree>>
  BY DEF Leave, NoCall
<1>2. CASE call.op = "run"
  <2>1. Stage' = "idle" /\ LoopAttempt' = 0
    BY <1>1, <1>2 DEF CallInv, Stage, LoopAttempt, At, Free, NoCall
  <2>2. Stage \in {"idle", "implementing", "verifying", "passed", "failed"}
    BY <1>2 DEF Stage
  <2> QED
    BY <1>1, <2>1, <2>2, BetweenStep, FailStep
<1>3. CASE call.op # "run" /\ outcome = "ready"
  BY <1>1, <1>3, LoopOutside
<1>4. CASE call.op # "run" /\ outcome # "ready"
  <2>1. outcome' \notin {"ready", "failed"} \/ phase' # "fix" \/ (Free' => Free)
    BY <1>1, <1>4 DEF CallInv, Free, TypeOK, Call
  <2> QED
    BY <1>1, <1>4, <2>1, LoopOutside
<1> QED
  BY <1>2, <1>3, <1>4

LEMMA LoopStep == IInv /\ IInv' /\ [Next]_vars => [Loop!Next]_(Loop!vars)
<1> SUFFICES ASSUME IInv, IInv', [Next]_vars
             PROVE  Loop!Next \/ UNCHANGED Loop!vars
  OBVIOUS
<1> USE DEF IInv
<1>1. CASE JobStep
  BY <1>1, LoopJobStep
<1>2. CASE PublishStep
  BY <1>2, LoopPublishStep
<1>3. CASE Controller
  BY <1>3, LoopControllerStep
<1>4. CASE Leave
  BY <1>4, LoopLeave
<1>5. CASE Select
  <2>1. call = NoCall /\ call' = NoCall /\ accepted' = accepted
    BY <1>5 DEF Select, CallInv, history
  <2>2. call.op # "run" /\ call'.op # "run" /\ Free
    BY <2>1 DEF NoCall, Free
  <2>3. outcome' \notin {"ready", "failed"} \/ UNCHANGED stored
    BY <1>5 DEF Select, stored
  <2> QED
    BY <2>1, <2>2, <2>3, LoopOutside
<1>6. CASE Cancel \/ Environment \/ UNCHANGED vars
  <2>1. UNCHANGED <<call, phase, outcome, accepted, tree>>
    BY <1>6
    DEF Cancel, Environment, AgentDies, TheyPush, TheyMerge, TheyRemove, vars, git, history, stored
  <2> QED
    BY <2>1 DEF Loop!vars, Stage, At, Free
<1> QED
  BY <1>1, <1>2, <1>3, <1>4, <1>5, <1>6 DEF Next, Life, Exit, Crash

\* A fix is put up only as its verifier passed it, and its implementer is asked at most
\* Limit times, for every loop count (fix_engine.go 78-128).
THEOREM ImplementsLoop == Spec => LoopSpec
<1>1. Init => Loop!Init
  BY LoopInit
<1>2. IInv /\ IInv' /\ [Next]_vars => [Loop!Next]_(Loop!vars)
  BY LoopStep
<1> QED
  BY <1>1, <1>2, Inductive, PTL DEF Spec, LoopSpec, Loop!Spec
==================================================================================
