------------------------------ MODULE EngineProofs ------------------------------
(***************************************************************************)
(* Proofs about the implementation engine, for every loop count, all       *)
(* faults, whatever others do, and any number of turns and processes.      *)
(***************************************************************************)
EXTENDS Engine, TLAPS

\* A call of Run is stored as running, one of Publish has a passed result.
CallInv ==
  /\ call.op = "none" => call = NoCall
  /\ call.op = "run" => outcome = "running"
  /\ call.op = "publish" => outcome = "passed"

\* What may be on origin.
Verified == (UNION accepted) \cup {Theirs}

\* No commit holds unverified work, and neither do the files once a result has
\* passed: the next change to them is made by a call of Run.
VerifiedInv ==
  /\ origin \subseteq Verified /\ head \subseteq Verified /\ branch \subseteq Verified
  /\ outcome = "passed" => tree \subseteq Verified

\* Agents the engine does not hold live only while they are being started.
AgentInv == ~(call.op = "run" /\ call.pc \in {"implementer", "verifier"}) => alive = {} \/ held

\* A branch that is not on origin holds nothing there.
OriginInv == ~onOrigin => origin = {}

IInv == TypeOK /\ CallInv /\ VerifiedInv /\ AgentInv /\ OriginInv

LEMMA LimitType == Limit \in Nat /\ Limit >= 1
BY EngineAssumption DEF Limit

LEMMA NoCallType == NoCall \in Call
BY LimitType DEF NoCall, Call, RunPlaces, PublishPlaces

LEMMA TheirsType == Theirs \in Changes
BY EngineAssumption DEF Theirs, Changes

LEMMA InitInv == Init => IInv
<1> SUFFICES ASSUME Init PROVE IInv
  OBVIOUS
<1>1. TypeOK
  <2>1. /\ tree \subseteq Changes /\ head \subseteq Changes /\ branch \subseteq Changes /\ origin \subseteq Changes
        /\ alive \subseteq Agents /\ accepted \subseteq SUBSET Changes /\ last \subseteq Changes
    BY DEF Init
  <2>2. turns \in 0 .. MaxTurn /\ processes \in 0 .. MaxProcess
    BY EngineAssumption DEF Init
  <2>3. call \in Call
    BY NoCallType DEF Init
  <2> QED
    BY <2>1, <2>2, <2>3 DEF Init, TypeOK
<1>2. CallInv /\ AgentInv /\ OriginInv
  BY DEF Init, CallInv, AgentInv, OriginInv, NoCall
<1>3. VerifiedInv
  BY DEF Init, VerifiedInv
<1> QED
  BY <1>1, <1>2, <1>3 DEF IInv

-----------------------------------------------------------------------------
(* Each action preserves the type invariant *)

LEMMA EditType ==
  ASSUME TypeOK, Edit \/ UNCHANGED <<tree, turns>>
  PROVE  tree' \subseteq Changes /\ turns' \in 0 .. MaxTurn
<1>1. CASE Edit
  <2>1. turns' \in 0 .. MaxTurn /\ turns + 1 \in Changes
    BY <1>1, EngineAssumption DEF Edit, TypeOK, Changes
  <2> QED
    BY <1>1, <2>1 DEF Edit, TypeOK
<1>2. CASE UNCHANGED <<tree, turns>>
  BY <1>2 DEF TypeOK
<1> QED
  BY <1>1, <1>2

LEMMA GotoType ==
  ASSUME TypeOK,
         NEW pc \in RunPlaces \cup PublishPlaces, Goto(pc)
  PROVE  call' \in Call
BY DEF Goto, TypeOK, Call

LEMMA CallType ==
  ASSUME NEW op \in {"run", "publish"}, NEW pc \in RunPlaces \cup PublishPlaces, NEW attempt \in 0 .. Limit
  PROVE  [op |-> op, pc |-> pc, attempt |-> attempt] \in Call
BY DEF Call

LEMMA RunStepType ==
  ASSUME TypeOK, RunStep
  PROVE  TypeOK'
<1>1. CASE SessionsHeld
  BY <1>1, GotoType DEF SessionsHeld, TypeOK, git, hub, sessions, bounds, history, RunPlaces, PublishPlaces
<1>2. CASE EnsureWorktree
  BY <1>2, GotoType DEF EnsureWorktree, TypeOK, git, hub, sessions, bounds, history, RunPlaces, PublishPlaces
<1>3. CASE StartImplementer
  BY <1>3, GotoType DEF StartImplementer, TypeOK, Agents, git, hub, bounds, history, RunPlaces, PublishPlaces
<1>4. CASE StartVerifier
  BY <1>4, GotoType DEF StartVerifier, TypeOK, Agents, git, hub, bounds, history, RunPlaces, PublishPlaces
<1>5. CASE StartFails
  BY <1>5, GotoType DEF StartFails, TypeOK, git, hub, bounds, history, RunPlaces, PublishPlaces
<1>6. CASE ReadDesign
  <2>1. call' \in Call
    <3>1. call' = [op |-> "run", pc |-> "implement", attempt |-> 1]
      BY <1>6 DEF ReadDesign, At, TypeOK, Call
    <3>2. 1 \in 0 .. Limit
      BY LimitType
    <3> QED
      BY <3>1, <3>2, CallType DEF RunPlaces
  <2> QED
    BY <1>6, <2>1 DEF ReadDesign, TypeOK, git, hub, sessions, bounds, history
<1>7. CASE Implement
  BY <1>7, GotoType, EditType DEF Implement, TypeOK, hub, sessions, history, RunPlaces, PublishPlaces
<1>8. CASE ImplementFails
  BY <1>8, GotoType, EditType DEF ImplementFails, TypeOK, hub, sessions, history, RunPlaces, PublishPlaces
<1>9. CASE Passed
  BY <1>9, NoCallType DEF Passed, TypeOK, git, hub, sessions, bounds
<1>10. CASE ChangesRequested
  <2>1. call' \in Call
    <3>1. call.op = "run" /\ call.attempt \in 0 .. Limit
      BY <1>10 DEF ChangesRequested, At, TypeOK, Call
    <3>2. CASE call.attempt < Limit
      <4>1. call' = [op |-> "run", pc |-> "implement", attempt |-> call.attempt + 1]
        BY <1>10, <3>1, <3>2 DEF ChangesRequested, TypeOK, Call
      <4>2. call.attempt + 1 \in 0 .. Limit
        BY <3>1, <3>2, LimitType
      <4> QED
        BY <4>1, <4>2, CallType DEF RunPlaces
    <3>3. CASE ~(call.attempt < Limit)
      <4>1. call' = [op |-> "run", pc |-> "close", attempt |-> call.attempt]
        BY <1>10, <3>1, <3>3 DEF ChangesRequested, TypeOK, Call
      <4> QED
        BY <3>1, <4>1, CallType DEF RunPlaces
    <3> QED
      BY <3>2, <3>3
  <2> QED
    BY <1>10, <2>1 DEF ChangesRequested, TypeOK, git, hub, sessions, bounds, history
<1>11. CASE VerifyFails
  BY <1>11, GotoType DEF VerifyFails, TypeOK, git, hub, sessions, bounds, history, RunPlaces, PublishPlaces
<1>12. CASE CloseAfterFailure
  BY <1>12, NoCallType DEF CloseAfterFailure, TypeOK, git, hub, sessions, bounds, history
<1> QED
  BY <1>1, <1>2, <1>3, <1>4, <1>5, <1>6, <1>7, <1>8, <1>9, <1>10, <1>11, <1>12 DEF RunStep

LEMMA PublishStepType ==
  ASSUME TypeOK, PublishStep
  PROVE  TypeOK'
<1>1. CASE Commit
  BY <1>1, GotoType DEF Commit, TypeOK, hub, sessions, bounds, history, RunPlaces, PublishPlaces
<1>2. CASE LookAtOrigin
  BY <1>2, GotoType DEF LookAtOrigin, TypeOK, git, hub, sessions, bounds, history, RunPlaces, PublishPlaces
<1>3. CASE Rebase
  BY <1>3, GotoType DEF Rebase, TypeOK, hub, sessions, bounds, history, RunPlaces, PublishPlaces
<1>4. CASE RebaseConflicts
  BY <1>4, NoCallType DEF RebaseConflicts, TypeOK, hub, sessions, bounds, history
<1>5. CASE Push
  BY <1>5, GotoType DEF Push, TypeOK, git, sessions, bounds, history, RunPlaces, PublishPlaces
<1>6. CASE OpenPullRequest
  BY <1>6, NoCallType DEF OpenPullRequest, TypeOK, git, sessions, bounds, history
<1>7. CASE PublishFails
  <2>1. origin' \subseteq Changes /\ onOrigin' \in BOOLEAN /\ pr' \in BOOLEAN
    BY <1>7 DEF PublishFails, TypeOK, hub
  <2> QED
    BY <1>7, <2>1, NoCallType DEF PublishFails, TypeOK, git, sessions, bounds, history
<1> QED
  BY <1>1, <1>2, <1>3, <1>4, <1>5, <1>6, <1>7 DEF PublishStep

LEMMA ControllerType ==
  ASSUME TypeOK, Controller
  PROVE  TypeOK'
<1>1. CASE Run \/ Publish
  <2>1. call' \in Call
    <3>1. 0 \in 0 .. Limit
      BY LimitType
    <3>2. call' \in {[op |-> "run", pc |-> "start", attempt |-> 0], [op |-> "publish", pc |-> "commit", attempt |-> 0]}
      BY <1>1 DEF Run, Publish, NoCall
    <3> QED
      BY <3>1, <3>2, CallType DEF RunPlaces, PublishPlaces
  <2> QED
    BY <1>1, <2>1 DEF Run, Publish, TypeOK, git, hub, sessions, bounds, history
<1>2. CASE Reset
  <2>1. call' \in Call
    BY <1>2, LimitType DEF Reset, Call, RunPlaces
  <2> QED
    BY <1>2, <2>1 DEF Reset, TypeOK, hub, bounds, history
<1>3. CASE ResetFails
  BY <1>3 DEF ResetFails, TypeOK, hub, bounds, history
<1> QED
  BY <1>1, <1>2, <1>3 DEF Controller

LEMMA LifeType ==
  ASSUME TypeOK, Life
  PROVE  TypeOK'
<1>1. CASE Launch
  BY <1>1, EngineAssumption DEF Launch, TypeOK, git, hub, sessions, history
<1>2. CASE Cancel
  BY <1>2 DEF Cancel, TypeOK, git, hub, bounds, history
<1>3. CASE Leave
  BY <1>3, NoCallType DEF Leave, TypeOK, git, hub, bounds, history
<1> QED
  BY <1>1, <1>2, <1>3 DEF Life, Exit, Crash

LEMMA EnvironmentType ==
  ASSUME TypeOK, Environment
  PROVE  TypeOK'
<1>1. CASE AgentDies
  BY <1>1 DEF AgentDies, TypeOK, git, hub, bounds, history
<1>2. CASE TheyPush
  <2>1. origin' \subseteq Changes /\ onOrigin' \in BOOLEAN
    BY <1>2, TheirsType DEF TheyPush, TypeOK
  <2>2. UNCHANGED <<git, pr, outcome, proc, known, sessions, call, bounds, history>>
    BY <1>2 DEF TheyPush
  <2> QED
    BY <2>1, <2>2 DEF TypeOK, git, sessions, bounds, history
<1>3. CASE TheyRemove
  BY <1>3 DEF TheyRemove, TypeOK, hub, sessions, bounds, history
<1> QED
  BY <1>1, <1>2, <1>3 DEF Environment

LEMMA NextType ==
  ASSUME TypeOK, [Next]_vars
  PROVE  TypeOK'
<1>1. CASE UNCHANGED vars
  BY <1>1 DEF vars, git, hub, sessions, bounds, history, TypeOK
<1> QED
  BY <1>1, RunStepType, PublishStepType, ControllerType, LifeType, EnvironmentType DEF Next

-----------------------------------------------------------------------------
(* Each action preserves the rest of the invariant *)

LEMMA CallStays ==
  ASSUME TypeOK, CallInv, [Next]_vars
  PROVE  CallInv'
<1>1. CASE SessionsHeld \/ EnsureWorktree \/ StartImplementer \/ StartVerifier \/ StartFails \/ ReadDesign \/ Implement
           \/ ImplementFails \/ ChangesRequested \/ VerifyFails
  <2>1. call.op = "run" /\ call'.op = "run" /\ outcome' = outcome
    BY <1>1
       DEF SessionsHeld, EnsureWorktree, StartImplementer, StartVerifier, StartFails, ReadDesign, Implement,
           ImplementFails, ChangesRequested, VerifyFails, At, Goto, TypeOK, Call
  <2> QED
    BY <2>1 DEF CallInv
<1>2. CASE Commit \/ LookAtOrigin \/ Rebase \/ Push
  <2>1. call.op = "publish" /\ call'.op = "publish" /\ outcome' = outcome
    BY <1>2 DEF Commit, LookAtOrigin, Rebase, Push, At, Goto, TypeOK, Call
  <2> QED
    BY <2>1 DEF CallInv
<1>3. ASSUME call' = NoCall PROVE CallInv'
  BY <1>3 DEF CallInv, NoCall
<1>4. CASE Passed \/ CloseAfterFailure \/ RebaseConflicts \/ OpenPullRequest \/ PublishFails \/ Leave
  BY <1>3, <1>4 DEF Passed, CloseAfterFailure, RebaseConflicts, OpenPullRequest, PublishFails, Leave
<1>5. CASE Run \/ Reset
  <2>1. call'.op = "run" /\ outcome' = "running"
    <3>1. CASE Run
      BY <3>1 DEF Run, NoCall
    <3>2. CASE Reset
      BY <3>2 DEF Reset
    <3> QED
      BY <1>5, <3>1, <3>2
  <2> QED
    BY <2>1 DEF CallInv
<1>6. CASE Publish
  BY <1>6 DEF Publish, CallInv, NoCall
<1>7. CASE ResetFails \/ Launch \/ Cancel \/ AgentDies \/ TheyPush \/ TheyRemove \/ UNCHANGED vars
  <2>1. UNCHANGED <<call, outcome>>
    BY <1>7 DEF ResetFails, Launch, Cancel, AgentDies, TheyPush, TheyRemove, vars
  <2> QED
    BY <2>1 DEF CallInv
<1> QED
  BY <1>1, <1>2, <1>4, <1>5, <1>6, <1>7
     DEF Next, RunStep, PublishStep, Controller, Life, Environment, Exit, Crash

LEMMA AgentsStay ==
  ASSUME TypeOK, AgentInv, [Next]_vars
  PROVE  AgentInv'
<1>1. CASE SessionsHeld \/ StartVerifier
  BY <1>1 DEF SessionsHeld, StartVerifier, sessions, AgentInv, At, Goto
<1>2. CASE EnsureWorktree \/ StartImplementer
  <2>1. call'.op = "run" /\ call'.pc \in {"implementer", "verifier"}
    BY <1>2 DEF EnsureWorktree, StartImplementer, At, Goto, TypeOK, Call
  <2> QED
    BY <2>1 DEF AgentInv
<1>3. CASE StartFails
  BY <1>3 DEF StartFails, AgentInv
<1>4. CASE ReadDesign \/ Implement \/ ImplementFails \/ Passed \/ ChangesRequested \/ VerifyFails \/ CloseAfterFailure
  <2>1. alive = {} \/ held
    BY <1>4
       DEF ReadDesign, Implement, ImplementFails, Passed, ChangesRequested, VerifyFails, CloseAfterFailure, At, AgentInv
  <2>2. alive' = {} \/ UNCHANGED <<alive, held>>
    BY <1>4
       DEF ReadDesign, Implement, ImplementFails, Passed, ChangesRequested, VerifyFails, CloseAfterFailure, sessions
  <2> QED
    BY <2>1, <2>2 DEF AgentInv
<1>5. CASE PublishStep
  <2>1. call.op = "publish" /\ UNCHANGED <<alive, held>>
    BY <1>5
       DEF PublishStep, Commit, LookAtOrigin, Rebase, RebaseConflicts, Push, OpenPullRequest, PublishFails, At, sessions
  <2> QED
    BY <2>1 DEF AgentInv
<1>6. CASE Run \/ Publish
  BY <1>6 DEF Run, Publish, Free, NoCall, sessions, AgentInv
<1>7. CASE Reset \/ ResetFails \/ Cancel \/ Leave
  BY <1>7 DEF Reset, ResetFails, Cancel, Leave, AgentInv
<1>8. CASE AgentDies
  BY <1>8 DEF AgentDies, AgentInv
<1>9. CASE Launch \/ TheyPush \/ TheyRemove \/ UNCHANGED vars
  BY <1>9 DEF Launch, TheyPush, TheyRemove, vars, sessions, AgentInv
<1> QED
  BY <1>1, <1>2, <1>3, <1>4, <1>5, <1>6, <1>7, <1>8, <1>9
     DEF Next, RunStep, Controller, Life, Environment, Exit, Crash

LEMMA OriginStays ==
  ASSUME OriginInv, [Next]_vars
  PROVE  OriginInv'
<1>1. CASE Push \/ TheyPush
  BY <1>1 DEF Push, TheyPush, OriginInv
<1>2. CASE PublishFails
  BY <1>2 DEF PublishFails, hub, OriginInv
<1>3. CASE UNCHANGED <<origin, onOrigin>>
  BY <1>3 DEF OriginInv
<1>4. CASE RunStep
  BY <1>3, <1>4
     DEF RunStep, SessionsHeld, EnsureWorktree, StartImplementer, StartVerifier, StartFails, ReadDesign, Implement,
         ImplementFails, Passed, ChangesRequested, VerifyFails, CloseAfterFailure, hub
<1>5. CASE Commit \/ LookAtOrigin \/ Rebase \/ RebaseConflicts \/ OpenPullRequest
  BY <1>3, <1>5 DEF Commit, LookAtOrigin, Rebase, RebaseConflicts, OpenPullRequest, hub
<1>6. CASE Controller \/ Launch \/ Cancel \/ Leave \/ AgentDies \/ TheyRemove \/ UNCHANGED vars
  BY <1>3, <1>6
     DEF Controller, Run, Reset, ResetFails, Publish, Launch, Cancel, Leave, AgentDies, TheyRemove, vars, hub
<1> QED
  BY <1>1, <1>2, <1>4, <1>5, <1>6 DEF Next, PublishStep, Life, Environment, Exit, Crash

LEMMA VerifiedStays ==
  ASSUME TypeOK, CallInv, VerifiedInv, [Next]_vars
  PROVE  VerifiedInv'
<1>1. ASSUME UNCHANGED <<origin, head, branch, accepted>>, outcome' = "passed" => outcome = "passed" /\ tree' = tree
      PROVE  VerifiedInv'
  BY <1>1 DEF VerifiedInv, Verified
<1>2. CASE Passed
  <2>1. UNCHANGED <<tree, head, branch, origin>> /\ accepted' = accepted \cup {tree}
    BY <1>2 DEF Passed, git, hub
  <2>2. Verified \subseteq Verified' /\ tree \subseteq Verified'
    BY <2>1 DEF Verified
  <2> QED
    BY <2>1, <2>2 DEF VerifiedInv
<1>3. CASE EnsureWorktree
  <2>1. UNCHANGED <<origin, accepted>> /\ outcome' = "running"
    BY <1>3 DEF EnsureWorktree, At, CallInv, hub, history
  <2>2. head' \in {head, {}} /\ branch' \in {branch, {}}
    BY <1>3 DEF EnsureWorktree
  <2> QED
    BY <2>1, <2>2 DEF VerifiedInv, Verified
<1>4. CASE Implement \/ ImplementFails
  <2>1. UNCHANGED <<origin, head, branch, accepted>> /\ outcome' = "running"
    BY <1>4 DEF Implement, ImplementFails, At, CallInv, hub, history
  <2> QED
    BY <1>1, <2>1
<1>5. CASE SessionsHeld \/ StartImplementer \/ StartVerifier \/ StartFails \/ ReadDesign \/ ChangesRequested \/ VerifyFails
           \/ CloseAfterFailure
  <2>1. UNCHANGED <<origin, head, branch, accepted, tree>> /\ outcome' \in {outcome, "failed"}
    BY <1>5
       DEF SessionsHeld, StartImplementer, StartVerifier, StartFails, ReadDesign, ChangesRequested, VerifyFails,
           CloseAfterFailure, git, hub, history
  <2> QED
    BY <1>1, <2>1
<1>6. CASE PublishStep
  <2>1. tree \subseteq Verified /\ Verified' = Verified
    BY <1>6
       DEF PublishStep, Commit, LookAtOrigin, Rebase, RebaseConflicts, Push, OpenPullRequest, PublishFails, At, CallInv,
           VerifiedInv, Verified, history
  <2>2. /\ head' \subseteq tree \cup head \cup origin /\ branch' \subseteq tree \cup head \cup branch \cup origin
        /\ tree' \subseteq tree \cup head \cup origin /\ origin' \subseteq origin \cup branch
    <3>1. CASE Commit
      BY <3>1 DEF Commit, hub
    <3>2. CASE Rebase
      BY <3>2 DEF Rebase, hub
    <3>3. CASE RebaseConflicts
      BY <3>3 DEF RebaseConflicts, hub
    <3>4. CASE LookAtOrigin \/ Push \/ OpenPullRequest
      BY <3>4 DEF LookAtOrigin, Push, OpenPullRequest, git, hub
    <3>5. CASE PublishFails
      BY <3>5 DEF PublishFails, git, hub
    <3> QED
      BY <1>6, <3>1, <3>2, <3>3, <3>4, <3>5 DEF PublishStep
  <2> QED
    BY <2>1, <2>2 DEF VerifiedInv
<1>7. CASE Reset \/ ResetFails
  <2>1. UNCHANGED <<origin, accepted>> /\ outcome' # "passed"
    BY <1>7 DEF Reset, ResetFails, hub, history
  <2>2. head' \in {head, {}} /\ branch' \in {branch, {}}
    BY <1>7 DEF Reset, ResetFails
  <2> QED
    BY <2>1, <2>2 DEF VerifiedInv, Verified
<1>8. CASE Run \/ Publish \/ Life \/ AgentDies \/ TheyRemove \/ UNCHANGED vars
  <2>1. UNCHANGED <<origin, head, branch, accepted, tree>> /\ outcome' \in {outcome, "running"}
    BY <1>8
       DEF Run, Publish, Life, Launch, Cancel, Exit, Crash, Leave, AgentDies, TheyRemove, vars, git, hub, history
  <2> QED
    BY <1>1, <2>1
<1>9. CASE TheyPush
  <2>1. UNCHANGED <<tree, head, branch, accepted, outcome>> /\ origin' \subseteq origin \cup {Theirs}
    BY <1>9 DEF TheyPush, git, history
  <2>2. Verified' = Verified
    BY <2>1 DEF Verified
  <2>3. Theirs \in Verified
    BY DEF Verified
  <2> QED
    BY <2>1, <2>2, <2>3 DEF VerifiedInv
<1> QED
  BY <1>2, <1>3, <1>4, <1>5, <1>6, <1>7, <1>8, <1>9 DEF Next, RunStep, Controller, Environment

\* The strengthened invariant is inductive.
THEOREM Inductive == Spec => []IInv
<1>1. IInv /\ [Next]_vars => IInv'
  BY NextType, CallStays, AgentsStay, OriginStays, VerifiedStays DEF IInv
<1> QED
  BY <1>1, InitInv, PTL DEF Spec

\* The engine's state is always of its type: no attempt beyond the limit.
THEOREM TypeCorrect == Spec => []TypeOK
BY Inductive, PTL DEF IInv

\* Nothing of ours gets to origin that no verifier has passed, whatever fails and
\* whatever others do (engine.go 92-146, 164-233).
THEOREM VerifiedOnly == Spec => []OnlyVerifiedIsPushed
<1>1. IInv => OnlyVerifiedIsPushed
  BY DEF IInv, VerifiedInv, Verified, OnlyVerifiedIsPushed
<1> QED
  BY <1>1, Inductive, PTL

\* An agent that lives is held by the engine once no call of Run holds the lock, so
\* that Close ends it (engine.go 149-162, 323-380).
THEOREM NoOrphans == Spec => []NoOrphanSession
<1>1. IInv => NoOrphanSession
  BY DEF IInv, AgentInv, NoOrphanSession
<1> QED
  BY <1>1, Inductive, PTL

\* What others push to the branch stays there, whenever they do it (engine.go
\* 266-281).
THEOREM OthersAreKept == Spec => TheirsIsKept
<1>1. ASSUME IInv, [Next]_vars, Theirs \in origin
      PROVE  Theirs \in origin'
  <2>1. onOrigin
    BY <1>1 DEF IInv, OriginInv
  <2>2. CASE Push
    BY <1>1, <2>1, <2>2 DEF Push
  <2>3. CASE PublishFails
    BY <1>1, <2>1, <2>3 DEF PublishFails, hub
  <2>4. CASE TheyPush
    BY <1>1, <2>4 DEF TheyPush
  <2>5. CASE UNCHANGED origin
    BY <1>1, <2>5
  <2>6. CASE RunStep
    BY <2>5, <2>6
       DEF RunStep, SessionsHeld, EnsureWorktree, StartImplementer, StartVerifier, StartFails, ReadDesign, Implement,
           ImplementFails, Passed, ChangesRequested, VerifyFails, CloseAfterFailure, hub
  <2>7. CASE Commit \/ LookAtOrigin \/ Rebase \/ RebaseConflicts \/ OpenPullRequest
    BY <2>5, <2>7 DEF Commit, LookAtOrigin, Rebase, RebaseConflicts, OpenPullRequest, hub
  <2>8. CASE Controller \/ Life \/ AgentDies \/ TheyRemove \/ UNCHANGED vars
    BY <2>5, <2>8
       DEF Controller, Run, Reset, ResetFails, Publish, Life, Launch, Cancel, Exit, Crash, Leave, AgentDies, TheyRemove,
           vars, hub
  <2> QED
    BY <1>1, <2>2, <2>3, <2>4, <2>6, <2>7, <2>8 DEF Next, PublishStep, Environment
<1>2. IInv /\ [Next]_vars => ((Theirs \in origin) => (Theirs \in origin'))
  BY <1>1
<1> QED
  BY <1>2, Inductive, PTL DEF Spec, TheirsIsKept

-----------------------------------------------------------------------------
(* What is published holds what was passed last *)

\* While a passed result waits, the files hold it, and a publish carries it from the
\* files to HEAD, from HEAD to the branch, and from the branch to origin.  A branch
\* that is being rebased is on origin, so it is never pushed half-way.
CarryInv ==
  /\ rebasing => onOrigin
  /\ outcome = "passed" => accepted # {} /\ last \subseteq tree
  /\ call.op = "publish" /\ call.pc \in {"look", "rebase", "push", "open"} => last \subseteq head \/ rebasing
  /\ call.op = "publish" /\ call.pc \in {"look", "rebase", "push"} => last \subseteq branch \/ rebasing
  /\ call.op = "publish" /\ call.pc = "push" => ~rebasing
  /\ call.op = "publish" /\ call.pc = "open" => last \subseteq origin

LEMMA CarryStays ==
  ASSUME IInv, CarryInv, [Next]_vars
  PROVE  CarryInv'
<1> USE DEF IInv
<1>1. ASSUME UNCHANGED <<rebasing, onOrigin, accepted, last>>, call'.op # "publish",
             outcome' = "passed" => outcome = "passed" /\ tree' = tree
      PROVE  CarryInv'
  BY <1>1 DEF CarryInv
<1>2. CASE Passed
  BY <1>2 DEF Passed, CarryInv, NoCall, git, hub
<1>3. CASE EnsureWorktree
  <2>1. /\ (rebasing' => rebasing) /\ call'.op = "run" /\ outcome' = "running"
        /\ UNCHANGED <<onOrigin, accepted, last>>
    BY <1>3 DEF EnsureWorktree, At, Goto, CallInv, TypeOK, Call, hub, history
  <2> QED
    BY <2>1 DEF CarryInv
<1>4. CASE SessionsHeld \/ StartImplementer \/ StartVerifier \/ StartFails \/ ReadDesign \/ Implement \/ ImplementFails
           \/ ChangesRequested \/ VerifyFails
  <2>1. call'.op = "run" /\ outcome' = "running"
    BY <1>4
       DEF SessionsHeld, StartImplementer, StartVerifier, StartFails, ReadDesign, Implement, ImplementFails,
           ChangesRequested, VerifyFails, At, Goto, CallInv, TypeOK, Call
  <2>2. UNCHANGED <<rebasing, onOrigin, accepted, last>>
    BY <1>4
       DEF SessionsHeld, StartImplementer, StartVerifier, StartFails, ReadDesign, Implement, ImplementFails,
           ChangesRequested, VerifyFails, git, hub, history
  <2> QED
    BY <1>1, <2>1, <2>2
<1>5. CASE CloseAfterFailure
  <2>1. outcome = "running"
    BY <1>5 DEF CloseAfterFailure, At, CallInv
  <2>2. outcome' \in {"failed", "running"} /\ call'.op = "none" /\ UNCHANGED <<rebasing, onOrigin, accepted, last>>
    BY <1>5, <2>1 DEF CloseAfterFailure, NoCall, git, hub, history
  <2> QED
    BY <1>1, <2>2
<1>6. CASE Commit
  <2>1. /\ outcome = "passed" /\ outcome' = "passed" /\ call'.op = "publish" /\ call'.pc = "look"
        /\ head' = tree /\ tree' = tree /\ branch' = (IF rebasing THEN branch ELSE tree)
        /\ UNCHANGED <<rebasing, onOrigin, accepted, last>>
    BY <1>6 DEF Commit, At, Goto, CallInv, TypeOK, Call, hub, history
  <2> QED
    BY <2>1 DEF CarryInv
<1>7. CASE LookAtOrigin
  <2>1. /\ call.op = "publish" /\ call.pc = "look" /\ call'.op = "publish"
        /\ call'.pc = (IF onOrigin THEN "rebase" ELSE "push")
    BY <1>7 DEF LookAtOrigin, At, Goto, TypeOK, Call
  <2>2. UNCHANGED <<tree, head, branch, origin, rebasing, onOrigin, outcome, accepted, last>>
    BY <1>7 DEF LookAtOrigin, git, hub, history
  <2> QED
    BY <2>1, <2>2 DEF CarryInv
<1>8. CASE Rebase
  <2>1. /\ call.op = "publish" /\ call.pc = "rebase" /\ ~rebasing /\ call'.op = "publish" /\ call'.pc = "push"
        /\ head' = head \cup origin /\ branch' = head' /\ tree' = head'
    BY <1>8 DEF Rebase, At, Goto, TypeOK, Call
  <2>2. UNCHANGED <<origin, rebasing, onOrigin, outcome, accepted, last>>
    BY <1>8 DEF Rebase, hub, history
  <2> QED
    BY <2>1, <2>2 DEF CarryInv
<1>9. CASE RebaseConflicts
  <2>1. onOrigin /\ onOrigin' /\ call'.op = "none" /\ tree' = tree \cup origin
        /\ UNCHANGED <<outcome, accepted, last>>
    BY <1>9 DEF RebaseConflicts, NoCall, hub, history
  <2> QED
    BY <2>1 DEF CarryInv
<1>10. CASE Push
  <2>1. /\ call.op = "publish" /\ call.pc = "push" /\ call'.op = "publish" /\ call'.pc = "open"
        /\ origin' = branch /\ onOrigin' = TRUE
    BY <1>10 DEF Push, At, Goto, TypeOK, Call
  <2>2. UNCHANGED <<tree, head, branch, rebasing, outcome, accepted, last>>
    BY <1>10 DEF Push, git, history
  <2> QED
    BY <2>1, <2>2 DEF CarryInv
<1>11. CASE OpenPullRequest \/ PublishFails
  <2>1. /\ call'.op = "none" /\ UNCHANGED <<rebasing, tree, accepted, last>>
        /\ (onOrigin => onOrigin') /\ outcome' \in {outcome, "published"}
    BY <1>11 DEF OpenPullRequest, PublishFails, NoCall, git, hub, history
  <2> QED
    BY <2>1 DEF CarryInv
<1>12. CASE Run \/ Reset \/ ResetFails
  <2>1. call'.op # "publish" /\ outcome' # "passed" /\ UNCHANGED <<rebasing, onOrigin, accepted, last>>
    <3>1. UNCHANGED <<rebasing, onOrigin, accepted, last>>
      BY <1>12 DEF Run, Reset, ResetFails, git, hub, history
    <3>2. CASE Run
      BY <3>1, <3>2 DEF Run, NoCall
    <3>3. CASE Reset
      BY <3>1, <3>3 DEF Reset
    <3>4. CASE ResetFails
      BY <3>1, <3>4 DEF ResetFails, Free, NoCall
    <3> QED
      BY <1>12, <3>2, <3>3, <3>4
  <2> QED
    BY <1>1, <2>1
<1>13. CASE Publish
  <2>1. call'.op = "publish" /\ call'.pc = "commit" /\ UNCHANGED <<rebasing, onOrigin, tree, outcome, accepted, last>>
    BY <1>13 DEF Publish, NoCall, git, hub, history
  <2> QED
    BY <2>1 DEF CarryInv
<1>14. CASE Leave
  <2>1. call'.op = "none" /\ UNCHANGED <<rebasing, onOrigin, tree, outcome, accepted, last>>
    BY <1>14 DEF Leave, NoCall, git, hub, history
  <2> QED
    BY <1>1, <2>1
<1>15. CASE Launch \/ Cancel \/ AgentDies \/ TheyRemove \/ UNCHANGED vars
  <2>1. UNCHANGED <<rebasing, onOrigin, origin, tree, head, branch, outcome, call, accepted, last>>
    BY <1>15 DEF Launch, Cancel, AgentDies, TheyRemove, vars, git, hub, history
  <2> QED
    BY <2>1 DEF CarryInv
<1>16. CASE TheyPush
  <2>1. /\ origin \subseteq origin' /\ onOrigin' /\ UNCHANGED <<rebasing, tree, head, branch, outcome, call, accepted, last>>
    BY <1>16 DEF TheyPush, git, history
  <2> QED
    BY <2>1 DEF CarryInv
<1> QED
  BY <1>2, <1>3, <1>4, <1>5, <1>6, <1>7, <1>8, <1>9, <1>10, <1>11, <1>12, <1>13, <1>14, <1>15, <1>16
     DEF Next, RunStep, PublishStep, Controller, Life, Environment, Exit, Crash

\* An issue only becomes done when origin has what was passed last (engine.go
\* 190-281).
THEOREM DoneMeansPushed == Spec => PublishedHoldsAccepted
<1>1. Init => CarryInv
  BY DEF Init, CarryInv, NoCall
<1>2. IInv /\ CarryInv /\ [Next]_vars => CarryInv'
  BY CarryStays
<1>3. ASSUME IInv, CarryInv, [Next]_vars, outcome # "published", outcome' = "published"
      PROVE  accepted # {} /\ last \subseteq origin
  <2>1. CASE OpenPullRequest
    <3>1. call.op = "publish" /\ call.pc = "open"
      BY <2>1 DEF OpenPullRequest, At
    <3> QED
      BY <1>3, <3>1 DEF IInv, CallInv, CarryInv
  <2>2. CASE RunStep \/ Controller
    BY <1>3, <2>2
       DEF RunStep, SessionsHeld, EnsureWorktree, StartImplementer, StartVerifier, StartFails, ReadDesign, Implement,
           ImplementFails, Passed, ChangesRequested, VerifyFails, CloseAfterFailure, Controller, Run, Reset, ResetFails,
           Publish
  <2>3. CASE UNCHANGED outcome
    BY <1>3, <2>3
  <2>4. CASE Commit \/ LookAtOrigin \/ Rebase \/ RebaseConflicts \/ Push \/ PublishFails
    BY <2>3, <2>4 DEF Commit, LookAtOrigin, Rebase, RebaseConflicts, Push, PublishFails
  <2>5. CASE Life \/ Environment \/ UNCHANGED vars
    BY <2>3, <2>5
       DEF Life, Launch, Cancel, Exit, Crash, Leave, Environment, AgentDies, TheyPush, TheyRemove, vars
  <2> QED
    BY <1>3, <2>1, <2>2, <2>4, <2>5 DEF Next, PublishStep
<1>4. IInv /\ CarryInv /\ [Next]_vars
        => (outcome # "published" /\ outcome' = "published" => accepted # {} /\ last \subseteq origin)
  BY <1>3
<1> QED
  BY <1>1, <1>2, <1>4, Inductive, PTL DEF Spec, PublishedHoldsAccepted

-----------------------------------------------------------------------------
(* The engine implements VerifiedLoop *)

LoopAttempt == IF At("run", "implement") \/ At("run", "verify") THEN call.attempt ELSE 0

LEMMA BetweenStep ==
  ASSUME TypeOK', Stage \in {"idle", "passed", "failed"}, Stage' \in {Stage, "idle"}, LoopAttempt' = 0,
         accepted' = accepted
  PROVE  Loop!Next
BY DEF Loop!Next, Loop!Between, LoopAttempt, TypeOK

LEMMA FailStep ==
  ASSUME TypeOK', Stage \in {"idle", "implementing", "verifying"}, Stage' \in {"failed", "idle"}, LoopAttempt' = 0,
         accepted' = accepted, Stage = "verifying" => tree' = tree
  PROVE  Loop!Next
BY DEF Loop!Next, Loop!Fail, LoopAttempt, TypeOK

LEMMA LoopInit == Init => Loop!Init
BY DEF Init, Loop!Init, Stage, LoopAttempt, At, Free, NoCall

LEMMA LoopRunStep ==
  ASSUME TypeOK, TypeOK', CallInv, CallInv', RunStep
  PROVE  Loop!Next
<1>1. CASE SessionsHeld \/ EnsureWorktree \/ StartImplementer \/ StartVerifier
  <2>1. /\ call.op = "run" /\ call.pc \in {"start", "implementer", "verifier"} /\ accepted' = accepted
        /\ call'.op = "run" /\ call'.pc \in {"implementer", "verifier", "design"}
    BY <1>1
       DEF SessionsHeld, EnsureWorktree, StartImplementer, StartVerifier, At, Goto, TypeOK, Call, history
  <2>2. Stage = "idle" /\ Stage' = "idle" /\ LoopAttempt' = 0
    BY <2>1 DEF Stage, LoopAttempt, At, Free, NoCall
  <2> QED
    BY <2>1, <2>2, BetweenStep
<1>2. CASE StartFails
  <2>1. /\ call.op = "run" /\ call.pc \in {"start", "implementer", "verifier", "design"} /\ accepted' = accepted
        /\ call'.op = "run" /\ call'.pc = "close"
    BY <1>2 DEF StartFails, Goto, TypeOK, Call, history
  <2>2. Stage = "idle" /\ Stage' = "failed" /\ LoopAttempt' = 0
    BY <2>1 DEF Stage, LoopAttempt, At, Free, NoCall
  <2> QED
    BY <2>1, <2>2, FailStep
<1>3. CASE ReadDesign
  <2>1. /\ call.op = "run" /\ call.pc = "design" /\ UNCHANGED <<tree, accepted>>
        /\ call'.op = "run" /\ call'.pc = "implement" /\ call'.attempt = 1
    BY <1>3 DEF ReadDesign, At, TypeOK, Call, git, history
  <2>2. Stage = "idle" /\ Stage' = "implementing" /\ LoopAttempt' = 1
    BY <2>1 DEF Stage, LoopAttempt, At, Free, NoCall
  <2> QED
    BY <2>1, <2>2 DEF Loop!Next, Loop!Begin, LoopAttempt
<1>4. CASE Implement
  <2>1. /\ call.op = "run" /\ call.pc = "implement" /\ accepted' = accepted
        /\ call'.op = "run" /\ call'.pc = "verify" /\ call'.attempt = call.attempt
    BY <1>4 DEF Implement, At, Goto, TypeOK, Call, history
  <2>2. Stage = "implementing" /\ Stage' = "verifying" /\ LoopAttempt' = LoopAttempt
    BY <2>1 DEF Stage, LoopAttempt, At, Free, NoCall
  <2> QED
    BY <2>1, <2>2 DEF Loop!Next, Loop!Implement, LoopAttempt, TypeOK
<1>5. CASE ImplementFails \/ VerifyFails
  <2>1. /\ call.op = "run" /\ call.pc \in {"implement", "verify"} /\ accepted' = accepted
        /\ call'.op = "run" /\ call'.pc = "close" /\ (call.pc = "verify" => tree' = tree)
    BY <1>5 DEF ImplementFails, VerifyFails, At, Goto, TypeOK, Call, git, history
  <2>2. Stage' = "failed" /\ LoopAttempt' = 0
    BY <2>1 DEF Stage, LoopAttempt, At, Free, NoCall
  <2>3. Stage = IF call.pc = "implement" THEN "implementing" ELSE "verifying"
    BY <2>1 DEF Stage, At, Free, NoCall
  <2> QED
    BY <2>1, <2>2, <2>3, FailStep
<1>6. CASE Passed
  <2>1. /\ call.op = "run" /\ call.pc = "verify" /\ accepted' = accepted \cup {tree} /\ tree' = tree
        /\ call' = NoCall /\ outcome' = "passed"
    BY <1>6 DEF Passed, At, git
  <2>2. Stage = "verifying"
    BY <2>1 DEF Stage, At, Free, NoCall
  <2>3. Stage' = "passed" /\ LoopAttempt' = 0
    BY <2>1 DEF Stage, LoopAttempt, At, Free, NoCall
  <2> QED
    BY <2>1, <2>2, <2>3 DEF Loop!Next, Loop!Pass, LoopAttempt
<1>7. CASE ChangesRequested
  <2>1. /\ call.op = "run" /\ call.pc = "verify" /\ UNCHANGED <<tree, accepted>> /\ call'.op = "run"
    BY <1>7 DEF ChangesRequested, At, TypeOK, Call, git, history
  <2>2. Stage = "verifying" /\ LoopAttempt = call.attempt
    BY <2>1 DEF Stage, LoopAttempt, At, Free, NoCall
  <2>3. CASE call.attempt < Limit
    <3>1. call'.pc = "implement" /\ call'.attempt = call.attempt + 1
      BY <1>7, <2>3 DEF ChangesRequested, TypeOK, Call
    <3>2. Stage' = "implementing" /\ LoopAttempt' = LoopAttempt + 1
      BY <2>1, <2>2, <3>1 DEF Stage, LoopAttempt, At, Free, NoCall
    <3> QED
      BY <2>1, <2>2, <2>3, <3>2 DEF Loop!Next, Loop!Refuse, LoopAttempt
  <2>4. CASE ~(call.attempt < Limit)
    <3>1. call'.pc = "close"
      BY <1>7, <2>4 DEF ChangesRequested, TypeOK, Call
    <3>2. Stage' = "failed" /\ LoopAttempt' = 0
      BY <2>1, <3>1 DEF Stage, LoopAttempt, At, Free, NoCall
    <3> QED
      BY <2>1, <2>2, <3>2, FailStep
  <2> QED
    BY <2>3, <2>4
<1>8. CASE CloseAfterFailure
  <2>1. /\ call.op = "run" /\ call.pc = "close" /\ accepted' = accepted
        /\ call' = NoCall /\ outcome' \in {"failed", "running"}
    BY <1>8 DEF CloseAfterFailure, At, CallInv, history
  <2>2. Stage = "failed"
    BY <2>1 DEF Stage, At, Free, NoCall
  <2>3. Stage' \in {"failed", "idle"} /\ LoopAttempt' = 0
    BY <2>1 DEF Stage, LoopAttempt, At, Free, NoCall
  <2> QED
    BY <2>1, <2>2, <2>3, BetweenStep
<1> QED
  BY <1>1, <1>2, <1>3, <1>4, <1>5, <1>6, <1>7, <1>8 DEF RunStep

LEMMA LoopOutside ==
  ASSUME TypeOK', CallInv, CallInv', call.op # "run", accepted' = accepted,
         \/ /\ call'.op # "run"
            /\ \/ outcome' = outcome /\ (call'.op = "none" <=> call.op = "none")
               \/ outcome = "passed" /\ outcome' = "passed"
               \/ outcome' = "published"
         \/ call'.op = "run" /\ call'.pc = "start"
  PROVE  Loop!Next
<1>1. Stage \in {"idle", "passed", "failed"}
  BY DEF Stage, At
<1>2. LoopAttempt' = 0
  BY DEF LoopAttempt, At
<1>3. Stage' \in {Stage, "idle"}
  <2>1. CASE call'.op = "run" /\ call'.pc = "start"
    BY <2>1 DEF Stage, At, Free, NoCall
  <2>2. CASE call'.op # "run" /\ outcome' = "published"
    BY <2>2 DEF Stage, At, Free
  <2>3. CASE call'.op # "run" /\ outcome = "passed" /\ outcome' = "passed"
    BY <2>3 DEF Stage, At, Free
  <2>4. CASE call'.op # "run" /\ outcome' = outcome /\ (call'.op = "none" <=> call.op = "none")
    <3>1. Free <=> Free'
      BY <2>4 DEF Free, CallInv, NoCall
    <3> QED
      BY <2>4, <3>1 DEF Stage, At
  <2> QED
    BY <2>1, <2>2, <2>3, <2>4
<1> QED
  BY <1>1, <1>2, <1>3, BetweenStep

LEMMA LoopStep == IInv /\ IInv' /\ [Next]_vars => [Loop!Next]_(Loop!vars)
<1> SUFFICES ASSUME IInv, IInv', [Next]_vars
             PROVE  Loop!Next \/ UNCHANGED Loop!vars
  OBVIOUS
<1> USE DEF IInv
<1>1. CASE RunStep
  BY <1>1, LoopRunStep
<1>2. CASE PublishStep
  <2>1. call.op = "publish" /\ outcome = "passed" /\ accepted' = accepted
    BY <1>2
       DEF PublishStep, Commit, LookAtOrigin, Rebase, RebaseConflicts, Push, OpenPullRequest, PublishFails, At, CallInv,
           history
  <2>2. call'.op # "run" /\ outcome' \in {"passed", "published"}
    <3>1. CASE Commit \/ LookAtOrigin \/ Rebase \/ Push
      BY <2>1, <3>1 DEF Commit, LookAtOrigin, Rebase, Push, Goto, TypeOK, Call
    <3>2. CASE RebaseConflicts \/ OpenPullRequest \/ PublishFails
      BY <2>1, <3>2 DEF RebaseConflicts, OpenPullRequest, PublishFails, NoCall
    <3> QED
      BY <1>2, <3>1, <3>2 DEF PublishStep
  <2>3. CASE outcome' = "passed"
    BY <2>1, <2>2, <2>3, LoopOutside
  <2>4. CASE outcome' = "published"
    BY <2>1, <2>2, <2>4, LoopOutside
  <2> QED
    BY <2>2, <2>3, <2>4
<1>3. CASE Run \/ Reset
  <2>1. call.op # "run" /\ accepted' = accepted
    BY <1>3 DEF Run, Reset, Free, NoCall, history
  <2>2. CASE Run
    <3>1. call'.op = "run" /\ call'.pc = "start"
      BY <2>2 DEF Run, NoCall
    <3> QED
      BY <2>1, <3>1, LoopOutside
  <2>3. CASE Reset
    <3>1. call'.op = "run" /\ call'.pc = "start"
      BY <2>3 DEF Reset
    <3> QED
      BY <2>1, <3>1, LoopOutside
  <2> QED
    BY <1>3, <2>2, <2>3
<1>4. CASE ResetFails
  <2>1. call.op # "run" /\ UNCHANGED <<call, outcome, accepted>>
    BY <1>4 DEF ResetFails, Free, NoCall, history
  <2>2. call'.op # "run" /\ outcome' = outcome /\ (call'.op = "none" <=> call.op = "none")
    BY <2>1
  <2> QED
    BY <2>1, <2>2, LoopOutside
<1>5. CASE Publish
  <2>1. /\ call.op # "run" /\ call'.op # "run" /\ outcome = "passed" /\ outcome' = "passed" /\ accepted' = accepted
    BY <1>5 DEF Publish, Free, NoCall, history
  <2> QED
    BY <2>1, LoopOutside
<1>6. CASE Leave
  <2>1. call' = NoCall /\ call'.op = "none" /\ UNCHANGED <<outcome, accepted, tree>>
    BY <1>6 DEF Leave, NoCall, git, history
  <2>2. CASE call.op = "run"
    <3>1. outcome' = "running" /\ Stage' = "idle" /\ LoopAttempt' = 0
      BY <2>1, <2>2 DEF CallInv, Stage, LoopAttempt, At, Free, NoCall
    <3>2. Stage \in {"idle", "implementing", "verifying", "failed"}
      BY <2>2 DEF Stage, At
    <3> QED
      BY <2>1, <3>1, <3>2, BetweenStep, FailStep
  <2>3. CASE call.op = "publish"
    BY <2>1, <2>3, LoopOutside DEF CallInv
  <2>4. CASE call.op = "none"
    <3>1. call'.op # "run" /\ outcome' = outcome /\ (call'.op = "none" <=> call.op = "none")
      BY <2>1, <2>4
    <3> QED
      BY <2>1, <2>4, <3>1, LoopOutside
  <2> QED
    BY <2>2, <2>3, <2>4 DEF TypeOK, Call
<1>7. CASE Launch \/ Cancel \/ Environment \/ UNCHANGED vars
  <2>1. UNCHANGED <<call, outcome, accepted, tree>>
    BY <1>7
       DEF Launch, Cancel, Environment, AgentDies, TheyPush, TheyRemove, vars, git, history
  <2> QED
    BY <2>1 DEF Loop!vars, Stage, At, Free
<1> QED
  BY <1>1, <1>2, <1>3, <1>4, <1>5, <1>6, <1>7 DEF Next, Controller, Life, Exit, Crash

\* The engine returns a result only as its verifier passed it, and asks the
\* implementer at most Limit times, for every loop count (engine.go 70-147).
THEOREM ImplementsLoop == Spec => LoopSpec
<1>1. Init => Loop!Init
  BY LoopInit
<1>2. IInv /\ IInv' /\ [Next]_vars => [Loop!Next]_(Loop!vars)
  BY LoopStep
<1> QED
  BY <1>1, <1>2, Inductive, PTL DEF Spec, LoopSpec, Loop!Spec
=============================================================================
