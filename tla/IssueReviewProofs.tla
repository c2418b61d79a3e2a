--------------------------- MODULE IssueReviewProofs ---------------------------
(***************************************************************************)
(* Proofs about the workflow of an issue, for every set of labels and of   *)
(* faults and for any number of jobs and selections.                       *)
(*                                                                         *)
(* The argument is that of a token: a pending result, a failure, an input  *)
(* that is on its way to a tracked job, a tracked job and a result that is *)
(* being saved exclude each other.  Whoever holds the token decides which  *)
(* phase the controller is in and what the database says.                  *)
(***************************************************************************)
EXTENDS IssueReview, TLAPS

Approving == input.pc \in {"approving", "posted", "published"}
Submitting == input.pc = "start" /\ input.prompt # "free"
Saving == work.pc \in {"saving", "saved"}
Busy == jobs # {} \/ Saving

\* Who holds the token.
TokenInv ==
  /\ \A i, j \in jobs : i = j
  /\ Busy => ~pending /\ ~failed /\ ~Approving /\ ~Submitting
  /\ Saving => jobs = {}
  /\ ~(pending /\ failed)
  /\ Approving => pending
  /\ Submitting => ~pending /\ ~failed
  /\ input.pc = "tracked" => input.id \in jobs

\* A text of the operator is never expected, so it is never tracked.
FreeInv ==
  /\ prompts["free"] = 0
  /\ failed => failedPrompt # "free"
  /\ input.pc = "tracked" => /\ input.prompt # "free" /\ input.id # work.id
                             /\ \A i \in 1 .. Len(queue) : queue[i].id # input.id
  /\ work.id \in jobs => work.prompt # "free"
  /\ \A i \in 1 .. Len(queue) : queue[i].id \in jobs => queue[i].prompt # "free"
  /\ work.id <= lastJob
  /\ \A i \in 1 .. Len(queue) : queue[i].id <= lastJob
  /\ \A j \in jobs : j <= lastJob

\* The phases, and that nothing is left of a process that has ended.
PhaseInv ==
  /\ cPhase = wPhase
  /\ wPhase \in Stages \cup Ready
  /\ wPhase \in Ready => pending /\ ~Approving
  /\ proc = "off" => /\ ~Busy /\ ~pending /\ ~failed /\ wPhase = "design"
                     /\ input.pc = "idle" /\ queue = <<>> /\ work.pc = "idle"

\* What the database and the files say while the token is held.
StoreInv ==
  /\ Busy /\ input.pc # "tracked" => db = StartState(wPhase)
  /\ Saving => work.id \in JobIds
  /\ work.pc = "saved" => artifact[ArtifactOf(wPhase)] = work.id
  /\ ReviewedResultIsSaved
  /\ Stored \in Ready => artifact[Stage(Stored)] # Torn
  /\ db = "none" => \A s \in Stages : artifact[s] = 0

\* The design that is implemented is on the issue.
Posted == posted # 0 /\ posted = artifact["design"]
PostInv ==
  /\ label = "none" =>
       /\ db # "failed"
       /\ Stage(wPhase) = "implementation" => Posted
       /\ Stage(Classify(db)) = "implementation" => Posted
  /\ input.pc = "posted" => wPhase = "design" /\ Posted

\* Jobs are queued and run in the order of their ids.
OrderInv ==
  /\ \A i, j \in 1 .. Len(queue) : i < j => queue[i].id < queue[j].id
  /\ \A i \in 1 .. Len(queue) : work.id < queue[i].id
  /\ input.pc = "tracked" => input.id = lastJob

\* A job of the engine that is not tracked: a load that finds the ready state but no
\* artifact submits one.  As long as there is one, there is nothing to review.
Stray ==
  \/ Submitting /\ prompts[input.prompt] = 0
  \/ \E i \in 1 .. Len(queue) : queue[i].execute /\ queue[i].id \notin jobs
  \/ work.pc = "running" /\ work.execute /\ work.id \notin jobs
Calm == jobs = {} /\ ~Saving /\ ~pending /\ ~failed /\ (Submitting => prompts[input.prompt] = 0)
StrayInv == Stray => Calm

\* The jobs of the implementation are the engine's, and the worktree, once this
\* process knows it, has the files of the job whose result is saved and reviewed.
FilesInv ==
  /\ Submitting \/ input.pc = "tracked" => (input.execute <=> wPhase = "implementation")
  /\ input.pc = "start" /\ input.prompt = "free" => ~input.execute
  /\ \A i \in 1 .. Len(queue) : queue[i].id \in jobs => (queue[i].execute <=> wPhase = "implementation")
  /\ work.id \in jobs \/ Saving => (work.execute <=> wPhase = "implementation")
  /\ (work.pc = "succeeded" \/ Saving) /\ work.execute => worktree = work.id
  /\ pending /\ Stage(wPhase) = "implementation" => worktree \in {0, result}

\* The files that are published are those of the job that was reviewed.
Published == described # 0 /\ pushed # 0 /\ pushed = artifact["implementation"]
PublishInv ==
  /\ input.pc = "published" => wPhase = "implementation" /\ Published
  /\ db = "pr_created" =>
       /\ Published
       /\ ~Busy /\ ~pending /\ ~failed /\ proc \in {"off", "closed"} /\ input.pc = "idle"

IInv == TypeOK /\ TokenInv /\ FreeInv /\ PhaseInv /\ StoreInv /\ PostInv
        /\ OrderInv /\ StrayInv /\ FilesInv /\ PublishInv

LEMMA JobIdsNat == JobIds \subseteq Nat /\ 0 \notin JobIds /\ Torn \in Nat /\ Torn \notin JobIds /\ Torn # 0
BY IssueReviewAssumption DEF JobIds, Torn

\* Where a goroutine can be.
LEMMA Places ==
  /\ Idle \in Place(InputPlaces) /\ Idle \in Place(WorkPlaces)
  /\ \A prompt \in Prompts, execute \in BOOLEAN : Start(prompt, execute) \in Place(InputPlaces)
BY IssueReviewAssumption DEF Idle, Start, Place, InputPlaces, WorkPlaces, Prompts

LEMMA Move ==
  ASSUME TypeOK
  PROVE  /\ \A pc \in InputPlaces : [input EXCEPT !.pc = pc] \in Place(InputPlaces)
         /\ \A pc \in WorkPlaces : [work EXCEPT !.pc = pc] \in Place(WorkPlaces)
BY DEF Place, TypeOK

LEMMA InitInv == Init => IInv
<1> SUFFICES ASSUME Init PROVE IInv
  OBVIOUS
<1> USE IssueReviewAssumption, LabelsAssumption DEF Init
<1>1. /\ proc = "off" /\ wPhase \in Phases /\ db \in States /\ label \in States
      /\ prompts \in [Prompts -> Nat] /\ 0 \in Version /\ "free" \in Prompts
  BY DEF States, Stages, Phases, Version, Torn, NoPrompts, Prompts, Ready
<1>2. artifact \in [Stages -> Version] /\ lastJob \in 0 .. MaxJob /\ starts \in 0 .. MaxStart
      /\ queue \in Seq(Job)
  BY <1>1
<1>3. TypeOK
  BY <1>1, <1>2, Places DEF TypeOK, Phases, Stages
<1>4. TokenInv
  BY DEF TokenInv, Busy, Saving, Approving, Submitting, Idle
<1>5. FreeInv
  BY DEF FreeInv, NoPrompts, Prompts, Idle
<1>6. PhaseInv
  BY DEF PhaseInv, Busy, Saving, Stages, Idle, Ready
<1>7. StoreInv
  BY JobIdsNat DEF StoreInv, Busy, Saving, ReviewedResultIsSaved, Stored, Stage, Stages, Idle
<1>8. PostInv /\ PublishInv
  BY DEF PostInv, PublishInv, Stage, Classify, Ready, Failed, Idle
<1>9. OrderInv /\ StrayInv /\ FilesInv
  BY DEF OrderInv, StrayInv, Stray, FilesInv, Submitting, Saving, Idle
<1> QED
  BY <1>3, <1>4, <1>5, <1>6, <1>7, <1>8, <1>9 DEF IInv

-----------------------------------------------------------------------------
(* Types *)

LEMMA StateTypes ==
  /\ \A phase \in Phases : StartState(phase) \in States /\ ReadyState(phase) \in States
                          /\ FailedState(phase) \in States /\ Stage(phase) \in Stages
                          /\ ArtifactOf(phase) \in Stages /\ PromptOf(phase) \in Prompts
  /\ \A state \in States : Classify(state) \in Phases \cup {"failed"}
  /\ \A phase \in Phases \cup {"failed"} : StateForPhase(phase) \in States
  /\ Stages \subseteq Phases
BY DEF StartState, ReadyState, FailedState, Stage, ArtifactOf, PromptOf, Classify, StateForPhase,
       States, Phases, Stages, Ready, Failed, Running, Prompts

LEMMA NextType == TypeOK /\ [Next]_vars => TypeOK'
<1> SUFFICES ASSUME TypeOK, [Next]_vars PROVE TypeOK'
  OBVIOUS
<1> USE DEF TypeOK, store, phases, review, controller, daemon
<1> DEFINE words == {"free", "implement", "redesign", "reimplement"}
<1>a. words \subseteq Prompts /\ 0 \in Version /\ Torn \in Version /\ JobIds \subseteq Version
      /\ 0 .. MaxJob \subseteq Version
  BY IssueReviewAssumption DEF Prompts, Version, Torn, JobIds
<1>b. {"approving", "posted", "published", "tracked"} \subseteq InputPlaces
      /\ {"saving", "saved", "succeeded", "failing", "running"} \subseteq WorkPlaces
  BY DEF InputPlaces, WorkPlaces
<1>c. input.prompt \in Prompts /\ input.execute \in BOOLEAN /\ input.id \in 0 .. MaxJob
      /\ work.id \in 0 .. MaxJob /\ work.prompt \in Prompts
  BY DEF Place
<1>d. \A p \in Prompts, n \in Nat : [prompts EXCEPT ![p] = n] \in [Prompts -> Nat]
  OBVIOUS
<1>e. \A p \in Prompts : prompts[p] \in Nat
  OBVIOUS
<1>f. \A n \in Nat : n + 1 \in Nat /\ (n > 0 => n - 1 \in Nat)
  OBVIOUS
<1>g. lastJob < MaxJob => lastJob + 1 \in 0 .. MaxJob /\ lastJob + 1 \in JobIds
  BY IssueReviewAssumption DEF JobIds
<1>h. 0 \in 0 .. MaxJob
  BY IssueReviewAssumption
<1> HIDE DEF words
<1>1. CASE Operator
  <2>1. CASE Approve
    BY <2>1, <1>b, Move, StateTypes DEF Approve, Reads, LeaveReady
  <2>2. CASE Revise
    <3> DEFINE stage == Stage(cPhase)
               prompt == IF stage = "implementation" THEN "reimplement" ELSE "redesign"
    <3>1. prompt \in Prompts
      BY DEF Prompts
    <3>2. /\ prompts' = [prompts EXCEPT ![prompt] = prompts[prompt] + 1]
          /\ input' = Start(prompt, stage = "implementation")
      BY <2>2 DEF Revise
    <3> HIDE DEF prompt
    <3>3. prompts' \in [Prompts -> Nat] /\ input' \in Place(InputPlaces)
      BY <3>1, <3>2, <1>d, <1>e, <1>f, Places
    <3> QED
      BY <2>2, <3>3, <1>a, StateTypes DEF Revise, Reads, LeaveReady
  <2>3. CASE Retry
    <3>1. prompts' \in [Prompts -> Nat] /\ input' \in Place(InputPlaces)
      BY <2>3, <1>d, <1>e, <1>f, Places DEF Retry
    <3> QED
      BY <2>3, <3>1, <1>a DEF Retry, Reads, words
  <2>4. CASE FreeText
    BY <2>4, <1>a, Places DEF FreeText, Reads, words
  <2> QED
    BY <1>1, <2>1, <2>2, <2>3, <2>4 DEF Operator
<1>2. CASE InputStep
  <2>1. CASE PostDesign
    BY <2>1, <1>b, Move, StateTypes DEF PostDesign
  <2>2. CASE PostFails
    BY <2>2, Places, StateTypes DEF PostFails, GiveUpApproval
  <2>3. CASE Publish
    BY <2>3, <1>a, <1>b, Move, StateTypes DEF Publish, Push, Describe
  <2>4. CASE PublishFails
    <3>1. pushed' \in Version /\ described' \in Version
      BY <2>4, <1>a, StateTypes DEF PublishFails, Push, Describe
    <3> QED
      BY <2>4, <3>1, Places DEF PublishFails, GiveUpApproval
  <2>5. CASE DesignApproved
    <3>1. prompts' \in [Prompts -> Nat]
      BY <2>5, <1>a, <1>d, <1>e, <1>f DEF DesignApproved, words
    <3>2. input' \in Place(InputPlaces)
      BY <2>5, <1>a, Places DEF DesignApproved, words
    <3>3. "design_approved" \in States /\ "implementation" \in Stages
      BY DEF States, Stages
    <3> QED
      BY <2>5, <3>1, <3>2, <3>3, <1>a, StateTypes DEF DesignApproved, SetState
  <2>6. CASE ImplementationApproved
    BY <2>6, <1>a, Places DEF ImplementationApproved, SetState, States
  <2>7. CASE ApprovalNotRecorded
    BY <2>7, Places DEF ApprovalNotRecorded, SetStateFails
  <2>8. CASE PrepareFails
    BY <2>8, <1>g, Places DEF PrepareFails
  <2>9. CASE SubmitUntracked
    <3>1. [id |-> lastJob + 1, prompt |-> input.prompt, execute |-> input.execute] \in Job
      BY <2>9, <1>c, <1>g DEF SubmitUntracked, Job
    <3> QED
      BY <2>9, <3>1, <1>g, Places DEF SubmitUntracked
  <2>10. CASE Track
    <3>1. prompts' \in [Prompts -> Nat]
      BY <2>10, <1>c, <1>d, <1>e, <1>f DEF Track
    <3>2. jobs' \in SUBSET JobIds /\ lastJob' \in 0 .. MaxJob
      BY <2>10, <1>g DEF Track
    <3>3. input' \in Place(InputPlaces)
      BY <2>10, <1>b, <1>g DEF Track, Place
    <3> QED
      BY <2>10, <3>1, <3>2, <3>3 DEF Track
  <2>11. CASE Submit
    <3>1. [id |-> input.id, prompt |-> input.prompt, execute |-> input.execute] \in Job
      BY <1>c DEF Job
    <3>2. queue' \in Seq(Job)
      BY <2>11, <3>1 DEF Submit
    <3>3. db' \in States /\ lost' \in BOOLEAN
      BY <2>11, StateTypes DEF Submit, SetState
    <3> QED
      BY <2>11, <3>2, <3>3, Places DEF Submit
  <2>12. CASE StartFails
    <3>1. prompts' \in [Prompts -> Nat]
      BY <2>12, <1>c, <1>d, <1>e, <1>f DEF StartFails
    <3> QED
      BY <2>12, <3>1, Places, StateTypes DEF StartFails, SetState, SetStateFails
  <2> QED
    BY <1>2, <2>1, <2>2, <2>3, <2>4, <2>5, <2>6, <2>7, <2>8, <2>9, <2>10, <2>11, <2>12 DEF InputStep
<1>3. CASE WorkerStep
  <2>1. CASE TakeJob
    <3>1. Head(queue) \in Job /\ Tail(queue) \in Seq(Job)
      BY <2>1 DEF TakeJob
    <3> QED
      BY <2>1, <3>1, <1>b DEF TakeJob, Place, Job
  <2>2. ASSUME NEW outcome \in {"succeeded", "failing"}, JobEnds(outcome) PROVE TypeOK'
    BY <2>2, <1>b, <1>c, Move DEF JobEnds
  <2>3. CASE IgnoreResult
    BY <2>3, Places DEF IgnoreResult
  <2>4. CASE ReadyNotRecorded \/ FailureNotRecorded
    BY <2>4, Places DEF ReadyNotRecorded, FailureNotRecorded, SetStateFails
  <2>5. CASE BeginSave
    BY <2>5, <1>a, <1>b, Move, StateTypes DEF BeginSave
  <2>6. CASE EndSave
    BY <2>6, <1>a, <1>b, <1>c, Move, StateTypes DEF EndSave
  <2>7. CASE SaveFails
    BY <2>7, Places, StateTypes DEF SaveFails, SetState, SetStateFails
  <2>8. CASE ReviewResult
    BY <2>8, <1>a, <1>c, Places, StateTypes DEF ReviewResult, SetState
  <2>9. CASE OfferRetry
    BY <2>9, <1>c, Places, StateTypes DEF OfferRetry, SetState
  <2> QED
    BY <1>3, <2>1, <2>2, <2>3, <2>4, <2>5, <2>6, <2>7, <2>8, <2>9 DEF WorkerStep
<1>4. CASE Life
  <2>1. CASE Launch
    <3>1. label \in States
      BY LabelsAssumption
    <3>2. Stored \in States
      BY <3>1, StateTypes DEF Stored
    <3>3. LoadedPhases \subseteq Phases
      BY <3>2, StateTypes DEF LoadedPhases, Phases
    <3> DEFINE saved(phase) == IF phase \in Ready THEN artifact[ArtifactOf(phase)] ELSE 0
               now(phase) == IF saved(phase) # 0 THEN phase ELSE Stage(phase)
               retry(phase) == phase \in Failed
               expected(phase) == [NoPrompts EXCEPT ![PromptOf(phase)] = 1]
    <3>4. PICK phase \in LoadedPhases :
            /\ wPhase' = now(phase) /\ cPhase' = now(phase)
            /\ prompts' = IF retry(phase) THEN [expected(phase) EXCEPT ![PromptOf(now(phase))] = 0]
                          ELSE expected(phase)
            /\ failed' = retry(phase)
            /\ failedPrompt' = IF retry(phase) THEN PromptOf(phase) ELSE "free"
            /\ pending' = (saved(phase) # 0)
            /\ result' = saved(phase)
            /\ input' = IF retry(phase) \/ saved(phase) # 0 THEN Idle
                        ELSE Start(PromptOf(now(phase)), now(phase) = "implementation")
      BY <2>1 DEF Launch
    <3>5. phase \in Phases /\ now(phase) \in Phases /\ saved(phase) \in Version
      BY <3>3, <1>a, StateTypes DEF Phases
    <3>6. expected(phase) \in [Prompts -> Nat]
      BY StateTypes, <3>3 DEF NoPrompts
    <3> HIDE DEF saved, now, expected
    <3>7. wPhase' \in Phases /\ cPhase' \in Phases /\ result' \in Version /\ pending' \in BOOLEAN
      BY <3>4, <3>5
    <3>8. input' \in Place(InputPlaces)
      BY <3>4, <3>5, Places, StateTypes
    <3>9. prompts' \in [Prompts -> Nat]
      BY <3>4, <3>6
    <3>10. failed' \in BOOLEAN /\ failedPrompt' \in Prompts
      BY <3>4, <3>5, <1>a, StateTypes DEF words
    <3>11. starts' \in 0 .. MaxStart
      BY <2>1, IssueReviewAssumption DEF Launch
    <3> QED
      BY <2>1, <3>2, <3>7, <3>8, <3>9, <3>10, <3>11, <1>h DEF Launch
  <2>2. CASE Cancel \/ Close
    BY <2>2 DEF Cancel, Close
  <2>3. CASE Exit \/ Crash
    <3>1. Forget
      BY <2>3 DEF Exit, Crash
    <3>2. NoPrompts \in [Prompts -> Nat] /\ <<>> \in Seq(Job) /\ "design" \in Stages
      BY DEF NoPrompts, Stages
    <3>3. lost' \in BOOLEAN
      BY <2>3 DEF Exit, Crash
    <3> QED
      BY <3>1, <3>2, <3>3, <1>a, <1>h, Places, StateTypes DEF Forget, words
  <2> QED
    BY <1>4, <2>1, <2>2, <2>3 DEF Life
<1>5. CASE UNCHANGED vars
  BY <1>5 DEF vars
<1> QED
  BY <1>1, <1>2, <1>3, <1>4, <1>5 DEF Next

\* Every reachable state is of its type.
THEOREM TypeCorrect == Spec => []TypeOK
<1>1. Init => TypeOK
  BY InitInv DEF IInv
<1> QED
  BY <1>1, NextType, PTL DEF Spec

-----------------------------------------------------------------------------
(* The tests of the phase, which the code repeats in different forms, agree *)

LEMMA StageFacts ==
  \A s \in Stages :
    /\ ArtifactOf(s) = s /\ Stage(s) = s
    /\ StartState(s) \in Running /\ Stage(Classify(StartState(s))) = s
    /\ FailedState(s) \in Failed /\ Stage(Classify(FailedState(s))) = s
    /\ ReadyState(s) \in Ready /\ Stage(ReadyState(s)) = s /\ Stage(Classify(ReadyState(s))) = s
BY DEF Stages, ArtifactOf, Stage, StartState, FailedState, ReadyState, Running, Ready, Failed, Classify

LEMMA ReadyFacts ==
  \A p \in Ready : /\ Stage(p) \in Stages /\ Stage(Stage(p)) = Stage(p) /\ ArtifactOf(p) = Stage(p)
                   /\ Classify(p) = p
BY DEF Stages, Ready, Stage, ArtifactOf, Classify

LEMMA StateFacts ==
  /\ \A state \in States : Classify(state) \in Ready => state = Classify(state)
  /\ \A state \in States : Classify(state) = "failed" => state = "failed"
  /\ StateForPhase(Classify("none")) = "detected"
  /\ \A state \in States : StateForPhase(Classify(state)) # "none"
  /\ \A phase \in Phases : PromptOf(phase) # "free" /\ Stage(phase) \in Stages
BY DEF States, Classify, StateForPhase, PromptOf, Phases, Stages, Ready, Failed, Running, Stage

\* What a selection starts from.
LEMMA LaunchFacts ==
  ASSUME TypeOK, Launch
  PROVE  /\ Stored \in States /\ db' = Stored /\ db' # "none"
         /\ \E phase \in LoadedPhases :
              /\ phase \in Phases
              /\ cPhase' = wPhase'
              /\ failed' = (phase \in Failed)
              /\ failed' => failedPrompt' = PromptOf(phase)
              /\ pending' = (result' # 0)
              /\ pending' => /\ phase \in Ready /\ wPhase' = phase
                             /\ result' = artifact[ArtifactOf(phase)]
              /\ ~pending' => wPhase' = Stage(phase) /\ wPhase' \in Stages
              /\ prompts'["free"] = 0
              /\ input'.pc = IF pending' \/ failed' THEN "idle" ELSE "start"
<1>1. Stored \in States
  BY LabelsAssumption, StateTypes DEF Stored, TypeOK
<1>2. LoadedPhases \subseteq Phases
  BY <1>1, StateTypes DEF LoadedPhases, Phases
<1> DEFINE saved(phase) == IF phase \in Ready THEN artifact[ArtifactOf(phase)] ELSE 0
           now(phase) == IF saved(phase) # 0 THEN phase ELSE Stage(phase)
           retry(phase) == phase \in Failed
           expected(phase) == [NoPrompts EXCEPT ![PromptOf(phase)] = 1]
<1>3. PICK phase \in LoadedPhases :
        /\ wPhase' = now(phase) /\ cPhase' = now(phase)
        /\ prompts' = IF retry(phase) THEN [expected(phase) EXCEPT ![PromptOf(now(phase))] = 0]
                      ELSE expected(phase)
        /\ failed' = retry(phase)
        /\ failedPrompt' = IF retry(phase) THEN PromptOf(phase) ELSE "free"
        /\ pending' = (saved(phase) # 0)
        /\ result' = saved(phase)
        /\ input' = IF retry(phase) \/ saved(phase) # 0 THEN Idle
                    ELSE Start(PromptOf(now(phase)), now(phase) = "implementation")
  BY DEF Launch
<1>4. phase \in Phases /\ now(phase) \in Phases /\ Stage(phase) \in Stages
  BY <1>2, StateTypes DEF Phases
<1>5. expected(phase)["free"] = 0 /\ prompts'["free"] = 0
  <2>1. "free" \in Prompts /\ PromptOf(phase) # "free" /\ PromptOf(now(phase)) # "free"
    BY <1>4, StateFacts DEF Prompts
  <2> HIDE DEF now
  <2>2. expected(phase)["free"] = 0 /\ expected(phase) \in [Prompts -> Nat]
    BY <2>1 DEF NoPrompts
  <2> QED
    BY <1>3, <2>1, <2>2
<1>6. input'.pc = IF pending' \/ failed' THEN "idle" ELSE "start"
  BY <1>3 DEF Idle, Start
<1>7. pending' => phase \in Ready
  BY <1>3
<1>8. db' = Stored /\ db' # "none"
  BY StateFacts, LabelsAssumption DEF Launch, Stored, TypeOK
<1> HIDE DEF expected
<1> QED
  BY <1>1, <1>3, <1>4, <1>5, <1>6, <1>7, <1>8

\* The job that a selection submits at once is the engine's in the implementation.
LEMMA LaunchInput ==
  ASSUME TypeOK, Launch, input'.pc = "start"
  PROVE  input'.prompt # "free" /\ (input'.execute <=> wPhase' = "implementation")
<1>1. Stored \in States
  BY LabelsAssumption, StateTypes DEF Stored, TypeOK
<1>2. LoadedPhases \subseteq Phases
  BY <1>1, StateTypes DEF LoadedPhases, Phases
<1>3. PICK phase \in LoadedPhases :
        \E now \in {phase, Stage(phase)} :
          /\ wPhase' = now
          /\ input' = Idle \/ input' = Start(PromptOf(now), now = "implementation")
  BY DEF Launch
<1>6. PICK now \in {phase, Stage(phase)} :
        /\ wPhase' = now
        /\ input' = Idle \/ input' = Start(PromptOf(now), now = "implementation")
  BY <1>3
<1>4. phase \in Phases /\ now \in Phases
  BY <1>2, StateTypes DEF Phases
<1>5. PromptOf(now) # "free"
  BY <1>4, StateFacts
<1>7. input' = Start(PromptOf(now), now = "implementation")
  BY <1>6 DEF Idle
<1>8. input'.prompt = PromptOf(now) /\ input'.execute = (now = "implementation")
  BY <1>7 DEF Start
<1> QED
  BY <1>5, <1>6, <1>8

-----------------------------------------------------------------------------
(* The token *)

LEMMA NextToken == IInv /\ [Next]_vars => TokenInv'
<1> SUFFICES ASSUME IInv, [Next]_vars PROVE TokenInv'
  OBVIOUS
<1>t. TokenInv /\ FreeInv /\ PhaseInv
  BY DEF IInv
<1>p. input \in Place(InputPlaces) /\ work \in Place(WorkPlaces) /\ jobs \subseteq JobIds
  BY DEF IInv, TypeOK
<1>q. queue # <<>> => Head(queue) = queue[1] /\ Len(queue) >= 1
  BY DEF IInv, TypeOK
<1> USE <1>t, <1>p DEF TokenInv, Busy, Saving, Approving, Submitting, Place, phases, review, controller,
        daemon, Idle, Start
<1>1. CASE Operator
  <2>1. CASE Approve
    BY <2>1 DEF Approve, Reads
  <2>2. CASE Revise
    BY <2>2 DEF Revise, Reads
  <2>3. CASE Retry
    BY <2>3 DEF Retry, Reads
  <2>4. CASE FreeText
    BY <2>4 DEF FreeText, Reads
  <2> QED
    BY <1>1, <2>1, <2>2, <2>3, <2>4 DEF Operator
<1>2. CASE InputStep
  <2>1. CASE PostDesign \/ Publish
    BY <2>1 DEF PostDesign, Publish
  <2>2. CASE PostFails \/ PublishFails
    BY <2>2 DEF PostFails, PublishFails, GiveUpApproval
  <2>3. CASE DesignApproved
    BY <2>3 DEF DesignApproved
  <2>4. CASE ImplementationApproved \/ ApprovalNotRecorded
    BY <2>4 DEF ImplementationApproved, ApprovalNotRecorded
  <2>5. CASE PrepareFails \/ SubmitUntracked \/ Submit
    BY <2>5 DEF PrepareFails, SubmitUntracked, Submit
  <2>6. CASE Track
    <3>1. Submitting
      BY <2>6 DEF Track, FreeInv
    <3> QED
      BY <2>6, <3>1 DEF Track
  <2>7. CASE StartFails
    BY <2>7 DEF StartFails
  <2> QED
    BY <1>2, <2>1, <2>2, <2>3, <2>4, <2>5, <2>6, <2>7 DEF InputStep
<1>3. CASE WorkerStep
  <2>1. CASE TakeJob
    BY <2>1 DEF TakeJob
  <2>2. ASSUME NEW outcome \in {"succeeded", "failing"}, JobEnds(outcome) PROVE TokenInv'
    BY <2>2 DEF JobEnds
  <2>3. CASE IgnoreResult
    BY <2>3 DEF IgnoreResult
  <2>4. CASE BeginSave
    BY <2>4 DEF BeginSave, FreeInv
  <2>5. CASE EndSave \/ SaveFails \/ ReadyNotRecorded
    BY <2>5 DEF EndSave, SaveFails, ReadyNotRecorded
  <2>6. CASE ReviewResult
    BY <2>6 DEF ReviewResult
  <2>7. CASE OfferRetry \/ FailureNotRecorded
    BY <2>7 DEF OfferRetry, FailureNotRecorded, FreeInv
  <2> QED
    BY <1>3, <2>1, <2>2, <2>3, <2>4, <2>5, <2>6, <2>7 DEF WorkerStep
<1>4. CASE Life
  <2>1. CASE Launch
    BY <2>1, LaunchFacts DEF IInv, PhaseInv, Ready, Failed, Launch
  <2>2. CASE Cancel \/ Close
    BY <2>2 DEF Cancel, Close
  <2>3. CASE Exit \/ Crash
    BY <2>3 DEF Exit, Crash, Forget
  <2> QED
    BY <1>4, <2>1, <2>2, <2>3 DEF Life
<1>5. CASE UNCHANGED vars
  BY <1>5 DEF vars
<1> QED
  BY <1>1, <1>2, <1>3, <1>4, <1>5 DEF Next

-----------------------------------------------------------------------------
(* The prompts and the ids *)

LEMMA NextFree == IInv /\ [Next]_vars => FreeInv'
<1> SUFFICES ASSUME IInv, [Next]_vars PROVE FreeInv'
  OBVIOUS
<1>t. TokenInv /\ FreeInv /\ PhaseInv
  BY DEF IInv
<1>p. /\ input \in Place(InputPlaces) /\ work \in Place(WorkPlaces) /\ jobs \subseteq JobIds
      /\ queue \in Seq(Job) /\ prompts \in [Prompts -> Nat] /\ lastJob \in Nat /\ 0 \notin JobIds
  BY IssueReviewAssumption DEF IInv, TypeOK, JobIds
<1>q. "free" \in Prompts /\ input.prompt \in Prompts
  BY <1>p DEF Prompts, Place
<1>s. /\ work.id \in Nat /\ 0 \notin jobs /\ \A j \in jobs : j \in Nat
      /\ Len(queue) \in Nat /\ \A i \in 1 .. Len(queue) : queue[i].id \in Nat
  <2>1. \A i \in 1 .. Len(queue) : queue[i] \in Job
    BY <1>p
  <2>2. Len(queue) \in Nat
    BY <1>p
  <2>3. work.id \in Nat /\ \A i \in 1 .. Len(queue) : queue[i].id \in Nat
    BY <1>p, <2>1, IssueReviewAssumption DEF Place, Job
  <2>4. \A j \in jobs : j \in Nat
    BY <1>p, IssueReviewAssumption DEF JobIds
  <2> QED
    BY <1>p, <2>2, <2>3, <2>4
<1>u. input.pc = "tracked" => input.id \in jobs
  BY <1>t DEF TokenInv
<1> USE <1>t, <1>p, <1>q DEF FreeInv, phases, review, controller, daemon, Idle, Start
<1>1. CASE Operator
  <2>1. CASE Approve
    BY <2>1 DEF Approve, Reads, Place
  <2>2. CASE Revise
    BY <2>2 DEF Revise, Reads, Prompts
  <2>3. CASE Retry
    BY <2>3 DEF Retry, Reads
  <2>4. CASE FreeText
    BY <2>4 DEF FreeText, Reads
  <2> QED
    BY <1>1, <2>1, <2>2, <2>3, <2>4 DEF Operator
<1>2. CASE InputStep
  <2>1. CASE PostDesign \/ Publish
    BY <2>1 DEF PostDesign, Publish, Place
  <2>2. CASE PostFails \/ PublishFails
    BY <2>2 DEF PostFails, PublishFails, GiveUpApproval
  <2>3. CASE DesignApproved
    BY <2>3 DEF DesignApproved
  <2>4. CASE ImplementationApproved \/ ApprovalNotRecorded
    BY <2>4 DEF ImplementationApproved, ApprovalNotRecorded
  <2>5. CASE PrepareFails
    <3>1. /\ lastJob' = lastJob + 1 /\ input' = Idle
          /\ UNCHANGED <<jobs, prompts, queue, work, failed, failedPrompt>>
      BY <2>5 DEF PrepareFails
    <3> QED
      BY <3>1, <1>s
  <2>6. CASE SubmitUntracked
    <3> DEFINE job == [id |-> lastJob + 1, prompt |-> input.prompt, execute |-> input.execute]
    <3>1. Len(queue') = Len(queue) + 1 /\ queue'[Len(queue) + 1] = job
          /\ \A i \in 1 .. Len(queue) : queue'[i] = queue[i]
      BY <2>6 DEF SubmitUntracked
    <3>2. job.id = lastJob + 1 /\ job.id \notin jobs
      BY <1>s
    <3>3. \A i \in 1 .. Len(queue') : queue'[i] = job \/ (i \in 1 .. Len(queue) /\ queue'[i] = queue[i])
      BY <3>1, <1>s
    <3> HIDE DEF job
    <3> QED
      BY <2>6, <3>2, <3>3, <1>s DEF SubmitUntracked
  <2>7. CASE Track
    <3>1. input.prompt # "free" /\ prompts'["free"] = 0
      BY <2>7 DEF Track
    <3>2. input'.prompt = input.prompt /\ input'.id = lastJob + 1
      BY <2>7 DEF Track, Place
    <3> QED
      BY <2>7, <3>1, <3>2, <1>s DEF Track
  <2>8. CASE Submit
    <3> DEFINE job == [id |-> input.id, prompt |-> input.prompt, execute |-> input.execute]
    <3>1. Len(queue') = Len(queue) + 1 /\ queue'[Len(queue) + 1] = job
          /\ \A i \in 1 .. Len(queue) : queue'[i] = queue[i]
      BY <2>8 DEF Submit
    <3>2. job.id \in jobs /\ job.prompt # "free" /\ job.id <= lastJob
      BY <2>8, <1>u DEF Submit
    <3>3. \A i \in 1 .. Len(queue') : queue'[i] = job \/ (i \in 1 .. Len(queue) /\ queue'[i] = queue[i])
      BY <3>1, <1>s
    <3> HIDE DEF job
    <3> QED
      BY <2>8, <3>2, <3>3, <1>s DEF Submit
  <2>9. CASE StartFails
    BY <2>9 DEF StartFails
  <2> QED
    BY <1>2, <2>1, <2>2, <2>3, <2>4, <2>5, <2>6, <2>7, <2>8, <2>9 DEF InputStep
<1>3. CASE WorkerStep
  <2>1. CASE TakeJob
    <3>1. Len(queue) \in Nat /\ Len(queue) >= 1 /\ Head(queue) = queue[1] /\ Len(queue') = Len(queue) - 1
          /\ \A i \in 1 .. Len(queue') : queue'[i] = queue[i + 1]
      BY <2>1 DEF TakeJob
    <3>2. work'.id = queue[1].id /\ work'.prompt = queue[1].prompt
      BY <2>1, <3>1 DEF TakeJob
    <3> QED
      BY <2>1, <3>1, <3>2 DEF TakeJob
  <2>2. ASSUME NEW outcome \in {"succeeded", "failing"}, JobEnds(outcome) PROVE FreeInv'
    BY <2>2 DEF JobEnds, Place
  <2>3. CASE IgnoreResult
    BY <2>3, <1>s, <1>u DEF IgnoreResult
  <2>4. CASE BeginSave
    BY <2>4 DEF BeginSave, Place
  <2>5. CASE EndSave
    BY <2>5 DEF EndSave, Place
  <2>6. CASE SaveFails \/ ReadyNotRecorded \/ ReviewResult
    BY <2>6, <1>s, <1>u DEF SaveFails, ReadyNotRecorded, ReviewResult
  <2>7. CASE OfferRetry \/ FailureNotRecorded
    <3>1. /\ jobs' = jobs \ {work.id} /\ work'.id = 0 /\ work.id \in jobs
          /\ UNCHANGED <<prompts, input, queue, lastJob>>
      BY <2>7 DEF OfferRetry, FailureNotRecorded
    <3>2. failed' => failedPrompt' # "free"
      BY <2>7 DEF OfferRetry, FailureNotRecorded
    <3>3. /\ work'.id \notin jobs' /\ work'.id <= lastJob'
          /\ \A j \in jobs' : j \in jobs
      BY <3>1, <1>s
    <3>4. input'.pc = "tracked" => input'.id # work'.id
      BY <3>1, <3>3, <1>s, <1>u
    <3> QED
      BY <3>1, <3>2, <3>3, <3>4, <1>s
  <2> QED
    BY <1>3, <2>1, <2>2, <2>3, <2>4, <2>5, <2>6, <2>7 DEF WorkerStep
<1>4. CASE Life
  <2>1. CASE Launch
    <3>1. failed' => failedPrompt' # "free"
      BY <2>1, LaunchFacts, StateFacts DEF IInv
    <3>2. prompts'["free"] = 0 /\ input'.pc # "tracked"
      BY <2>1, LaunchFacts DEF IInv
    <3> QED
      BY <2>1, <3>1, <3>2 DEF Launch
  <2>2. CASE Cancel \/ Close
    BY <2>2 DEF Cancel, Close
  <2>3. CASE Exit \/ Crash
    BY <2>3 DEF Exit, Crash, Forget, NoPrompts
  <2> QED
    BY <1>4, <2>1, <2>2, <2>3 DEF Life
<1>5. CASE UNCHANGED vars
  BY <1>5 DEF vars
<1> QED
  BY <1>1, <1>2, <1>3, <1>4, <1>5 DEF Next

-----------------------------------------------------------------------------
(* The phases *)

LEMMA NextPhase == IInv /\ [Next]_vars => PhaseInv'
<1> SUFFICES ASSUME IInv, [Next]_vars PROVE PhaseInv'
  OBVIOUS
<1>t. TokenInv /\ PhaseInv
  BY DEF IInv
<1>p. input \in Place(InputPlaces) /\ work \in Place(WorkPlaces) /\ wPhase \in Phases
  BY DEF IInv, TypeOK
<1>r. \A p \in Ready : Stage(p) \in Stages /\ Stage(p) \notin Ready
  BY DEF Stage, Stages, Ready
<1> USE <1>t, <1>p DEF PhaseInv, phases, review, controller, daemon, Busy, Saving, Approving, Place
<1>1. CASE Operator
  <2>1. CASE Approve
    BY <2>1, <1>r DEF Approve, Reads, LeaveReady
  <2>2. CASE Revise
    BY <2>2, <1>r DEF Revise, Reads, LeaveReady, TokenInv
  <2>3. CASE Retry
    BY <2>3 DEF Retry, Reads, TokenInv
  <2>4. CASE FreeText
    BY <2>4 DEF FreeText, Reads
  <2> QED
    BY <1>1, <2>1, <2>2, <2>3, <2>4 DEF Operator
<1>2. CASE InputStep
  <2>1. CASE PostDesign \/ Publish
    BY <2>1 DEF PostDesign, Publish
  <2>2. CASE PostFails \/ PublishFails
    BY <2>2 DEF PostFails, PublishFails, GiveUpApproval
  <2>3. CASE DesignApproved
    BY <2>3 DEF DesignApproved, Stages, Ready
  <2>4. CASE ImplementationApproved \/ ApprovalNotRecorded
    BY <2>4 DEF ImplementationApproved, ApprovalNotRecorded
  <2>5. CASE PrepareFails \/ SubmitUntracked
    BY <2>5 DEF PrepareFails, SubmitUntracked, Idle
  <2>7. CASE Track
    BY <2>7 DEF Track
  <2>6. CASE Submit \/ StartFails
    BY <2>6 DEF Submit, StartFails, Idle
  <2> QED
    BY <1>2, <2>1, <2>2, <2>3, <2>4, <2>5, <2>6, <2>7 DEF InputStep
<1>3. CASE WorkerStep
  <2>1. CASE TakeJob
    BY <2>1 DEF TakeJob
  <2>2. ASSUME NEW outcome \in {"succeeded", "failing"}, JobEnds(outcome) PROVE PhaseInv'
    BY <2>2 DEF JobEnds
  <2>3. CASE IgnoreResult \/ BeginSave \/ EndSave
    BY <2>3 DEF IgnoreResult, BeginSave, EndSave
  <2>4. CASE SaveFails \/ ReadyNotRecorded \/ ReviewResult
    BY <2>4 DEF SaveFails, ReadyNotRecorded, ReviewResult
  <2>5. CASE OfferRetry \/ FailureNotRecorded
    BY <2>5 DEF OfferRetry, FailureNotRecorded
  <2> QED
    BY <1>3, <2>1, <2>2, <2>3, <2>4, <2>5 DEF WorkerStep
<1>4. CASE Life
  <2>1. CASE Launch
    <3>1. proc' = "on"
      BY <2>1 DEF Launch
    <3>2. cPhase' = wPhase' /\ wPhase' \in Stages \cup Ready
      BY <2>1, LaunchFacts DEF IInv
    <3>3. wPhase' \in Ready => pending'
      BY <2>1, LaunchFacts DEF IInv, Stages, Ready
    <3>4. ~Approving'
      BY <2>1, LaunchFacts DEF IInv
    <3> QED
      BY <3>1, <3>2, <3>3, <3>4
  <2>2. CASE Cancel \/ Close
    BY <2>2 DEF Cancel, Close
  <2>3. CASE Exit \/ Crash
    BY <2>3 DEF Exit, Crash, Forget, Idle, Stages, Ready
  <2> QED
    BY <1>4, <2>1, <2>2, <2>3 DEF Life
<1>5. CASE UNCHANGED vars
  BY <1>5 DEF vars
<1> QED
  BY <1>1, <1>2, <1>3, <1>4, <1>5 DEF Next

-----------------------------------------------------------------------------
(* The database and the files *)

\* Only the steps of this lemma write what StoreInv is about; it is proved once
\* for all the others.
StoreKept ==
  /\ UNCHANGED <<label, db, artifact>>
  /\ Saving' => Saving /\ work' = work
  /\ Busy' /\ input'.pc # "tracked" => Busy /\ input.pc # "tracked" /\ wPhase' = wPhase
  /\ Saving => wPhase' = wPhase
  /\ pending' => pending /\ result' = result /\ Stage(cPhase') = Stage(cPhase)

LEMMA KeepStore == IInv /\ StoreKept => StoreInv'
<1> SUFFICES ASSUME StoreInv, StoreKept PROVE StoreInv'
  BY DEF IInv
<1>1. Stored' = Stored
  BY DEF StoreKept, Stored
<1>2. ReviewedResultIsSaved'
  BY DEF StoreInv, StoreKept, ReviewedResultIsSaved
<1>3. Busy' /\ input'.pc # "tracked" => db' = StartState(wPhase')
  BY DEF StoreInv, StoreKept
<1>4. (Saving => work.id \in JobIds)' /\ (work.pc = "saved" => artifact[ArtifactOf(wPhase)] = work.id)'
  BY DEF StoreInv, StoreKept, Saving
<1> QED
  BY <1>1, <1>2, <1>3, <1>4 DEF StoreInv, StoreKept

LEMMA NextStore == IInv /\ [Next]_vars => StoreInv'
<1> SUFFICES ASSUME IInv, [Next]_vars PROVE StoreInv'
  OBVIOUS
<1>t. TokenInv /\ PhaseInv /\ StoreInv
  BY DEF IInv
<1>p. /\ input \in Place(InputPlaces) /\ work \in Place(WorkPlaces) /\ jobs \subseteq JobIds
      /\ artifact \in [Stages -> Version] /\ db \in States /\ cPhase \in Phases
  BY DEF IInv, TypeOK
<1>s. Busy => wPhase \in Stages /\ wPhase = cPhase
  BY <1>t DEF PhaseInv, TokenInv
<1>r. \A p \in Ready : Stage(Stage(p)) = Stage(p)
  BY ReadyFacts
<1>k. StoreKept => StoreInv'
  BY KeepStore
<1>n. db' \in Running \cup Failed => db' # "none" /\ Stored' = db' /\ Stored' \notin Ready
  BY DEF Running, Failed, Ready, Stored
<1>o. ~pending' => ReviewedResultIsSaved'
  BY DEF ReviewedResultIsSaved
<1> USE <1>t, <1>p DEF phases, review, controller, daemon, store, Busy, Saving, Place
<1>1. CASE Operator
  <2>1. CASE Approve
    <3>1. StoreKept
      BY <2>1, <1>r DEF Approve, Reads, LeaveReady, StoreKept, TokenInv
    <3> QED
      BY <3>1, <1>k
  <2>2. CASE Revise
    <3>1. StoreKept
      BY <2>2 DEF Revise, Reads, LeaveReady, StoreKept, TokenInv
    <3> QED
      BY <3>1, <1>k
  <2>3. CASE Retry \/ FreeText
    <3>1. StoreKept
      BY <2>3 DEF Retry, FreeText, Reads, Start, StoreKept, TokenInv
    <3> QED
      BY <3>1, <1>k
  <2> QED
    BY <1>1, <2>1, <2>2, <2>3 DEF Operator
<1>2. CASE InputStep
  <2>1. CASE PostDesign \/ Publish
    <3>1. StoreKept
      BY <2>1 DEF PostDesign, Publish, StoreKept
    <3> QED
      BY <3>1, <1>k
  <2>2. CASE PostFails \/ PublishFails
    <3>1. StoreKept
      BY <2>2 DEF PostFails, PublishFails, GiveUpApproval, StoreKept
    <3> QED
      BY <3>1, <1>k
  <2>3. CASE DesignApproved \/ ImplementationApproved
    <3>1. ~Busy /\ ~Busy'
      BY <2>3 DEF DesignApproved, ImplementationApproved, TokenInv, Approving
    <3>2. ~pending' /\ ~Saving' /\ artifact' = artifact
      BY <2>3, <3>1 DEF DesignApproved, ImplementationApproved
    <3>3. db' \in {"design_approved", "pr_created"}
      BY <2>3 DEF DesignApproved, ImplementationApproved, SetState
    <3>4. db' # "none" /\ Stored' = db' /\ Stored' \notin Ready
      BY <3>3 DEF Stored, Ready
    <3> QED
      BY <3>1, <3>2, <3>4 DEF StoreInv, ReviewedResultIsSaved
  <2>4. CASE ApprovalNotRecorded
    <3>1. StoreKept
      BY <2>4 DEF ApprovalNotRecorded, SetStateFails, StoreKept
    <3> QED
      BY <3>1, <1>k
  <2>5. CASE PrepareFails \/ SubmitUntracked \/ Track
    <3>1. CASE PrepareFails
      BY <3>1, <1>k DEF PrepareFails, Idle, StoreKept
    <3>2. CASE SubmitUntracked
      BY <3>2, <1>k DEF SubmitUntracked, Idle, StoreKept
    <3>3. CASE Track
      BY <3>3, <1>k DEF Track, StoreKept
    <3> QED
      BY <2>5, <3>1, <3>2, <3>3
  <2>6. CASE Submit
    <3>1. ~pending' /\ ~Saving' /\ wPhase \in Stages
      BY <2>6, <1>s DEF Submit, TokenInv
    <3>2. db' = StartState(wPhase') /\ db' \in Running
      BY <2>6, <3>1, StageFacts DEF Submit, SetState
    <3> QED
      BY <3>1, <3>2, <1>n, <1>o DEF StoreInv
  <2>7. CASE StartFails
    <3>1. ~pending' /\ ~Saving' /\ jobs' = {} /\ wPhase \in Stages
      BY <2>7, <1>s DEF StartFails, TokenInv
    <3>2. db' = db \/ db' \in Running \cup Failed
      BY <2>7, <3>1, StageFacts DEF StartFails, SetState, SetStateFails
    <3>3. label' = label /\ artifact' = artifact
      BY <2>7 DEF StartFails
    <3>4. (Stored \in Ready => artifact[Stage(Stored)] # Torn)'
          /\ (db = "none" => \A s \in Stages : artifact[s] = 0)'
      BY <3>2, <3>3, <1>n DEF StoreInv, Stored
    <3> QED
      BY <3>1, <3>4, <1>o DEF StoreInv
  <2> QED
    BY <1>2, <2>1, <2>2, <2>3, <2>4, <2>5, <2>6, <2>7 DEF InputStep
<1>3. CASE WorkerStep
  <2>1. CASE TakeJob \/ IgnoreResult
    <3>1. CASE TakeJob
      BY <3>1, <1>k DEF TakeJob, StoreKept
    <3>2. CASE IgnoreResult
      BY <3>2, <1>k DEF IgnoreResult, Idle, StoreKept
    <3> QED
      BY <2>1, <3>1, <3>2
  <2>2. ASSUME NEW outcome \in {"succeeded", "failing"}, JobEnds(outcome) PROVE StoreInv'
    <3>1. StoreKept
      BY <2>2 DEF JobEnds, StoreKept, TokenInv
    <3> QED
      BY <3>1, <1>k
  <2>3. CASE BeginSave
    <3>1. work.id \in jobs /\ jobs' = {} /\ input.pc # "tracked" /\ wPhase \in Stages /\ ~pending'
      BY <2>3, <1>s DEF BeginSave, TokenInv, IInv, FreeInv
    <3>2. db' = StartState(wPhase) /\ db' \in Running /\ wPhase' = wPhase
      BY <2>3, <3>1, StageFacts DEF BeginSave, StoreInv
    <3>3. work'.pc = "saving" /\ work'.id \in JobIds
      BY <2>3, <3>1 DEF BeginSave
    <3> QED
      BY <3>1, <3>2, <3>3, <1>n, <1>o DEF StoreInv
  <2>4. CASE EndSave \/ SaveFails \/ ReviewResult \/ ReadyNotRecorded
    <3>1. Saving /\ jobs = {} /\ jobs' = {} /\ input.pc # "tracked" /\ wPhase \in Stages /\ ~pending
          /\ wPhase' = wPhase /\ cPhase' = cPhase
      BY <2>4, <1>s DEF EndSave, SaveFails, ReviewResult, ReadyNotRecorded, TokenInv
    <3>2. db = StartState(wPhase) /\ db \in Running /\ work.id \in JobIds
      BY <3>1, StageFacts DEF StoreInv
    <3>3. CASE EndSave
      <4>1. db' = db /\ ~pending' /\ input'.pc # "tracked"
        BY <3>1, <3>3 DEF EndSave
      <4>2. work'.pc = "saved" /\ work'.id = work.id
        BY <3>3 DEF EndSave
      <4>3. artifact'[ArtifactOf(wPhase)] = work.id
        BY <3>1, <3>3, StageFacts DEF EndSave
      <4> QED
        BY <3>1, <3>2, <4>1, <4>2, <4>3, <1>n, <1>o DEF StoreInv
    <3>4. CASE SaveFails \/ ReadyNotRecorded
      <4>1. db' \in Running \cup Failed /\ ~pending' /\ ~Saving'
        BY <3>1, <3>2, <3>4, StageFacts
        DEF SaveFails, ReadyNotRecorded, SetState, SetStateFails, Idle
      <4> QED
        BY <3>1, <4>1, <1>n, <1>o DEF StoreInv
    <3>5. CASE ReviewResult
      <4>1. db' = ReadyState(wPhase) /\ result' = work.id /\ artifact' = artifact /\ ~Saving'
        BY <3>5 DEF ReviewResult, SetState, Idle
      <4>2. artifact[Stage(cPhase)] = work.id
        BY <3>1, <3>5, <1>s, StageFacts DEF ReviewResult, StoreInv
      <4>3. db' \in Ready /\ Stage(db') = Stage(cPhase')
        BY <3>1, <4>1, <1>s, StageFacts
      <4>4. ReviewedResultIsSaved'
        BY <3>1, <3>2, <4>1, <4>2, <4>3 DEF ReviewedResultIsSaved
      <4>5. db' # "none" /\ Stored' = db'
        BY <4>3 DEF Ready, Stored
      <4>6. artifact'[Stage(Stored')] # Torn
        BY <3>1, <3>2, <4>1, <4>2, <4>3, <4>5, JobIdsNat
      <4> QED
        BY <3>1, <4>1, <4>4, <4>5, <4>6 DEF StoreInv
    <3> QED
      BY <2>4, <3>3, <3>4, <3>5
  <2>5. CASE OfferRetry \/ FailureNotRecorded
    <3>1. ~pending' /\ ~Saving' /\ jobs' = {} /\ wPhase \in Stages
      BY <2>5, <1>s DEF OfferRetry, FailureNotRecorded, TokenInv, Idle
    <3>2. db' = db \/ db' \in Running \cup Failed
      BY <2>5, <3>1, StageFacts DEF OfferRetry, FailureNotRecorded, SetState, SetStateFails
    <3>3. label' = label /\ artifact' = artifact
      BY <2>5 DEF OfferRetry, FailureNotRecorded
    <3>4. (Stored \in Ready => artifact[Stage(Stored)] # Torn)'
          /\ (db = "none" => \A s \in Stages : artifact[s] = 0)'
      BY <3>2, <3>3, <1>n DEF StoreInv, Stored
    <3> QED
      BY <3>1, <3>4, <1>o DEF StoreInv
  <2> QED
    BY <1>3, <2>1, <2>2, <2>3, <2>4, <2>5 DEF WorkerStep
<1>4. CASE Life
  <2>1. CASE Launch
    <3>1. ~Busy /\ ~Busy' /\ label' = label /\ artifact' = artifact
      BY <2>1 DEF Launch, PhaseInv
    <3>2. Stored \in States /\ db' = Stored /\ Stored' = Stored /\ db' # "none"
      BY <2>1, LaunchFacts DEF IInv, Stored
    <3>3. ReviewedResultIsSaved'
      <4> SUFFICES ASSUME pending' PROVE ReviewedResultIsSaved'
        BY <1>o
      <4>1. PICK phase \in LoadedPhases :
              phase \in Ready /\ wPhase' = phase /\ cPhase' = phase
              /\ result' = artifact[ArtifactOf(phase)] /\ result' # 0
        BY <2>1, LaunchFacts DEF IInv
      <4>2. Classify(Stored) = phase
        BY <4>1 DEF LoadedPhases, Ready, Failed
      <4>3. Stored = phase
        BY <3>2, <4>1, <4>2, StateFacts
      <4>4. result' = artifact[Stage(phase)] /\ result' # Torn /\ Stage(phase) \in Stages
        BY <4>1, <4>3, ReadyFacts DEF StoreInv
      <4>5. result' \in JobIds
        BY <4>1, <4>4, IssueReviewAssumption DEF Version, Torn, JobIds
      <4> QED
        BY <3>1, <3>2, <4>1, <4>3, <4>4, <4>5 DEF ReviewedResultIsSaved
    <3> QED
      BY <3>1, <3>2, <3>3 DEF StoreInv
  <2>2. CASE Cancel \/ Close
    <3>1. StoreKept
      BY <2>2 DEF Cancel, Close, StoreKept
    <3> QED
      BY <3>1, <1>k
  <2>3. CASE Exit \/ Crash
    <3>1. ~pending' /\ ~Busy' /\ UNCHANGED <<label, db, artifact, posted>>
      BY <2>3 DEF Exit, Crash, Forget, Idle
    <3> QED
      BY <3>1, <1>o DEF StoreInv, Stored
  <2> QED
    BY <1>4, <2>1, <2>2, <2>3 DEF Life
<1>5. CASE UNCHANGED vars
  <2>1. StoreKept
    BY <1>5 DEF vars, StoreKept
  <2> QED
    BY <2>1, <1>k
<1> QED
  BY <1>1, <1>2, <1>3, <1>4, <1>5 DEF Next

-----------------------------------------------------------------------------
(* The posted design *)

PostKept ==
  /\ UNCHANGED <<label, db, artifact, posted>>
  /\ Stage(wPhase') = Stage(wPhase) \/ Stage(wPhase') = "design"
  /\ input'.pc = "posted" => input.pc = "posted" /\ wPhase' = wPhase

LEMMA KeepPost == IInv /\ PostKept => PostInv'
BY DEF IInv, PostInv, PostKept, Posted

LEMMA NextPost == IInv /\ [Next]_vars => PostInv'
<1> SUFFICES ASSUME IInv, [Next]_vars PROVE PostInv'
  OBVIOUS
<1>t. TokenInv /\ PhaseInv /\ StoreInv /\ PostInv
  BY DEF IInv
<1>p. /\ input \in Place(InputPlaces) /\ work \in Place(WorkPlaces)
      /\ artifact \in [Stages -> Version] /\ db \in States /\ wPhase \in Phases
  BY DEF IInv, TypeOK
<1>s. Busy => wPhase \in Stages /\ ~Approving /\ ~pending
  BY <1>t DEF PhaseInv, TokenInv
<1>k. PostKept => PostInv'
  BY KeepPost
<1>w. Stage("design") = "design" /\ Stage("implementation") = "implementation"
  BY DEF Stage
<1> USE <1>t, <1>p DEF phases, review, controller, daemon, store, Busy, Saving, Place
<1>1. CASE Operator
  <2>1. CASE Approve \/ Revise
    <3>1. wPhase' = wPhase \/ (wPhase \in Ready /\ wPhase' = Stage(wPhase))
      BY <2>1 DEF Approve, Revise, LeaveReady, PhaseInv
    <3>2. Stage(wPhase') = Stage(wPhase)
      BY <3>1, ReadyFacts
    <3> QED
      BY <2>1, <3>2, <1>k DEF Approve, Revise, Reads, Start, PostKept
  <2>2. CASE Retry \/ FreeText
    BY <2>2, <1>k DEF Retry, FreeText, Reads, Start, PostKept
  <2> QED
    BY <1>1, <2>1, <2>2 DEF Operator
<1>2. CASE InputStep
  <2>1. CASE PostDesign \/ PostFails
    <3>1. pending /\ wPhase = "design" /\ cPhase = "design"
      BY <2>1 DEF PostDesign, PostFails, TokenInv, Approving, PhaseInv
    <3>2. artifact["design"] # 0 /\ db \in Ready /\ Stage(db) = "design"
      BY <3>1, <1>w, JobIdsNat DEF StoreInv, ReviewedResultIsSaved
    <3>3. db # "failed" /\ Stage(Classify(db)) = "design"
      BY <3>2, ReadyFacts DEF Ready
    <3>4. ArtifactOf(wPhase) = "design"
      BY <3>1, StageFacts DEF Stages
    <3>5. input'.pc = "posted" => Posted'
      BY <2>1, <3>2, <3>4 DEF PostDesign, PostFails, GiveUpApproval, Idle, Posted
    <3> QED
      BY <2>1, <3>1, <3>3, <3>5, <1>w DEF PostDesign, PostFails, GiveUpApproval, PostInv
  <2>2. CASE Publish \/ PublishFails \/ ApprovalNotRecorded
    BY <2>2, <1>k
    DEF Publish, PublishFails, GiveUpApproval, ApprovalNotRecorded, SetStateFails, Idle, PostKept
  <2>3. CASE DesignApproved
    <3>1. Posted' /\ db' = "design_approved" /\ input'.pc = "start"
      BY <2>3 DEF DesignApproved, SetState, PostInv, Posted, Start
    <3> QED
      BY <3>1 DEF PostInv
  <2>4. CASE ImplementationApproved
    <3>1. db' = "pr_created" /\ wPhase' = wPhase /\ input'.pc = "idle" /\ label' = label /\ (Posted <=> Posted')
      BY <2>4 DEF ImplementationApproved, SetState, Idle, Posted
    <3>2. Stage(Classify(db')) = "design"
      BY <3>1 DEF Classify, Stage, Ready, Failed
    <3> QED
      BY <3>1, <3>2 DEF PostInv
  <2>5. CASE PrepareFails \/ SubmitUntracked \/ Track
    <3>1. UNCHANGED <<label, db, artifact, posted, wPhase>>
      BY <2>5 DEF PrepareFails, SubmitUntracked, Track
    <3>2. input' = Idle \/ input'.pc = "tracked"
      BY <2>5 DEF PrepareFails, SubmitUntracked, Track
    <3> QED
      BY <3>1, <3>2, <1>k DEF PostKept, Idle
  <2>6. CASE Submit \/ StartFails
    <3>1. wPhase \in Stages
      BY <2>6, <1>s DEF Submit, StartFails, TokenInv
    <3>2. db' = db \/ (db' \in Running \cup Failed /\ Stage(Classify(db')) = wPhase)
      BY <2>6, <3>1, StageFacts DEF Submit, StartFails, SetState, SetStateFails
    <3>3. db' # "failed" \/ db' = db
      BY <3>2 DEF Running, Failed
    <3> QED
      BY <2>6, <3>1, <3>2, <3>3, StageFacts DEF Submit, StartFails, Idle, PostInv, Posted
  <2> QED
    BY <1>2, <2>1, <2>2, <2>3, <2>4, <2>5, <2>6 DEF InputStep
<1>3. CASE WorkerStep
  <2>1. CASE TakeJob \/ IgnoreResult
    BY <2>1, <1>k DEF TakeJob, IgnoreResult, PostKept
  <2>2. ASSUME NEW outcome \in {"succeeded", "failing"}, JobEnds(outcome) PROVE PostInv'
    BY <2>2, <1>k DEF JobEnds, PostKept
  <2>3. CASE BeginSave \/ EndSave
    <3>1. Busy /\ input.pc # "tracked"
      BY <2>3 DEF BeginSave, EndSave, TokenInv, FreeInv, IInv
    <3>2. wPhase \in Stages /\ ~Approving /\ db = StartState(wPhase)
      BY <3>1, <1>s DEF StoreInv
    <3>3. ArtifactOf(wPhase) = wPhase /\ Stage(wPhase) = wPhase /\ Stage(Classify(db)) = wPhase
      BY <3>2, StageFacts
    <3>4. wPhase = "implementation" => artifact'["design"] = artifact["design"]
      BY <2>3, <3>3 DEF BeginSave, EndSave, Stages
    <3>5. UNCHANGED <<label, db, posted, wPhase, input>>
      BY <2>3 DEF BeginSave, EndSave
    <3>6. ~(input'.pc = "posted") /\ (wPhase = "implementation" => (Posted => Posted'))
      BY <3>2, <3>4, <3>5 DEF Approving, Posted
    <3>7. Stage(wPhase') = wPhase /\ Stage(Classify(db')) = wPhase
      BY <3>3, <3>5
    <3> HIDE <1>p
    <3> QED
      BY <3>3, <3>5, <3>6, <3>7 DEF PostInv
  <2>4. CASE SaveFails \/ ReviewResult \/ ReadyNotRecorded \/ OfferRetry \/ FailureNotRecorded
    <3>1. wPhase \in Stages
      BY <2>4, <1>s DEF SaveFails, ReviewResult, ReadyNotRecorded, OfferRetry, FailureNotRecorded
    <3>2. db' = db \/ (db' \in Ready \cup Failed /\ Stage(Classify(db')) = wPhase)
      BY <2>4, <3>1, StageFacts
      DEF SaveFails, ReviewResult, ReadyNotRecorded, OfferRetry, FailureNotRecorded, SetState, SetStateFails
    <3>3. db' # "failed" \/ db' = db
      BY <3>2 DEF Ready, Failed
    <3>4. UNCHANGED <<label, artifact, posted, wPhase, input>>
      BY <2>4 DEF SaveFails, ReviewResult, ReadyNotRecorded, OfferRetry, FailureNotRecorded
    <3>5. Stage(wPhase) = wPhase
      BY <3>1, StageFacts
    <3> HIDE <1>p
    <3> QED
      BY <3>2, <3>3, <3>4, <3>5 DEF PostInv, Posted
  <2> QED
    BY <1>3, <2>1, <2>2, <2>3, <2>4 DEF WorkerStep
<1>4. CASE Life
  <2>1. CASE Launch
    <3>1. Stored \in States /\ db' = Stored /\ UNCHANGED <<label, artifact, posted>> /\ (Posted <=> Posted')
      BY <2>1, LaunchFacts DEF IInv, Launch, Posted
    <3>2. PICK phase \in LoadedPhases :
            phase \in Phases /\ (wPhase' = phase \/ wPhase' = Stage(phase)) /\ input'.pc # "posted"
      BY <2>1, LaunchFacts DEF IInv
    <3>3. Stage(wPhase') = Stage(phase)
      BY <3>2, StageFacts, StateFacts
    <3> SUFFICES ASSUME label = "none"
                 PROVE  /\ Stored # "failed"
                        /\ Stage(Classify(Stored)) = "implementation" => Posted
                        /\ Stage(phase) = "implementation" => Posted
      BY <3>1, <3>2, <3>3 DEF PostInv
    <3>4. CASE db = "none"
      <4>1. Stored = "detected"
        BY <3>4, StateFacts DEF Stored
      <4>2. Classify(Stored) = "design" /\ Stage(Classify(Stored)) = "design"
        BY <4>1 DEF Classify, Stage, Ready, Failed
      <4>3. phase = "design"
        BY <4>2 DEF LoadedPhases
      <4> QED
        BY <4>1, <4>2, <4>3, <1>w
    <3>5. CASE db # "none"
      <4>1. Stored = db /\ db # "failed"
        BY <3>5 DEF Stored, PostInv
      <4>2. Classify(Stored) # "failed"
        BY <3>1, <4>1, StateFacts
      <4>3. phase = Classify(Stored)
        BY <4>2 DEF LoadedPhases
      <4> QED
        BY <4>1, <4>3 DEF PostInv
    <3> QED
      BY <3>4, <3>5
  <2>2. CASE Cancel \/ Close
    BY <2>2, <1>k DEF Cancel, Close, PostKept
  <2>3. CASE Exit \/ Crash
    BY <2>3, <1>k, <1>w DEF Exit, Crash, Forget, Idle, PostKept
  <2> QED
    BY <1>4, <2>1, <2>2, <2>3 DEF Life
<1>5. CASE UNCHANGED vars
  BY <1>5, <1>k DEF vars, PostKept
<1> QED
  BY <1>1, <1>2, <1>3, <1>4, <1>5 DEF Next

-----------------------------------------------------------------------------
(* The order of the jobs *)

\* Ids and the queue are numbers and a sequence.
LEMMA QueueFacts ==
  ASSUME TypeOK
  PROVE  /\ Len(queue) \in Nat /\ lastJob \in Nat /\ work.id \in Nat /\ input.id \in Nat
         /\ \A i \in 1 .. Len(queue) : queue[i] \in Job /\ queue[i].id \in Nat
         /\ jobs \subseteq Nat /\ 0 \notin jobs
<1>1. queue \in Seq(Job) /\ Len(queue) \in Nat
  BY DEF TypeOK
<1>2. \A i \in 1 .. Len(queue) : queue[i] \in Job
  BY <1>1
<1>3. \A i \in 1 .. Len(queue) : queue[i].id \in Nat
  BY <1>2, IssueReviewAssumption DEF Job
<1>4. lastJob \in Nat /\ work.id \in Nat /\ input.id \in Nat
  BY IssueReviewAssumption DEF TypeOK, Place
<1>5. jobs \subseteq Nat /\ 0 \notin jobs
  BY JobIdsNat DEF TypeOK
<1> QED
  BY <1>1, <1>2, <1>3, <1>4, <1>5

\* The queue after a job was appended, and after the first was taken.
LEMMA AppendFacts ==
  ASSUME TypeOK, NEW job, queue' = Append(queue, job)
  PROVE  /\ Len(queue') = Len(queue) + 1
         /\ \A i \in 1 .. Len(queue') : (i = Len(queue) + 1 /\ queue'[i] = job)
                                         \/ (i \in 1 .. Len(queue) /\ queue'[i] = queue[i])
<1>1. queue \in Seq(Job)
  BY DEF TypeOK
<1>2. /\ Len(queue') = Len(queue) + 1 /\ queue'[Len(queue) + 1] = job
      /\ \A i \in 1 .. Len(queue) : queue'[i] = queue[i]
  BY <1>1
<1>3. Len(queue) \in Nat
  BY <1>1
<1> QED
  BY <1>2, <1>3

LEMMA TakeFacts ==
  ASSUME TypeOK, TakeJob
  PROVE  /\ work.pc = "idle" /\ work'.pc = "running" /\ 1 \in 1 .. Len(queue)
         /\ work'.id = queue[1].id /\ work'.execute = queue[1].execute
         /\ Len(queue') \in Nat
         /\ \A i \in 1 .. Len(queue') : i + 1 \in 1 .. Len(queue) /\ queue'[i] = queue[i + 1]
<1>1. queue \in Seq(Job) /\ queue # <<>> /\ queue' = Tail(queue)
  BY DEF TypeOK, TakeJob
<1>2. /\ Len(queue) >= 1 /\ Head(queue) = queue[1] /\ Len(queue') = Len(queue) - 1
      /\ \A i \in 1 .. Len(queue') : queue'[i] = queue[i + 1]
  BY <1>1
<1>3. 1 \in 1 .. Len(queue) /\ Len(queue') \in Nat
      /\ \A i \in 1 .. Len(queue') : i + 1 \in 1 .. Len(queue)
  BY <1>2, QueueFacts
<1> QED
  BY <1>2, <1>3 DEF TakeJob

LEMMA NextOrder == IInv /\ [Next]_vars => OrderInv'
<1> SUFFICES ASSUME IInv, [Next]_vars PROVE OrderInv'
  OBVIOUS
<1>t. TypeOK /\ OrderInv /\ FreeInv /\ input \in Place(InputPlaces) /\ work \in Place(WorkPlaces)
  BY DEF IInv, TypeOK
<1>q. /\ Len(queue) \in Nat /\ lastJob \in Nat /\ work.id \in Nat /\ work.id <= lastJob
      /\ \A i \in 1 .. Len(queue) : queue[i].id \in Nat /\ queue[i].id <= lastJob
  BY <1>t, QueueFacts DEF FreeInv
<1>k. ASSUME UNCHANGED <<queue, lastJob>>, work'.id \in {0, work.id},
             input'.pc = "tracked" => input.pc = "tracked" /\ input'.id = input.id
      PROVE  OrderInv'
  <2>1. \A i \in 1 .. Len(queue) : 0 < queue[i].id
    BY <1>t, <1>q DEF OrderInv
  <2> QED
    BY <1>k, <1>t, <2>1 DEF OrderInv
<1>z. Idle.pc = "idle" /\ Idle.id = 0 /\ \A p, e : Start(p, e).pc = "start"
  BY DEF Idle, Start
<1> USE DEF phases, review, controller, daemon
<1>1. CASE Operator
  <2>1. UNCHANGED <<queue, work, lastJob>> /\ input'.pc # "tracked"
    <3>1. CASE Approve
      BY <3>1, <1>t DEF Approve, Reads, Place
    <3>2. CASE Revise
      BY <3>2, <1>z DEF Revise
    <3>3. CASE Retry
      BY <3>3, <1>z DEF Retry
    <3>4. CASE FreeText
      <4>1. input' = Start("free", FALSE) /\ UNCHANGED <<queue, work, lastJob>>
        BY <3>4 DEF FreeText
      <4> QED
        BY <4>1, <1>z
    <3> QED
      BY <1>1, <3>1, <3>2, <3>3, <3>4 DEF Operator
  <2> QED
    BY <2>1, <1>k
<1>2. CASE InputStep
  <2>1. CASE \/ PostDesign \/ PostFails \/ Publish \/ PublishFails
             \/ DesignApproved \/ ImplementationApproved \/ ApprovalNotRecorded \/ StartFails
    <3>1. UNCHANGED <<queue, work, lastJob>> /\ input'.pc # "tracked"
      BY <2>1, <1>t, <1>z
      DEF PostDesign, PostFails, Publish, PublishFails, GiveUpApproval, DesignApproved,
          ImplementationApproved, ApprovalNotRecorded, StartFails, Place
    <3> QED
      BY <3>1, <1>k
  <2>2. CASE PrepareFails
    BY <2>2, <1>t, <1>z DEF PrepareFails, OrderInv
  <2>3. CASE SubmitUntracked
    <3> DEFINE job == [id |-> lastJob + 1, prompt |-> input.prompt, execute |-> input.execute]
    <3>1. queue' = Append(queue, job) /\ job.id = lastJob + 1
      BY <2>3 DEF SubmitUntracked
    <3> HIDE DEF job
    <3>2. /\ Len(queue') = Len(queue) + 1
          /\ \A i \in 1 .. Len(queue') : (i = Len(queue) + 1 /\ queue'[i] = job)
                                         \/ (i \in 1 .. Len(queue) /\ queue'[i] = queue[i])
      BY <3>1, <1>t, AppendFacts
    <3>3. work' = work /\ input'.pc # "tracked"
      BY <2>3, <1>z DEF SubmitUntracked
    <3> QED
      BY <3>1, <3>2, <3>3, <1>t, <1>q DEF OrderInv
  <2>4. CASE Track
    BY <2>4, <1>t DEF Track, OrderInv, Place
  <2>5. CASE Submit
    <3> DEFINE job == [id |-> input.id, prompt |-> input.prompt, execute |-> input.execute]
    <3>1. queue' = Append(queue, job) /\ job.id = lastJob
      BY <2>5, <1>t DEF Submit, OrderInv
    <3>2. \A i \in 1 .. Len(queue) : queue[i].id < job.id
      BY <2>5, <3>1, <1>t, <1>q DEF Submit, FreeInv, OrderInv
    <3>3. work.id < job.id
      BY <2>5, <3>1, <1>t, <1>q DEF Submit, FreeInv, OrderInv
    <3> HIDE DEF job
    <3>4. /\ Len(queue') = Len(queue) + 1
          /\ \A i \in 1 .. Len(queue') : (i = Len(queue) + 1 /\ queue'[i] = job)
                                         \/ (i \in 1 .. Len(queue) /\ queue'[i] = queue[i])
      BY <3>1, <1>t, AppendFacts
    <3>5. work' = work /\ input'.pc # "tracked"
      BY <2>5, <1>z DEF Submit
    <3>6. \A i \in 1 .. Len(queue') : work'.id < queue'[i].id
      BY <3>3, <3>4, <3>5, <1>t DEF OrderInv
    <3>7. ASSUME NEW i \in 1 .. Len(queue'), NEW j \in 1 .. Len(queue'), i < j
          PROVE  queue'[i].id < queue'[j].id
      <4>1. i \in 1 .. Len(queue) /\ queue'[i] = queue[i]
        BY <3>4, <3>7, <1>q
      <4> QED
        BY <3>2, <3>4, <3>7, <4>1, <1>t DEF OrderInv
    <3> QED
      BY <3>5, <3>6, <3>7 DEF OrderInv
  <2> QED
    BY <1>2, <2>1, <2>2, <2>3, <2>4, <2>5 DEF InputStep
<1>3. CASE WorkerStep
  <2>1. CASE TakeJob
    <3>1. UNCHANGED <<input, lastJob>>
      BY <2>1 DEF TakeJob
    <3>2. \A i \in 1 .. Len(queue') : i \in Nat /\ 1 < i + 1
      BY <2>1, <1>t, TakeFacts
    <3>3. \A i, j \in 1 .. Len(queue') : i < j => i + 1 < j + 1
      BY <3>2
    <3> QED
      BY <2>1, <3>1, <3>2, <3>3, <1>t, TakeFacts DEF OrderInv
  <2>2. ASSUME NEW outcome \in {"succeeded", "failing"}, JobEnds(outcome) PROVE OrderInv'
    <3>1. UNCHANGED <<queue, lastJob, input>> /\ work'.id = work.id
      BY <2>2, <1>t DEF JobEnds, Place
    <3> QED
      BY <3>1, <1>k
  <2>3. CASE \/ IgnoreResult \/ BeginSave \/ EndSave \/ SaveFails
             \/ ReviewResult \/ ReadyNotRecorded \/ OfferRetry \/ FailureNotRecorded
    <3>1. UNCHANGED <<queue, lastJob, input>> /\ work'.id \in {0, work.id}
      BY <2>3, <1>t, <1>z
      DEF IgnoreResult, BeginSave, EndSave, SaveFails, ReviewResult, ReadyNotRecorded, OfferRetry,
          FailureNotRecorded, Place
    <3> QED
      BY <3>1, <1>k
  <2> QED
    BY <1>3, <2>1, <2>2, <2>3 DEF WorkerStep
<1>4. CASE Life
  <2>1. CASE Launch
    <3>1. UNCHANGED <<queue, work, lastJob>>
      BY <2>1 DEF Launch
    <3>2. input'.pc # "tracked"
      BY <2>1, LaunchFacts DEF IInv
    <3> QED
      BY <3>1, <3>2, <1>k
  <2>2. CASE Cancel \/ Close
    BY <2>2, <1>k DEF Cancel, Close
  <2>3. CASE Exit \/ Crash
    BY <2>3, <1>z DEF Exit, Crash, Forget, OrderInv
  <2> QED
    BY <1>4, <2>1, <2>2, <2>3 DEF Life
<1>5. CASE UNCHANGED vars
  BY <1>5, <1>k DEF vars
<1> QED
  BY <1>1, <1>2, <1>3, <1>4, <1>5 DEF Next

-----------------------------------------------------------------------------
(* Untracked jobs of the engine *)

\* Nothing strays, and nothing can: what is in the queue stays tracked.
LEMMA StaysTracked ==
  ASSUME ~Stray, UNCHANGED <<queue>>, work' = work \/ work'.pc # "running",
         ~(Submitting /\ prompts[input.prompt] = 0)',
         \A i \in 1 .. Len(queue) : queue[i].id \in jobs => queue[i].id \in jobs',
         work' = work /\ work.pc = "running" /\ work.id \in jobs => work.id \in jobs'
  PROVE  ~Stray'
BY DEF Stray

LEMMA NextStray == IInv /\ [Next]_vars => StrayInv'
<1> SUFFICES ASSUME IInv, [Next]_vars PROVE StrayInv'
  OBVIOUS
<1>t. /\ TypeOK /\ TokenInv /\ FreeInv /\ OrderInv /\ StrayInv /\ FilesInv
      /\ input \in Place(InputPlaces) /\ work \in Place(WorkPlaces) /\ prompts \in [Prompts -> Nat]
      /\ input.prompt \in Prompts
  BY DEF IInv, TypeOK, Place
<1>q. /\ Len(queue) \in Nat /\ lastJob \in Nat /\ work.id \in Nat
      /\ \A i \in 1 .. Len(queue) : queue[i].id \in Nat
  BY <1>t, QueueFacts
<1>z. Idle.pc = "idle" /\ Idle.id = 0
      /\ \A p, e : Start(p, e).pc = "start" /\ Start(p, e).prompt = p /\ Start(p, e).execute = e
  BY DEF Idle, Start
<1>j. \A i \in 1 .. Len(queue) : queue[i].id # work.id
  BY <1>t, <1>q DEF OrderInv
<1> USE DEF phases, review, controller, daemon
<1>1. CASE Operator
  <2>0. UNCHANGED <<queue, work, jobs>> /\ work' = work
    BY <1>1 DEF Operator, Approve, Revise, Retry, FreeText, Reads
  <2>1. CASE Approve
    <3>1. ~Stray
      BY <2>1, <1>t DEF Approve, StrayInv, Calm
    <3>2. ~Submitting'
      BY <2>1, <1>t DEF Approve, Submitting, Place
    <3> QED
      BY <2>0, <3>1, <3>2, StaysTracked DEF StrayInv
  <2>2. CASE Revise
    <3>1. ~Stray
      BY <2>2, <1>t DEF Revise, StrayInv, Calm
    <3>2. PICK prompt \in Prompts : /\ prompts' = [prompts EXCEPT ![prompt] = @ + 1]
                                    /\ input'.prompt = prompt
      BY <2>2, <1>z DEF Revise, Prompts
    <3>3. prompts'[input'.prompt] # 0
      BY <3>2, <1>t
    <3> QED
      BY <2>0, <3>1, <3>3, StaysTracked DEF StrayInv
  <2>3. CASE Retry
    <3>1. ~Stray
      BY <2>3, <1>t DEF Retry, StrayInv, Calm
    <3>2. failedPrompt \in Prompts /\ input'.prompt = failedPrompt
      BY <2>3, <1>t, <1>z DEF Retry, TypeOK
    <3>3. prompts'[input'.prompt] # 0
      BY <2>3, <3>2, <1>t DEF Retry
    <3> QED
      BY <2>0, <3>1, <3>3, StaysTracked DEF StrayInv
  <2>4. CASE FreeText
    <3>1. ~Submitting' /\ UNCHANGED <<pending, failed, prompts>>
      BY <2>4, <1>z DEF FreeText, Submitting
    <3>2. CASE Stray
      BY <2>0, <3>1, <3>2, <1>t DEF StrayInv, Calm, Saving
    <3>3. CASE ~Stray
      BY <2>0, <3>1, <3>3, StaysTracked DEF StrayInv
    <3> QED
      BY <3>2, <3>3
  <2> QED
    BY <1>1, <2>1, <2>2, <2>3, <2>4 DEF Operator
<1>2. CASE InputStep
  <2>1. CASE \/ PostDesign \/ PostFails \/ Publish \/ PublishFails
             \/ DesignApproved \/ ImplementationApproved \/ ApprovalNotRecorded
    <3>1. pending /\ ~Stray
      BY <2>1, <1>t
      DEF PostDesign, PostFails, Publish, PublishFails, DesignApproved, ImplementationApproved,
          ApprovalNotRecorded, TokenInv, Approving, StrayInv, Calm
    <3>2. UNCHANGED <<queue, work, jobs>> /\ work' = work
      BY <2>1
      DEF PostDesign, PostFails, Publish, PublishFails, GiveUpApproval, DesignApproved,
          ImplementationApproved, ApprovalNotRecorded
    <3>3. ~(Submitting /\ prompts[input.prompt] = 0)'
      <4>1. CASE DesignApproved
        <5>1. input'.prompt = "implement" /\ "implement" \in Prompts
          BY <4>1, <1>z DEF DesignApproved, Prompts
        <5>2. prompts' = [prompts EXCEPT !["implement"] = @ + 1]
          BY <4>1 DEF DesignApproved
        <5>3. prompts'["implement"] # 0
          BY <5>1, <5>2, <1>t
        <5> QED
          BY <5>1, <5>3
      <4>2. CASE ~DesignApproved
        BY <2>1, <4>2, <1>t, <1>z
        DEF PostDesign, PostFails, Publish, PublishFails, GiveUpApproval, ImplementationApproved,
            ApprovalNotRecorded, Submitting, Place
      <4> QED
        BY <4>1, <4>2
    <3> QED
      BY <3>1, <3>2, <3>3, StaysTracked DEF StrayInv
  <2>2. CASE PrepareFails
    <3>1. ~Submitting' /\ UNCHANGED <<pending, failed, prompts, queue, work, jobs>> /\ work' = work
      BY <2>2, <1>z DEF PrepareFails, Submitting
    <3>2. CASE Stray
      BY <3>1, <3>2, <1>t DEF StrayInv, Calm, Saving
    <3>3. CASE ~Stray
      BY <3>1, <3>3, StaysTracked DEF StrayInv
    <3> QED
      BY <3>2, <3>3
  <2>3. CASE SubmitUntracked
    <3>1. ~Submitting' /\ UNCHANGED <<pending, failed, prompts, work, jobs>> /\ work' = work
      BY <2>3, <1>z DEF SubmitUntracked, Submitting
    <3>2. CASE Stray
      BY <3>1, <3>2, <1>t DEF StrayInv, Calm, Saving
    <3>3. CASE ~Stray
      <4> DEFINE job == [id |-> lastJob + 1, prompt |-> input.prompt, execute |-> input.execute]
      <4>1. queue' = Append(queue, job) /\ job.execute = input.execute
        BY <2>3 DEF SubmitUntracked
      <4>2. input.prompt = "free" /\ ~input.execute
        BY <2>3, <3>3, <1>t DEF SubmitUntracked, Stray, Submitting, FilesInv
      <4> HIDE DEF job
      <4>3. ~job.execute
        BY <4>1, <4>2
      <4>4. \A i \in 1 .. Len(queue') : queue'[i] = job \/ (i \in 1 .. Len(queue) /\ queue'[i] = queue[i])
        BY <4>1, <1>t, AppendFacts
      <4> QED
        BY <3>1, <3>3, <4>3, <4>4 DEF StrayInv, Stray
    <3> QED
      BY <3>2, <3>3
  <2>4. CASE Track
    <3>1. Submitting /\ prompts[input.prompt] # 0
      BY <2>4, <1>t DEF Track, FreeInv, Submitting
    <3>2. ~Stray
      BY <3>1, <1>t DEF StrayInv, Calm
    <3>3. ~Submitting' /\ UNCHANGED <<queue, work>> /\ work' = work /\ jobs \subseteq jobs'
      BY <2>4, <1>t DEF Track, Submitting, Place
    <3> QED
      BY <3>2, <3>3, StaysTracked DEF StrayInv
  <2>5. CASE Submit \/ StartFails
    <3>1. input.id \in jobs /\ ~Stray
      BY <2>5, <1>t DEF Submit, StartFails, TokenInv, StrayInv, Calm
    <3>2. ~Submitting' /\ work' = work
      BY <2>5, <1>z DEF Submit, StartFails, Submitting
    <3>3. CASE Submit
      <4> DEFINE job == [id |-> input.id, prompt |-> input.prompt, execute |-> input.execute]
      <4>1. queue' = Append(queue, job) /\ job.id = input.id /\ jobs' = jobs
        BY <3>3 DEF Submit
      <4> HIDE DEF job
      <4>2. \A i \in 1 .. Len(queue') : queue'[i] = job \/ (i \in 1 .. Len(queue) /\ queue'[i] = queue[i])
        BY <4>1, <1>t, AppendFacts
      <4> QED
        BY <3>1, <3>2, <4>1, <4>2 DEF StrayInv, Stray
    <3>4. CASE StartFails
      <4>1. jobs' = jobs \ {input.id} /\ UNCHANGED queue /\ input.pc = "tracked"
        BY <3>4 DEF StartFails
      <4>2. work.id # input.id /\ \A i \in 1 .. Len(queue) : queue[i].id # input.id
        BY <4>1, <1>t DEF FreeInv
      <4> QED
        BY <3>1, <3>2, <4>1, <4>2, StaysTracked DEF StrayInv
    <3> QED
      BY <2>5, <3>3, <3>4
  <2> QED
    BY <1>2, <2>1, <2>2, <2>3, <2>4, <2>5 DEF InputStep
<1>3. CASE WorkerStep
  <2>1. CASE TakeJob
    <3>1. UNCHANGED <<pending, failed, prompts, jobs, input>>
      BY <2>1 DEF TakeJob
    <3>2. CASE Stray
      <4>1. ~Saving'
        BY <2>1, <1>t, TakeFacts DEF Saving
      <4> QED
        BY <3>1, <3>2, <4>1, <1>t DEF StrayInv, Calm, Submitting
    <3>3. CASE ~Stray
      BY <2>1, <3>1, <3>3, <1>t, TakeFacts DEF StrayInv, Stray, Submitting
    <3> QED
      BY <3>2, <3>3
  <2>2. ASSUME NEW outcome \in {"succeeded", "failing"}, JobEnds(outcome) PROVE StrayInv'
    <3>1. UNCHANGED <<pending, failed, prompts, jobs, input, queue>> /\ work'.pc = outcome
      BY <2>2, <1>t DEF JobEnds, Place
    <3>2. CASE Stray
      BY <3>1, <3>2, <1>t DEF StrayInv, Calm, Submitting, Saving
    <3>3. CASE ~Stray
      BY <3>1, <3>3, StaysTracked DEF StrayInv, Stray, Submitting
    <3> QED
      BY <3>2, <3>3
  <2>3. CASE IgnoreResult
    <3>1. UNCHANGED <<pending, failed, prompts, jobs, input, queue>> /\ work'.pc = "idle"
      BY <2>3, <1>z DEF IgnoreResult
    <3>2. CASE Stray
      BY <3>1, <3>2, <1>t DEF StrayInv, Calm, Submitting, Saving
    <3>3. CASE ~Stray
      BY <3>1, <3>3, StaysTracked DEF StrayInv, Stray, Submitting
    <3> QED
      BY <3>2, <3>3
  <2>4. CASE \/ BeginSave \/ EndSave \/ SaveFails \/ ReviewResult \/ ReadyNotRecorded
             \/ OfferRetry \/ FailureNotRecorded
    <3>1. ~Stray
      BY <2>4, <1>t
      DEF BeginSave, EndSave, SaveFails, ReviewResult, ReadyNotRecorded, OfferRetry,
          FailureNotRecorded, StrayInv, Calm, Saving
    <3>2. /\ UNCHANGED <<prompts, input, queue>> /\ work'.pc # "running"
          /\ jobs \ {work.id} \subseteq jobs'
      BY <2>4, <1>t, <1>z
      DEF BeginSave, EndSave, SaveFails, ReviewResult, ReadyNotRecorded, OfferRetry,
          FailureNotRecorded, Place
    <3>3. ~(Submitting /\ prompts[input.prompt] = 0)'
      BY <3>1, <3>2 DEF Stray, Submitting
    <3>4. ~Stray'
      BY <3>1, <3>2, <3>3, <1>j DEF Stray
    <3> QED
      BY <3>4 DEF StrayInv
  <2> QED
    BY <1>3, <2>1, <2>2, <2>3, <2>4 DEF WorkerStep
<1>4. CASE Life
  <2>1. CASE Launch
    <3>1. queue = <<>> /\ work.pc = "idle" /\ UNCHANGED <<queue, work>> /\ work' = work /\ jobs' = {}
      BY <2>1 DEF Launch, IInv, PhaseInv
    <3>2. Stray' => (Submitting /\ prompts[input.prompt] = 0)'
      BY <3>1 DEF Stray
    <3>3. Submitting' => ~pending' /\ ~failed'
      BY <2>1, LaunchFacts DEF IInv, Submitting
    <3> QED
      BY <3>1, <3>2, <3>3 DEF StrayInv, Calm, Saving
  <2>2. CASE Cancel \/ Close
    BY <2>2, <1>t DEF Cancel, Close, StrayInv, Stray, Calm, Submitting, Saving
  <2>3. CASE Exit \/ Crash
    BY <2>3, <1>z DEF Exit, Crash, Forget, StrayInv, Stray, Submitting
  <2> QED
    BY <1>4, <2>1, <2>2, <2>3 DEF Life
<1>5. CASE UNCHANGED vars
  BY <1>5, <1>t DEF vars, StrayInv, Stray, Calm, Submitting, Saving
<1> QED
  BY <1>1, <1>2, <1>3, <1>4, <1>5 DEF Next

-----------------------------------------------------------------------------
(* The files of the worktree *)

LEMMA NextFiles == IInv /\ [Next]_vars => FilesInv'
<1> SUFFICES ASSUME IInv, [Next]_vars PROVE FilesInv'
  OBVIOUS
<1>t. /\ TypeOK /\ TokenInv /\ FreeInv /\ PhaseInv /\ OrderInv /\ StrayInv /\ FilesInv
      /\ input \in Place(InputPlaces) /\ work \in Place(WorkPlaces) /\ jobs \subseteq JobIds
  BY DEF IInv, TypeOK
<1>z. Idle.pc = "idle" /\ Idle.id = 0
      /\ \A p, e : Start(p, e).pc = "start" /\ Start(p, e).prompt = p /\ Start(p, e).execute = e
  BY DEF Idle, Start
<1>0. 0 \notin jobs
  BY <1>t, QueueFacts
<1>k. ASSUME UNCHANGED <<queue, work, jobs, worktree>>, work' = work,
             Busy => wPhase' = wPhase,
             pending' => pending /\ result' = result /\ Stage(wPhase') = Stage(wPhase),
             /\ Submitting' => (input'.execute <=> wPhase' = "implementation")
             /\ input'.pc # "tracked"
             /\ (input.pc = "start" /\ input.prompt = "free" => ~input.execute)'
      PROVE  FilesInv'
  BY <1>k, <1>t DEF FilesInv, Busy, Saving
<1>r. \A p \in Ready : Stage(Stage(p)) = Stage(p)
  BY ReadyFacts
<1>i. \A s \in Stages : Stage(s) = s
  BY StageFacts
<1> USE DEF phases, review, controller, daemon
<1>1. CASE Operator
  <2>1. CASE Approve
    <3>1. UNCHANGED <<queue, work, jobs, worktree, pending, result>> /\ work' = work /\ pending
      BY <2>1 DEF Approve
    <3>2. ~Busy /\ Stage(wPhase') = Stage(wPhase)
      BY <2>1, <1>t, <1>r DEF Approve, LeaveReady, TokenInv, PhaseInv
    <3>3. input'.pc = "approving"
      BY <2>1, <1>t DEF Approve, Place
    <3> QED
      BY <3>1, <3>2, <3>3, <1>k DEF Submitting
  <2>2. CASE Revise
    <3>1. /\ UNCHANGED <<queue, work, jobs, worktree>> /\ work' = work /\ pending /\ ~pending'
          /\ input'.pc = "start" /\ input'.prompt # "free"
          /\ input'.execute = (Stage(cPhase) = "implementation")
      BY <2>2, <1>z DEF Revise
    <3>2. ~Busy
      BY <3>1, <1>t DEF TokenInv
    <3>3. wPhase' = Stage(cPhase)
      BY <2>2, <1>t, <1>i DEF Revise, LeaveReady, PhaseInv
    <3> QED
      BY <3>1, <3>2, <3>3, <1>k DEF Submitting
  <2>3. CASE Retry
    <3>1. /\ UNCHANGED <<queue, work, jobs, worktree, pending, result, wPhase>> /\ work' = work
          /\ input'.pc = "start" /\ input'.prompt = failedPrompt
          /\ input'.execute = (cPhase = "implementation")
      BY <2>3, <1>z DEF Retry
    <3>2. failedPrompt # "free"
      BY <2>3, <1>t DEF Retry, FreeInv
    <3> QED
      BY <3>1, <3>2, <1>k, <1>t DEF Submitting, PhaseInv
  <2>4. CASE FreeText
    BY <2>4, <1>k, <1>z DEF FreeText, Submitting
  <2> QED
    BY <1>1, <2>1, <2>2, <2>3, <2>4 DEF Operator
<1>2. CASE InputStep
  <2>1. CASE PostDesign \/ PostFails \/ Publish \/ PublishFails \/ ApprovalNotRecorded
    <3>1. /\ UNCHANGED <<queue, work, jobs, worktree, pending, result, wPhase>> /\ work' = work
          /\ input'.pc \notin {"start", "tracked"}
      BY <2>1, <1>t, <1>z
      DEF PostDesign, PostFails, Publish, PublishFails, GiveUpApproval, ApprovalNotRecorded, Place
    <3> QED
      BY <3>1, <1>k DEF Submitting
  <2>2. CASE DesignApproved
    <3>1. ~Busy
      BY <2>2, <1>t DEF DesignApproved, TokenInv, Approving
    <3>2. /\ UNCHANGED <<queue, work, jobs, worktree>> /\ work' = work /\ ~pending'
          /\ wPhase' = "implementation" /\ input'.pc = "start" /\ input'.prompt # "free" /\ input'.execute
      BY <2>2, <1>z DEF DesignApproved
    <3> QED
      BY <3>1, <3>2, <1>k
  <2>3. CASE ImplementationApproved
    BY <2>3, <1>k, <1>z DEF ImplementationApproved, Submitting
  <2>4. CASE PrepareFails
    BY <2>4, <1>k, <1>z DEF PrepareFails, Submitting
  <2>5. CASE SubmitUntracked
    <3> DEFINE job == [id |-> lastJob + 1, prompt |-> input.prompt, execute |-> input.execute]
    <3>1. /\ queue' = Append(queue, job) /\ job.id = lastJob + 1
          /\ UNCHANGED <<work, jobs, worktree, pending, result, wPhase>> /\ work' = work
          /\ input'.pc = "idle"
      BY <2>5, <1>z DEF SubmitUntracked
    <3> HIDE DEF job
    <3>2. job.id \notin jobs
      BY <3>1, <1>t, QueueFacts DEF FreeInv
    <3>3. \A i \in 1 .. Len(queue') : queue'[i] = job \/ (i \in 1 .. Len(queue) /\ queue'[i] = queue[i])
      BY <3>1, <1>t, AppendFacts
    <3> QED
      BY <3>1, <3>2, <3>3, <1>t DEF FilesInv, Submitting, Saving
  <2>6. CASE Track
    <3>1. Submitting
      BY <2>6, <1>t DEF Track, FreeInv, Submitting
    <3>2. /\ UNCHANGED <<queue, work, worktree, pending, result, wPhase>> /\ work' = work
          /\ jobs' = jobs \cup {lastJob + 1}
          /\ input'.pc = "tracked" /\ input'.execute = input.execute
      BY <2>6, <1>t DEF Track, Place
    <3>3. work.id # lastJob + 1 /\ \A i \in 1 .. Len(queue) : queue[i].id # lastJob + 1
      BY <1>t, QueueFacts DEF FreeInv
    <3> QED
      BY <3>1, <3>2, <3>3, <1>t DEF FilesInv, Submitting, Saving
  <2>7. CASE Submit
    <3> DEFINE job == [id |-> input.id, prompt |-> input.prompt, execute |-> input.execute]
    <3>1. /\ queue' = Append(queue, job) /\ job.execute = input.execute
          /\ UNCHANGED <<work, jobs, worktree, pending, result, wPhase>> /\ work' = work
          /\ input'.pc = "idle" /\ input.pc = "tracked"
      BY <2>7, <1>z DEF Submit
    <3> HIDE DEF job
    <3>2. job.execute <=> wPhase = "implementation"
      BY <3>1, <1>t DEF FilesInv
    <3>3. \A i \in 1 .. Len(queue') : queue'[i] = job \/ (i \in 1 .. Len(queue) /\ queue'[i] = queue[i])
      BY <3>1, <1>t, AppendFacts
    <3> QED
      BY <3>1, <3>2, <3>3, <1>t DEF FilesInv, Submitting, Saving
  <2>8. CASE StartFails
    <3>1. /\ UNCHANGED <<queue, work, worktree, pending, result, wPhase>> /\ work' = work
          /\ jobs' \subseteq jobs /\ input'.pc = "idle"
      BY <2>8, <1>z DEF StartFails
    <3> QED
      BY <3>1, <1>t DEF FilesInv, Submitting, Saving
  <2> QED
    BY <1>2, <2>1, <2>2, <2>3, <2>4, <2>5, <2>6, <2>7, <2>8 DEF InputStep
<1>3. CASE WorkerStep
  <2>1. CASE TakeJob
    <3>1. UNCHANGED <<input, jobs, worktree, pending, result, wPhase>>
      BY <2>1 DEF TakeJob
    <3> QED
      BY <2>1, <3>1, <1>t, TakeFacts DEF FilesInv, Submitting, Saving
  <2>2. ASSUME NEW outcome \in {"succeeded", "failing"}, JobEnds(outcome) PROVE FilesInv'
    <3>1. /\ UNCHANGED <<input, queue, jobs, pending, result, wPhase>>
          /\ work.pc = "running" /\ work'.pc = outcome /\ work'.id = work.id /\ work'.execute = work.execute
          /\ ~work.execute => worktree' = worktree
          /\ work.execute /\ outcome = "succeeded" => worktree' = work.id
      BY <2>2, <1>t DEF JobEnds, Place
    <3>2. work.execute => ~pending
      <4>1. CASE work.id \in jobs
        BY <4>1, <1>t DEF TokenInv, Busy
      <4>2. CASE work.id \notin jobs /\ work.execute
        BY <3>1, <4>2, <1>t DEF StrayInv, Stray, Calm
      <4> QED
        BY <4>1, <4>2
    <3> QED
      BY <3>1, <3>2, <1>t DEF FilesInv, Submitting, Saving
  <2>3. CASE IgnoreResult
    BY <2>3, <1>t, <1>z, <1>0 DEF IgnoreResult, FilesInv, Submitting, Saving
  <2>4. CASE BeginSave
    <3>1. /\ UNCHANGED <<input, queue, worktree, pending, result, wPhase>>
          /\ work.pc = "succeeded" /\ work.id \in jobs /\ jobs' \subseteq jobs
          /\ work'.pc = "saving" /\ work'.id = work.id /\ work'.execute = work.execute
      BY <2>4, <1>t DEF BeginSave, Place
    <3> QED
      BY <3>1, <1>t DEF FilesInv, Submitting, Saving
  <2>5. CASE EndSave
    <3>1. /\ UNCHANGED <<input, queue, jobs, worktree, pending, result, wPhase>>
          /\ work.pc = "saving"
          /\ work'.pc = "saved" /\ work'.id = work.id /\ work'.execute = work.execute
      BY <2>5, <1>t DEF EndSave, Place
    <3> QED
      BY <3>1, <1>t DEF FilesInv, Submitting, Saving
  <2>6. CASE SaveFails \/ ReadyNotRecorded \/ OfferRetry \/ FailureNotRecorded
    <3>1. /\ UNCHANGED <<input, queue, worktree, pending, result, wPhase>>
          /\ jobs' \subseteq jobs /\ work' = Idle
      BY <2>6 DEF SaveFails, ReadyNotRecorded, OfferRetry, FailureNotRecorded
    <3> QED
      BY <3>1, <1>t, <1>z, <1>0 DEF FilesInv, Submitting, Saving
  <2>7. CASE ReviewResult
    <3>1. /\ UNCHANGED <<input, queue, jobs, worktree, wPhase>> /\ Saving
          /\ result' = work.id /\ work' = Idle
      BY <2>7 DEF ReviewResult, Saving
    <3>2. wPhase \in Stages
      BY <3>1, <1>t DEF PhaseInv, TokenInv, Busy
    <3>3. Stage(wPhase) = "implementation" => worktree = work.id
      BY <3>1, <3>2, <1>t, <1>i DEF FilesInv
    <3> QED
      BY <3>1, <3>3, <1>t, <1>z, <1>0 DEF FilesInv, Submitting, Saving
  <2> QED
    BY <1>3, <2>1, <2>2, <2>3, <2>4, <2>5, <2>6, <2>7 DEF WorkerStep
<1>4. CASE Life
  <2>1. CASE Launch
    <3>1. /\ queue = <<>> /\ work.pc = "idle" /\ UNCHANGED <<queue, work>> /\ work' = work
          /\ jobs' = {} /\ worktree' = 0
      BY <2>1, <1>t DEF Launch, PhaseInv
    <3>2. /\ input'.pc \in {"idle", "start"}
          /\ input'.pc = "start" => /\ input'.prompt # "free"
                                    /\ input'.execute <=> wPhase' = "implementation"
      BY <2>1, LaunchFacts, LaunchInput DEF IInv
    <3> QED
      BY <3>1, <3>2 DEF FilesInv, Submitting, Saving
  <2>2. CASE Cancel \/ Close
    BY <2>2, <1>t DEF Cancel, Close, FilesInv, Submitting, Saving
  <2>3. CASE Exit \/ Crash
    BY <2>3, <1>z DEF Exit, Crash, Forget, FilesInv, Submitting, Saving
  <2> QED
    BY <1>4, <2>1, <2>2, <2>3 DEF Life
<1>5. CASE UNCHANGED vars
  BY <1>5, <1>t DEF vars, FilesInv, Submitting, Saving
<1> QED
  BY <1>1, <1>2, <1>3, <1>4, <1>5 DEF Next

-----------------------------------------------------------------------------
(* The published implementation *)

PublishKept ==
  /\ UNCHANGED <<artifact, pushed, described>>
  /\ input'.pc = "published" => input.pc = "published" /\ wPhase' = wPhase
  /\ db' = "pr_created" => /\ db = "pr_created"
                           /\ Busy' => Busy
                           /\ UNCHANGED <<pending, failed, proc, input>>

LEMMA KeepPublish == IInv /\ PublishKept => PublishInv'
BY DEF IInv, PublishInv, Published, PublishKept

LEMMA NextPublish == IInv /\ [Next]_vars => PublishInv'
<1> SUFFICES ASSUME IInv, [Next]_vars PROVE PublishInv'
  OBVIOUS
<1>t. TokenInv /\ PhaseInv /\ StoreInv /\ PublishInv
  BY DEF IInv
<1>p. /\ input \in Place(InputPlaces) /\ work \in Place(WorkPlaces)
      /\ artifact \in [Stages -> Version] /\ db \in States /\ wPhase \in Phases
  BY DEF IInv, TypeOK
<1>k. PublishKept => PublishInv'
  BY KeepPublish
<1>d. db = "pr_created" => ~Busy /\ ~pending /\ ~failed /\ proc \in {"off", "closed"} /\ input.pc = "idle"
  BY <1>t DEF PublishInv
<1>n. "pr_created" \notin Running \cup Failed \cup Ready
  BY DEF Running, Failed, Ready
<1> USE <1>t, <1>p, <1>d DEF phases, review, controller, daemon, store, Saving, Place
<1>1. CASE Operator
  <2>1. db # "pr_created" /\ db' = db /\ input'.pc # "published" /\ UNCHANGED <<artifact, pushed, described>>
    BY <1>1 DEF Operator, Approve, Revise, Retry, FreeText, Reads, Start
  <2> QED
    BY <2>1, <1>k DEF PublishKept
<1>2. CASE InputStep
  <2>0. db # "pr_created"
    BY <1>2
    DEF InputStep, PostDesign, PostFails, Publish, PublishFails, DesignApproved, ImplementationApproved,
        ApprovalNotRecorded, PrepareFails, SubmitUntracked, Track, Submit, StartFails
  <2>1. CASE PostDesign \/ PostFails \/ ApprovalNotRecorded
    BY <2>0, <2>1, <1>k
    DEF PostDesign, PostFails, GiveUpApproval, ApprovalNotRecorded, SetStateFails, Idle, PublishKept
  <2>2. CASE Publish \/ PublishFails
    <3>1. pending /\ wPhase = "implementation" /\ cPhase = "implementation"
      BY <2>2 DEF Publish, PublishFails, TokenInv, Approving, PhaseInv
    <3>2. Stage("implementation") = "implementation" /\ ArtifactOf("implementation") = "implementation"
      BY StageFacts DEF Stages
    <3>3. artifact["implementation"] # 0
      BY <3>1, <3>2, JobIdsNat DEF StoreInv, ReviewedResultIsSaved
    <3>4. input'.pc = "published" => Published'
      <4>1. CASE Publish
        <5>1. worktree = result /\ result = artifact["implementation"]
          BY <4>1, <3>1, <3>2 DEF Publish, IInv, FilesInv, StoreInv, ReviewedResultIsSaved
        <5> QED
          BY <4>1, <5>1, <3>1, <3>2, <3>3 DEF Publish, Push, Describe, Published
      <4>2. CASE PublishFails
        BY <4>2 DEF PublishFails, GiveUpApproval, Idle
      <4> QED
        BY <2>2, <4>1, <4>2
    <3>5. UNCHANGED <<db, wPhase>>
      BY <2>2 DEF Publish, PublishFails, GiveUpApproval
    <3> QED
      BY <2>0, <3>1, <3>4, <3>5 DEF PublishInv
  <2>3. CASE DesignApproved
    BY <2>3, <1>k DEF DesignApproved, SetState, Start, PublishKept
  <2>4. CASE ImplementationApproved
    <3>1. pending /\ ~failed /\ ~Busy
      BY <2>4 DEF ImplementationApproved, TokenInv, Approving, Busy
    <3>2. ~Busy' /\ ~pending' /\ ~failed' /\ proc' = "closed" /\ input'.pc = "idle"
      BY <2>4, <3>1 DEF ImplementationApproved, Idle, Busy
    <3>3. Published'
      BY <2>4 DEF ImplementationApproved, PublishInv, Published
    <3> QED
      BY <2>4, <3>2, <3>3 DEF ImplementationApproved, PublishInv
  <2>5. CASE PrepareFails \/ SubmitUntracked
    BY <2>0, <2>5, <1>k DEF PrepareFails, SubmitUntracked, Idle, PublishKept
  <2>6. CASE Track
    BY <2>0, <2>6, <1>k DEF Track, PublishKept
  <2>7. CASE Submit \/ StartFails
    <3>1. wPhase \in Stages
      BY <2>7 DEF Submit, StartFails, TokenInv, PhaseInv, Busy
    <3>2. db' # "pr_created"
      BY <2>0, <2>7, <3>1, <1>n, StageFacts DEF Submit, StartFails, SetState, SetStateFails
    <3> QED
      BY <2>7, <3>2, <1>k DEF Submit, StartFails, Idle, PublishKept
  <2> QED
    BY <1>2, <2>1, <2>2, <2>3, <2>4, <2>5, <2>6, <2>7 DEF InputStep
<1>3. CASE WorkerStep
  <2>1. CASE TakeJob \/ IgnoreResult
    BY <2>1, <1>k DEF TakeJob, IgnoreResult, Idle, PublishKept, Busy
  <2>2. ASSUME NEW outcome \in {"succeeded", "failing"}, JobEnds(outcome) PROVE PublishInv'
    BY <2>2, <1>k DEF JobEnds, PublishKept, Busy
  <2>3. CASE BeginSave \/ EndSave
    <3>1. Busy /\ input.pc \notin {"published"}
      BY <2>3 DEF BeginSave, EndSave, Busy, TokenInv, Approving
    <3>2. db' # "pr_created" /\ input'.pc # "published"
      BY <2>3, <3>1 DEF BeginSave, EndSave
    <3> QED
      BY <3>2 DEF PublishInv
  <2>4. CASE SaveFails \/ ReviewResult \/ ReadyNotRecorded \/ OfferRetry \/ FailureNotRecorded
    <3>1. Busy
      BY <2>4 DEF SaveFails, ReviewResult, ReadyNotRecorded, OfferRetry, FailureNotRecorded, Busy
    <3>2. wPhase \in Stages /\ db # "pr_created"
      BY <3>1 DEF PhaseInv, TokenInv
    <3>3. db' # "pr_created"
      BY <2>4, <3>2, <1>n, StageFacts
      DEF SaveFails, ReviewResult, ReadyNotRecorded, OfferRetry, FailureNotRecorded, SetState, SetStateFails
    <3> QED
      BY <2>4, <3>3, <1>k
      DEF SaveFails, ReviewResult, ReadyNotRecorded, OfferRetry, FailureNotRecorded, PublishKept
  <2> QED
    BY <1>3, <2>1, <2>2, <2>3, <2>4 DEF WorkerStep
<1>4. CASE Life
  <2>1. CASE Launch
    <3>1. Stored # "pr_created" /\ db' = Stored
      BY <2>1, LaunchFacts DEF IInv, Launch
    <3>2. input'.pc # "published"
      BY <2>1, LaunchFacts DEF IInv
    <3> QED
      BY <3>1, <3>2 DEF PublishInv
  <2>2. CASE Cancel \/ Close
    BY <2>2, <1>k DEF Cancel, Close, PublishKept
  <2>3. CASE Exit \/ Crash
    BY <2>3 DEF Exit, Crash, Forget, Idle, PublishInv, Published, Busy
  <2> QED
    BY <1>4, <2>1, <2>2, <2>3 DEF Life
<1>5. CASE UNCHANGED vars
  BY <1>5, <1>k DEF vars, PublishKept, Busy
<1> QED
  BY <1>1, <1>2, <1>3, <1>4, <1>5 DEF Next

-----------------------------------------------------------------------------
(* The theorems *)

\* The strengthened invariant is inductive, and holds in every reachable state.
THEOREM Inductive == Spec => []IInv
<1>1. IInv /\ [Next]_vars => IInv'
  BY NextType, NextToken, NextFree, NextPhase, NextStore, NextPost, NextOrder, NextStray, NextFiles, NextPublish DEF IInv
<1> QED
  BY InitInv, <1>1, PTL DEF Spec

\* The worker never finishes a tracked job beside an input of the operator that
\* reads or changes the phase.
THEOREM OneTrackedJobHolds == Spec => []OneTrackedJob
<1>1. IInv => OneTrackedJob
  BY DEF IInv, TokenInv, OneTrackedJob, Busy
<1> QED
  BY Inductive, <1>1, PTL

\* The two copies of the phase agree in every process.
THEOREM PhasesAgreeHolds == Spec => []PhasesAgree
<1>1. IInv => PhasesAgree
  BY DEF IInv, PhaseInv, PhasesAgree
<1> QED
  BY Inductive, <1>1, PTL

\* What the operator reviews is what Approve reads, after crashes and failed
\* writes too.
THEOREM ReviewedResultIsSavedHolds == Spec => []ReviewedResultIsSaved
<1>1. IInv => ReviewedResultIsSaved
  BY DEF IInv, StoreInv
<1> QED
  BY Inductive, <1>1, PTL

\* An implementation follows the design that the issue shows.
THEOREM ImplementationFollowsPostedDesignHolds == Spec => []ImplementationFollowsPostedDesign
<1>1. IInv => ImplementationFollowsPostedDesign
  BY DEF IInv, PostInv, Posted, ImplementationFollowsPostedDesign
<1> QED
  BY Inductive, <1>1, PTL

\* A finished issue has a pull request, and its branch the reviewed files.
THEOREM PullRequestHoldsArtifactHolds == Spec => []PullRequestHoldsArtifact
<1>1. IInv => PullRequestHoldsArtifact
  BY DEF IInv, PublishInv, Published, PullRequestHoldsArtifact
<1> QED
  BY Inductive, <1>1, PTL
=============================================================================
