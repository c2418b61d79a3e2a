----------------------------- MODULE PRReviewProofs -----------------------------
(***************************************************************************)
(* Proofs about the workflow of a pull request, for every set of labels    *)
(* and of faults, with and without verification, and for any number of     *)
(* jobs and selections.                                                    *)
(*                                                                         *)
(* The argument is that of a token, as for an issue: a pending result, a   *)
(* failure, a fix that waits for the operator, a decision or a prompt on   *)
(* its way, a tracked job and a result that is being saved exclude each    *)
(* other, and nobody but its holder changes the phase.                     *)
(***************************************************************************)
EXTENDS PRReview, TLAPS

Deciding == input.pc \in {"preparing", "posting", "posted"}
Submitting == input.pc = "start" /\ input.prompt # "free"
Saving == work.pc \in {"saving", "saved"}
Busy == jobs # {} \/ Saving
Quiet == ~Busy /\ ~pending /\ ~failed /\ ~awaiting /\ input.pc = "idle" /\ queue = <<>> /\ work.pc = "idle"

\* Who holds the token.
TokenInv ==
  /\ \A i, j \in jobs : i = j
  /\ Busy => ~pending /\ ~failed /\ ~awaiting /\ ~Deciding /\ ~Submitting
  /\ Saving => jobs = {}
  /\ ~(pending /\ failed) /\ ~(pending /\ awaiting) /\ ~(failed /\ awaiting)
  /\ Deciding => pending
  /\ Submitting => ~pending /\ ~failed /\ ~awaiting
  /\ input.pc = "tracked" => input.id \in jobs

\* What is tracked, or will be, is of the phase; a text of the operator never is.
PromptInv ==
  /\ failed => failedPrompt = phase
  /\ Submitting => input.prompt = phase
  /\ input.pc = "tracked" => /\ input.prompt = phase /\ input.id # work.id
                             /\ \A k \in 1 .. Len(queue) : queue[k].id # input.id
  /\ work.id \in jobs \/ Saving => work.prompt = phase
  /\ \A k \in 1 .. Len(queue) : queue[k].id \in jobs => queue[k].prompt = phase
  /\ work.id <= lastJob
  /\ \A k \in 1 .. Len(queue) : queue[k].id <= lastJob
  /\ \A j \in jobs : j <= lastJob

\* The phases, and that nothing is left of a process that has ended.
PhaseInv ==
  /\ awaiting => phase = "fix"
  /\ phase = "review_approved" => Quiet
  /\ proc = "off" => Quiet /\ phase = "review" /\ ~command

\* A result up for review is the saved one, and a decision is of a posted one.
ResultInv ==
  /\ Saving => phase \in Works /\ work.id \in JobIds
  /\ work.pc = "saved" => artifact[ArtifactOf(phase)] = work.id
  /\ pending => phase \in Works /\ result \in JobIds /\ artifact[ArtifactOf(phase)] = result
  /\ input.pc = "preparing" => input.decision = "verify"
  /\ Deciding /\ input.decision = "verify" => phase = "review"
  /\ input.pc = "posted" => posted[phase] = artifact[ArtifactOf(phase)]

IInv == TypeOK /\ TokenInv /\ PromptInv /\ PhaseInv /\ ResultInv /\ VerificationKeepsDecision /\ CommandIsStopped

LEMMA JobIdsNat ==
  /\ JobIds \subseteq Nat /\ 0 \notin JobIds /\ Torn \notin JobIds /\ Torn # 0
  /\ 0 \in Version /\ Torn \in Version /\ JobIds \subseteq Version /\ 0 .. MaxJob \subseteq Version
BY PRReviewAssumption DEF JobIds, Torn, Version

LEMMA StateTypes ==
  /\ \A p \in Phases : StartState(p) \in Running /\ ReadyState(p) \in Ready /\ FailedState(p) \in Failed
  /\ \A p \in Phases, d \in Decisions : DecidedState(p, d) \in Decided
  /\ \A p \in Phases : ArtifactOf(p) \in Works
  /\ Works \subseteq Stages /\ Stages \subseteq Phases /\ Works \subseteq Phases /\ Stages \subseteq Prompts
  /\ Failed \cup Running \cup Ready \cup Decided \subseteq States
BY DEF StartState, ReadyState, FailedState, DecidedState, ArtifactOf, Phases, Stages, Works, States,
       Failed, Running, Ready, Decided, Prompts

\* What is loaded for a pull request.
LEMMA LoadedTypes ==
  \A state \in States, conflicted \in BOOLEAN :
    LET loaded == PhaseFor(state, conflicted) IN
    /\ loaded \in {"review", "fix", "conflict", "review_approved"} \cup Failed
    /\ StateForPhase(loaded) \in States
BY DEF PhaseFor, StateForPhase, States, Failed, Running, Ready, Decided

LEMMA RetryTypes ==
  \A loaded \in {"review", "fix", "conflict", "review_approved"} \cup Failed :
    /\ RetriedIn(loaded) \in {"review", "fix", "conflict", "review_approved"}
    /\ loaded \in Failed => RetriedIn(loaded) \in Works
    /\ loaded \notin Failed => RetriedIn(loaded) = loaded
BY DEF RetriedIn, Failed, Works

\* Where a goroutine can be.
LEMMA Places ==
  /\ Idle \in InputType /\ NoWork \in WorkType
  /\ \A prompt \in Prompts : Start(prompt) \in InputType
  /\ Idle.pc = "idle" /\ NoWork.pc = "idle" /\ NoWork.id = 0
  /\ \A prompt \in Prompts : Start(prompt).pc = "start" /\ Start(prompt).prompt = prompt
<1>1. Idle \in InputType /\ NoWork \in WorkType
  BY PRReviewAssumption DEF Idle, NoWork, InputType, WorkType, InputPlaces, WorkPlaces, Prompts, Decisions
<1>2. Idle.pc = "idle" /\ NoWork.pc = "idle" /\ NoWork.id = 0
  BY DEF Idle, NoWork
<1>3. ASSUME NEW prompt \in Prompts
      PROVE  /\ Start(prompt) \in InputType
             /\ Start(prompt).pc = "start" /\ Start(prompt).prompt = prompt
  <2>1. "start" \in InputPlaces
    BY DEF InputPlaces
  <2>2. Start(prompt) \in InputType
    BY <1>1, <2>1 DEF Start, InputType
  <2>3. Start(prompt).pc = "start" /\ Start(prompt).prompt = prompt
    BY DEF Start, Idle
  <2> QED
    BY <2>2, <2>3
<1> QED
  BY <1>1, <1>2, <1>3

LEMMA Move ==
  ASSUME TypeOK
  PROVE  /\ \A pc \in InputPlaces : [input EXCEPT !.pc = pc] \in InputType
         /\ \A pc \in WorkPlaces : [work EXCEPT !.pc = pc] \in WorkType
BY DEF InputType, WorkType, TypeOK

LEMMA DecideMove ==
  \A pc \in InputPlaces, d \in Decisions : [Idle EXCEPT !.pc = pc, !.decision = d] \in InputType
BY Places DEF InputType

\* What a selection starts from.
LEMMA LaunchFacts ==
  ASSUME TypeOK, Launch
  PROVE  /\ db' \in States /\ proc = "off" /\ proc' = "on"
         /\ phase' \in {"review", "fix", "conflict", "review_approved"}
         /\ failed' \in BOOLEAN /\ awaiting' \in BOOLEAN
         /\ failed' => failedPrompt' = phase' /\ ~awaiting' /\ input' = Idle /\ phase' \in Works
         /\ failedPrompt' \in Prompts
         /\ awaiting' => phase' = "fix" /\ input' = Idle
         /\ input' = Idle \/ (input' = Start(phase') /\ phase' \in Works)
         /\ UNCHANGED <<artifact, posted, jobs, pending, result, command, queue, work, lastJob, lost>>
<1>1. PICK conflicted \in BOOLEAN :
        LET stored == IF db = "none" THEN StateForPhase(PhaseFor(label, conflicted)) ELSE db
            loaded == PhaseFor(stored, conflicted) IN
        /\ db' = stored
        /\ phase' = RetriedIn(loaded)
        /\ failed' = (loaded \in Failed)
        /\ failedPrompt' = IF loaded \in Failed THEN RetriedIn(loaded) ELSE "free"
        /\ awaiting' = (loaded = "fix")
        /\ input' = IF loaded \in {"review", "conflict"} THEN Start(loaded) ELSE Idle
  BY DEF Launch
<1> DEFINE stored == IF db = "none" THEN StateForPhase(PhaseFor(label, conflicted)) ELSE db
           loaded == PhaseFor(stored, conflicted)
<1>2. label \in States /\ db \in States
  BY LabelsAssumption DEF TypeOK
<1>3. stored \in States
  BY <1>2, LoadedTypes
<1> HIDE DEF stored
<1>4. loaded \in {"review", "fix", "conflict", "review_approved"} \cup Failed
  BY <1>3, LoadedTypes
<1>5. /\ db' = stored
      /\ phase' = RetriedIn(loaded)
      /\ failed' = (loaded \in Failed)
      /\ failedPrompt' = IF loaded \in Failed THEN RetriedIn(loaded) ELSE "free"
      /\ awaiting' = (loaded = "fix")
      /\ input' = IF loaded \in {"review", "conflict"} THEN Start(loaded) ELSE Idle
  BY <1>1 DEF stored
<1> HIDE DEF loaded
<1>6. "free" \in Prompts /\ Works \subseteq Prompts /\ "fix" \notin Failed /\ "review" \notin Failed
      /\ "conflict" \notin Failed /\ {"review", "fix", "conflict"} = Works
  BY DEF Prompts, Stages, Works, Failed
<1>7. failedPrompt' \in Prompts
  BY <1>4, <1>5, <1>6, RetryTypes
<1>8. phase' \in {"review", "fix", "conflict", "review_approved"}
  BY <1>4, <1>5, RetryTypes
<1>9. failed' => failedPrompt' = phase' /\ ~awaiting' /\ input' = Idle /\ phase' \in Works
  BY <1>4, <1>5, <1>6, RetryTypes
<1>10. awaiting' => phase' = "fix" /\ input' = Idle
  BY <1>4, <1>5, <1>6, RetryTypes
<1>11. input' = Idle \/ (input' = Start(phase') /\ phase' \in Works)
  BY <1>4, <1>5, <1>6, RetryTypes
<1> QED
  BY <1>3, <1>5, <1>7, <1>8, <1>9, <1>10, <1>11 DEF Launch

LEMMA InitInv == Init => IInv
<1> SUFFICES ASSUME Init PROVE IInv
  OBVIOUS
<1> USE PRReviewAssumption, LabelsAssumption DEF Init
<1>1. 0 \in Version /\ "free" \in Prompts /\ "none" \in States /\ "review" \in Phases /\ 0 \in 0 .. MaxJob
      /\ 0 \in 0 .. MaxStart /\ queue \in Seq(Job)
  BY JobIdsNat DEF Prompts, States, Phases, Stages, Works
<1>2. TypeOK
  BY <1>1, Places DEF TypeOK
<1>3. TokenInv
  BY Places DEF TokenInv, Busy, Saving, Deciding, Submitting
<1>4. PromptInv
  BY Places DEF PromptInv, Saving, Submitting
<1>5. PhaseInv
  BY Places DEF PhaseInv, Quiet, Busy, Saving
<1>6. ResultInv
  BY Places DEF ResultInv, Saving, Deciding
<1>7. VerificationKeepsDecision /\ CommandIsStopped
  BY DEF VerificationKeepsDecision, CommandIsStopped
<1> QED
  BY <1>2, <1>3, <1>4, <1>5, <1>6, <1>7 DEF IInv

-----------------------------------------------------------------------------
(* Types *)

LEMMA NextType == IInv /\ [Next]_vars => TypeOK'
<1> SUFFICES ASSUME IInv, [Next]_vars PROVE TypeOK'
  OBVIOUS
<1>t. TypeOK
  BY DEF IInv
<1>u. /\ pending => phase \in Works
      /\ failed => failedPrompt = phase /\ failedPrompt \in Prompts
  BY DEF IInv, ResultInv, PromptInv, TypeOK
<1> USE <1>t DEF TypeOK, store, review, controller, daemon
<1>a. {"posting", "posted", "tracked", "preparing"} \subseteq InputPlaces
      /\ {"saving", "saved", "succeeded", "failing", "running"} \subseteq WorkPlaces
      /\ {"none", "approve", "verify", "changes"} \subseteq Decisions
  BY DEF InputPlaces, WorkPlaces, Decisions
<1>b. {"free", "fix", "review", "conflict", "verification"} \subseteq Prompts
      /\ {"fix", "review", "conflict", "verification"} \subseteq Stages
      /\ {"fix", "review", "conflict", "verification"} \subseteq Phases
      /\ "completed" \in States /\ {"waiting", "pr_review_comment"} \subseteq States
      /\ Works \subseteq Prompts
  BY DEF Prompts, Stages, Works, Phases, States, Decided
<1>c. input.prompt \in Prompts /\ input.id \in 0 .. MaxJob /\ input.decision \in Decisions
      /\ work.id \in 0 .. MaxJob /\ work.prompt \in Prompts /\ work.pc \in WorkPlaces
      /\ work.id \in Version
  BY JobIdsNat DEF InputType, WorkType
<1>d. lastJob < MaxJob => lastJob + 1 \in 0 .. MaxJob /\ lastJob + 1 \in JobIds
  BY PRReviewAssumption DEF JobIds
<1>e. \A s \in Stages, v \in Version : [artifact EXCEPT ![s] = v] \in [Stages -> Version]
  OBVIOUS
<1>f. \A s \in Stages, v \in Version : [posted EXCEPT ![s] = v] \in [Works -> Version]
  OBVIOUS
<1>g. \A p \in Phases : artifact[ArtifactOf(p)] \in Version /\ ArtifactOf(p) \in Stages
  BY StateTypes
<1>1. CASE Operator
  <2>1. CASE Decide
    <3>1. input' \in InputType
      <4>1. PICK pc \in {"posting", "preparing"}, d \in {"approve", "verify", "changes"} :
              input' = [Idle EXCEPT !.pc = pc, !.decision = d]
        BY <2>1 DEF Decide
      <4> QED
        BY <4>1, <1>a, DecideMove
    <3> QED
      BY <2>1, <3>1 DEF Decide
  <2>2. CASE Revise
    BY <2>2, <1>b, <1>u, JobIdsNat, Places DEF Revise, Reviews
  <2>3. CASE StartFix \/ FreeText
    BY <2>3, <1>b, JobIdsNat, Places DEF StartFix, FreeText
  <2>4. CASE Leave \/ Complete
    BY <2>4, <1>b, Places DEF Leave, Complete, Restart, SetState
  <2>5. CASE ReviewAgain
    BY <2>5, <1>b, JobIdsNat, Places DEF ReviewAgain
  <2>6. CASE Retry
    BY <2>6, <1>b, <1>u, JobIdsNat, Places DEF Retry
  <2> QED
    BY <1>1, <2>1, <2>2, <2>3, <2>4, <2>5, <2>6 DEF Operator
<1>2. CASE InputStep
  <2>1. CASE StartVerification
    BY <2>1, <1>a, Move DEF StartVerification
  <2>2. CASE VerificationDoesNotStart \/ DecisionNotRecorded \/ PrepareFails
    BY <2>2, <1>d, Places DEF VerificationDoesNotStart, DecisionNotRecorded, PrepareFails, SetStateFails
  <2>3. CASE Post
    BY <2>3, <1>a, <1>f, <1>g, Move DEF Post
  <2>4. CASE PostFails
    BY <2>4, <1>f, <1>g, Places DEF PostFails
  <2>5. CASE RecordDecision
    <3>1. db' \in States /\ lost' = FALSE
      BY <2>5, <1>c, StateTypes DEF RecordDecision, SetState
    <3>2. input' \in InputType /\ proc' \in {"off", "on", "cancelled", "closed"} /\ phase' \in Phases
          /\ pending' \in BOOLEAN /\ result' \in Version /\ command' \in BOOLEAN
      BY <2>5, <1>b, Places, JobIdsNat DEF RecordDecision, Restart
    <3> QED
      BY <2>5, <3>1, <3>2 DEF RecordDecision
  <2>6. CASE SubmitUntracked
    <3>1. [id |-> lastJob + 1, prompt |-> input.prompt] \in Job
      BY <2>6, <1>c, <1>d DEF SubmitUntracked, Job
    <3> QED
      BY <2>6, <3>1, <1>d, Places DEF SubmitUntracked
  <2>7. CASE Track
    <3>1. input' \in InputType
      BY <2>7, <1>a, <1>d DEF Track, InputType
    <3> QED
      BY <2>7, <3>1, <1>d DEF Track
  <2>8. CASE Submit
    <3>1. [id |-> input.id, prompt |-> input.prompt] \in Job
      BY <1>c DEF Job
    <3>2. db' \in States /\ lost' \in BOOLEAN
      BY <2>8, StateTypes DEF Submit, SetState
    <3> QED
      BY <2>8, <3>1, <3>2, Places DEF Submit
  <2>9. CASE StartFails
    BY <2>9, Places DEF StartFails, SetStateFails
  <2> QED
    BY <1>2, <2>1, <2>2, <2>3, <2>4, <2>5, <2>6, <2>7, <2>8, <2>9 DEF InputStep
<1>3. CASE WorkerStep
  <2>1. CASE TakeJob
    <3>1. Head(queue) \in Job /\ Tail(queue) \in Seq(Job)
      BY <2>1 DEF TakeJob
    <3> QED
      BY <2>1, <3>1, <1>a DEF TakeJob, WorkType, Job
  <2>2. ASSUME NEW outcome \in {"succeeded", "failing"}, JobEnds(outcome) PROVE TypeOK'
    BY <2>2, <1>a, Move DEF JobEnds
  <2>3. CASE IgnoreResult \/ ReadyNotRecorded \/ FailureNotRecorded
    BY <2>3, Places DEF IgnoreResult, ReadyNotRecorded, FailureNotRecorded, SetStateFails
  <2>4. CASE EndVerification
    <3>1. artifact' \in [Stages -> Version]
      BY <2>4, <1>b, <1>c, <1>e, JobIdsNat DEF EndVerification
    <3> QED
      BY <2>4, <3>1, <1>c, Places DEF EndVerification
  <2>5. CASE BeginSave
    BY <2>5, <1>a, <1>e, <1>g, JobIdsNat, Move DEF BeginSave
  <2>6. CASE EndSave
    BY <2>6, <1>a, <1>c, <1>e, <1>g, Move DEF EndSave
  <2>7. CASE SaveFails
    BY <2>7, Places, StateTypes DEF SaveFails, SetState, SetStateFails
  <2>8. CASE ReviewResult
    BY <2>8, <1>c, Places, StateTypes DEF ReviewResult, SetState
  <2>9. CASE OfferRetry
    BY <2>9, <1>c, Places, StateTypes DEF OfferRetry, SetState
  <2> QED
    BY <1>3, <2>1, <2>2, <2>3, <2>4, <2>5, <2>6, <2>7, <2>8, <2>9 DEF WorkerStep
<1>4. CASE Life
  <2>1. CASE Launch
    <3>1. input' \in InputType /\ phase' \in Phases
      BY <2>1, <1>b, LaunchFacts, Places DEF Phases, Stages
    <3>2. starts' \in 0 .. MaxStart
      BY <2>1, PRReviewAssumption DEF Launch
    <3> QED
      BY <2>1, <3>1, <3>2, LaunchFacts DEF Launch
  <2>2. CASE Cancel \/ Close
    BY <2>2 DEF Cancel, Close
  <2>3. CASE Exit \/ Crash
    <3>1. Forget /\ lost' \in BOOLEAN
      BY <2>3 DEF Exit, Crash
    <3>2. <<>> \in Seq(Job)
      OBVIOUS
    <3>3. "free" \in Prompts /\ "review" \in Phases /\ 0 \in Version
      BY <1>b, JobIdsNat
    <3> QED
      BY <3>1, <3>2, <3>3, Places DEF Forget
  <2> QED
    BY <1>4, <2>1, <2>2, <2>3 DEF Life
<1>5. CASE Environment
  BY <1>5, <1>b DEF Environment, TheyClose, SetStatus, CommandEnds, SetState
<1>6. CASE UNCHANGED vars
  BY <1>6 DEF vars
<1> QED
  BY <1>1, <1>2, <1>3, <1>4, <1>5, <1>6 DEF Next

-----------------------------------------------------------------------------
(* The token *)

LEMMA StartFacts == \A prompt : Start(prompt).pc = "start" /\ Start(prompt).prompt = prompt
BY DEF Start, Idle

\* Who decides holds the token, and gives it up, keeps it, or goes on with it.
LEMMA RecordFacts ==
  ASSUME IInv, RecordDecision
  PROVE  /\ input.pc = "posted" /\ pending /\ ~failed /\ ~awaiting /\ jobs = {} /\ ~Saving
         /\ db' = DecidedState(phase, input.decision)
         /\ UNCHANGED <<label, open, artifact, posted, starts, jobs, awaiting, failed, failedPrompt, queue, work,
                        lastJob>>
         /\ \/ phase = "fix" /\ input' = Idle /\ UNCHANGED <<proc, phase, pending, result, command>>
            \/ /\ input.decision = "verify" /\ ~pending' /\ phase' = "verification"
               /\ input' = Start("verification") /\ UNCHANGED <<proc, command>>
            \/ ~pending' /\ Restart /\ phase' = phase
         /\ ~pending' \/ UNCHANGED <<phase, pending, result>>
<1>1. input.pc = "posted"
  BY DEF RecordDecision
<1>2. pending /\ ~failed /\ ~awaiting /\ jobs = {} /\ ~Saving
  BY <1>1 DEF IInv, TokenInv, Deciding, Busy
<1>3. \/ phase = "fix" /\ input' = Idle /\ UNCHANGED <<proc, phase, pending, result, command>>
      \/ /\ input.decision = "verify" /\ ~pending' /\ phase' = "verification"
         /\ input' = Start("verification") /\ UNCHANGED <<proc, command>>
      \/ ~pending' /\ Restart /\ phase' = phase
  BY DEF RecordDecision
<1>4. ~pending' \/ UNCHANGED <<phase, pending, result>>
  BY DEF RecordDecision
<1> QED
  BY <1>1, <1>2, <1>3, <1>4 DEF RecordDecision, SetState

LEMMA NextToken == IInv /\ [Next]_vars => TokenInv'
<1> SUFFICES ASSUME IInv, [Next]_vars PROVE TokenInv'
  OBVIOUS
<1>t. TokenInv /\ PromptInv /\ PhaseInv
  BY DEF IInv
<1>p. input \in InputType /\ work \in WorkType /\ jobs \subseteq JobIds
  BY DEF IInv, TypeOK
<1>q. Quiet => ~Busy /\ ~pending /\ ~failed /\ ~awaiting
  BY DEF Quiet
<1> USE <1>t, <1>p DEF TokenInv, Busy, Saving, Deciding, Submitting, store, review, controller, daemon
<1>1. CASE Operator
  <2>1. CASE Decide
    <3>1. input'.pc \in {"posting", "preparing"}
      BY <2>1, Places DEF Decide, Idle
    <3> QED
      BY <2>1, <3>1 DEF Decide, Reads, Reviews
  <2>2. CASE Revise
    BY <2>2, StartFacts DEF Revise, Reads, Reviews
  <2>3. CASE StartFix \/ FreeText
    BY <2>3, StartFacts DEF StartFix, FreeText, Reads
  <2>4. CASE Leave \/ Complete
    BY <2>4 DEF Leave, Complete, Reads, Restart, Idle
  <2>5. CASE ReviewAgain
    BY <2>5, <1>q DEF ReviewAgain, Reads, PhaseInv, Start, Idle
  <2>6. CASE Retry
    BY <2>6 DEF Retry, Reads, Start, Idle
  <2> QED
    BY <1>1, <2>1, <2>2, <2>3, <2>4, <2>5, <2>6 DEF Operator
<1>2. CASE InputStep
  <2>1. CASE StartVerification \/ Post
    BY <2>1 DEF StartVerification, Post, InputType
  <2>2. CASE VerificationDoesNotStart \/ PostFails \/ DecisionNotRecorded \/ PrepareFails \/ SubmitUntracked
    BY <2>2, Places DEF VerificationDoesNotStart, PostFails, DecisionNotRecorded, PrepareFails, SubmitUntracked
  <2>3. CASE RecordDecision
    <3>1. jobs' = {} /\ ~Saving' /\ ~failed' /\ ~awaiting'
      BY <2>3, RecordFacts
    <3>2. input' = Idle \/ (input' = Start("verification") /\ ~pending')
      BY <2>3, RecordFacts DEF Restart
    <3>3. Idle.pc = "idle" /\ Start("verification").pc = "start"
      BY StartFacts, Places
    <3> QED
      BY <3>1, <3>2, <3>3
  <2>4. CASE Track
    <3>1. Submitting
      BY <2>4 DEF Track
    <3>2. input'.pc = "tracked" /\ input'.id = lastJob + 1
      BY <2>4 DEF Track, InputType
    <3> QED
      BY <2>4, <3>1, <3>2 DEF Track
  <2>5. CASE Submit \/ StartFails
    BY <2>5, Places DEF Submit, StartFails
  <2> QED
    BY <1>2, <2>1, <2>2, <2>3, <2>4, <2>5 DEF InputStep
<1>3. CASE WorkerStep
  <2>1. CASE TakeJob
    BY <2>1 DEF TakeJob
  <2>2. ASSUME NEW outcome \in {"succeeded", "failing"}, JobEnds(outcome) PROVE TokenInv'
    BY <2>2 DEF JobEnds, WorkType
  <2>3. CASE IgnoreResult \/ SaveFails \/ ReadyNotRecorded
    BY <2>3, Places DEF IgnoreResult, SaveFails, ReadyNotRecorded
  <2>4. CASE EndVerification
    BY <2>4, Places DEF EndVerification, PromptInv
  <2>5. CASE BeginSave
    <3>1. work'.pc = "saving"
      BY <2>5 DEF BeginSave, WorkType
    <3> QED
      BY <2>5, <3>1 DEF BeginSave, PromptInv
  <2>6. CASE EndSave
    BY <2>6 DEF EndSave, WorkType
  <2>7. CASE ReviewResult
    BY <2>7, Places DEF ReviewResult
  <2>8. CASE OfferRetry \/ FailureNotRecorded
    BY <2>8, Places DEF OfferRetry, FailureNotRecorded, PromptInv
  <2> QED
    BY <1>3, <2>1, <2>2, <2>3, <2>4, <2>5, <2>6, <2>7, <2>8 DEF WorkerStep
<1>4. CASE Life
  <2>1. CASE Launch
    <3>1. Quiet
      BY <2>1 DEF Launch, PhaseInv
    <3>2. /\ failed' => ~awaiting' /\ input' = Idle
          /\ awaiting' => input' = Idle
          /\ input' = Idle \/ input' = Start(phase')
          /\ UNCHANGED <<jobs, pending, work>>
      BY <2>1, LaunchFacts DEF IInv
    <3> QED
      BY <3>1, <3>2, <1>q, StartFacts, Places
  <2>2. CASE Cancel \/ Close
    BY <2>2 DEF Cancel, Close
  <2>3. CASE Exit \/ Crash
    BY <2>3, Places DEF Exit, Crash, Forget
  <2> QED
    BY <1>4, <2>1, <2>2, <2>3 DEF Life
<1>5. CASE Environment
  BY <1>5 DEF Environment, TheyClose, SetStatus, CommandEnds
<1>6. CASE UNCHANGED vars
  BY <1>6 DEF vars
<1> QED
  BY <1>1, <1>2, <1>3, <1>4, <1>5, <1>6 DEF Next

-----------------------------------------------------------------------------
(* What is tracked is of the phase *)

\* As long as no id is new and the phase is kept, what is tracked stays as it is.
PromptKept == UNCHANGED <<phase, queue, work, lastJob>> /\ jobs' \subseteq jobs

LEMMA NextPrompt == IInv /\ [Next]_vars => PromptInv'
<1> SUFFICES ASSUME IInv, [Next]_vars PROVE PromptInv'
  OBVIOUS
<1>t. TokenInv /\ PromptInv /\ PhaseInv
  BY DEF IInv
<1>p. /\ input \in InputType /\ work \in WorkType /\ jobs \subseteq JobIds
      /\ queue \in Seq(Job) /\ lastJob \in Nat /\ 0 \notin JobIds
  BY PRReviewAssumption, JobIdsNat DEF IInv, TypeOK
<1>s. /\ work.id \in Nat /\ 0 \notin jobs /\ \A j \in jobs : j \in Nat
      /\ Len(queue) \in Nat /\ \A k \in 1 .. Len(queue) : queue[k].id \in Nat
  <2>1. \A k \in 1 .. Len(queue) : queue[k] \in Job
    BY <1>p
  <2>2. Len(queue) \in Nat
    BY <1>p
  <2>3. work.id \in Nat /\ \A k \in 1 .. Len(queue) : queue[k].id \in Nat
    BY <1>p, <2>1, PRReviewAssumption DEF WorkType, Job
  <2> QED
    BY <1>p, <2>2, <2>3, JobIdsNat
<1>u. input.pc = "tracked" => input.id \in jobs
  BY <1>t DEF TokenInv
<1>n. /\ Busy => ~pending /\ ~failed /\ ~awaiting /\ ~Deciding /\ ~Submitting
      /\ Deciding => pending /\ ~failed
  BY <1>t DEF TokenInv
<1>k. ASSUME PromptKept, Saving' = Saving, failed' => failedPrompt' = phase,
             input'.pc \in {"idle", "posting", "posted", "preparing"}
             \/ (input'.pc = "start" /\ input'.prompt \in {phase, "free"})
      PROVE  PromptInv'
  BY <1>t, <1>s, <1>k DEF PromptInv, PromptKept, Submitting
<1> USE <1>t, <1>p DEF PromptInv, store, review, controller, daemon
<1>1. CASE Operator
  <2>1. CASE Decide
    <3>1. input'.pc \in {"posting", "preparing"}
      BY <2>1, Places DEF Decide, Idle
    <3> QED
      BY <2>1, <3>1, <1>k DEF Decide, PromptKept, Saving
  <2>2. CASE Revise \/ StartFix \/ FreeText \/ Retry
    <3>1. PromptKept /\ Saving' = Saving
      BY <2>2 DEF Revise, StartFix, FreeText, Retry, PromptKept, Saving
    <3>2. failed' => failedPrompt' = phase
      BY <2>2 DEF Revise, StartFix, FreeText, Retry
    <3>3. input'.pc = "start" /\ input'.prompt \in {phase, "free"}
      BY <2>2 DEF Revise, StartFix, FreeText, Retry, Start, Idle, Reads
    <3> QED
      BY <3>1, <3>2, <3>3, <1>k
  <2>3. CASE Leave \/ Complete
    BY <2>3, <1>k, Places DEF Leave, Complete, Restart, PromptKept, Saving
  <2>4. CASE ReviewAgain
    <3>1. jobs = {} /\ ~Saving /\ queue = <<>> /\ ~failed
      BY <2>4 DEF ReviewAgain, PhaseInv, Quiet, Busy, Saving
    <3>2. input'.pc = "start" /\ input'.prompt = "review" /\ phase' = "review"
      BY <2>4 DEF ReviewAgain, Start, Idle
    <3>3. UNCHANGED <<jobs, queue, work, lastJob, failed>>
      BY <2>4 DEF ReviewAgain
    <3> QED
      BY <3>1, <3>2, <3>3, <1>s DEF Submitting, Saving
  <2> QED
    BY <1>1, <2>1, <2>2, <2>3, <2>4 DEF Operator
<1>2. CASE InputStep
  <2>1. CASE StartVerification \/ Post
    BY <2>1, <1>k DEF StartVerification, Post, InputType, PromptKept, Saving
  <2>2. CASE VerificationDoesNotStart \/ PostFails \/ DecisionNotRecorded \/ StartFails
    BY <2>2, <1>k, Places
    DEF VerificationDoesNotStart, PostFails, DecisionNotRecorded, StartFails, PromptKept, Saving
  <2>3. CASE PrepareFails
    <3>1. lastJob' = lastJob + 1 /\ input' = Idle /\ UNCHANGED <<jobs, queue, work, failed, failedPrompt, phase>>
      BY <2>3 DEF PrepareFails
    <3> QED
      BY <3>1, <1>s, Places DEF Submitting, Saving
  <2>4. CASE RecordDecision
    <3>1. jobs = {} /\ ~Saving /\ ~failed
      BY <2>4, <1>n DEF RecordDecision, Deciding, Busy
    <3>2. UNCHANGED <<jobs, queue, work, lastJob, failed>>
      BY <2>4 DEF RecordDecision
    <3>3. \/ input'.pc = "idle"
          \/ input'.pc = "start" /\ input'.prompt = phase'
      BY <2>4, RecordFacts, StartFacts, Places DEF Restart
    <3> QED
      BY <3>1, <3>2, <3>3, <1>s DEF Submitting, Saving
  <2>5. CASE SubmitUntracked
    <3> DEFINE job == [id |-> lastJob + 1, prompt |-> input.prompt]
    <3>1. Len(queue') = Len(queue) + 1 /\ queue'[Len(queue) + 1] = job
          /\ \A k \in 1 .. Len(queue) : queue'[k] = queue[k]
      BY <2>5 DEF SubmitUntracked
    <3>2. job.id = lastJob + 1 /\ job.id \notin jobs
      BY <1>s
    <3>3. \A k \in 1 .. Len(queue') : queue'[k] = job \/ (k \in 1 .. Len(queue) /\ queue'[k] = queue[k])
      BY <3>1, <1>s
    <3>4. /\ lastJob' = lastJob + 1 /\ input'.pc = "idle"
          /\ UNCHANGED <<jobs, work, failed, failedPrompt, phase>>
      BY <2>5, Places DEF SubmitUntracked
    <3> HIDE DEF job
    <3> QED
      BY <3>2, <3>3, <3>4, <1>s DEF Submitting, Saving
  <2>6. CASE Track
    <3>1. Submitting
      BY <2>6 DEF Track, Submitting
    <3>2. input'.pc = "tracked" /\ input'.id = lastJob + 1 /\ input'.prompt = phase
      BY <2>6, <3>1 DEF Track, InputType
    <3>3. ~Busy /\ ~failed
      BY <3>1, <1>n, <1>t DEF TokenInv
    <3>4. jobs' = jobs \cup {lastJob + 1} /\ lastJob' = lastJob + 1 /\ UNCHANGED <<queue, work, failed, phase>>
      BY <2>6 DEF Track
    <3> QED
      BY <3>2, <3>3, <3>4, <1>s DEF Submitting, Saving, Busy
  <2>7. CASE Submit
    <3> DEFINE job == [id |-> input.id, prompt |-> input.prompt]
    <3>1. Len(queue') = Len(queue) + 1 /\ queue'[Len(queue) + 1] = job
          /\ \A k \in 1 .. Len(queue) : queue'[k] = queue[k]
      BY <2>7 DEF Submit
    <3>2. job.id \in jobs /\ job.prompt = phase /\ job.id <= lastJob
      BY <2>7, <1>u DEF Submit
    <3>3. \A k \in 1 .. Len(queue') : queue'[k] = job \/ (k \in 1 .. Len(queue) /\ queue'[k] = queue[k])
      BY <3>1, <1>s
    <3>4. /\ input'.pc = "idle"
          /\ UNCHANGED <<jobs, work, failed, failedPrompt, phase, lastJob>>
      BY <2>7, Places DEF Submit
    <3> HIDE DEF job
    <3> QED
      BY <3>2, <3>3, <3>4, <1>s DEF Submitting, Saving
  <2> QED
    BY <1>2, <2>1, <2>2, <2>3, <2>4, <2>5, <2>6, <2>7 DEF InputStep
<1>3. CASE WorkerStep
  <2>1. CASE TakeJob
    <3>1. Len(queue) >= 1 /\ Head(queue) = queue[1] /\ Len(queue') = Len(queue) - 1
          /\ \A k \in 1 .. Len(queue') : queue'[k] = queue[k + 1]
      BY <2>1 DEF TakeJob
    <3>2. work'.id = queue[1].id /\ work'.prompt = queue[1].prompt /\ work'.pc = "running"
      BY <2>1, <3>1 DEF TakeJob
    <3>3. UNCHANGED <<jobs, input, failed, failedPrompt, phase, lastJob>>
      BY <2>1 DEF TakeJob
    <3>4. \A k \in 1 .. Len(queue') : k + 1 \in 1 .. Len(queue) /\ queue'[k] = queue[k + 1]
      BY <3>1, <1>s
    <3>5. 1 \in 1 .. Len(queue)
      BY <3>1, <1>s
    <3>6. \A k \in 1 .. Len(queue') : /\ queue'[k].id <= lastJob'
                                      /\ queue'[k].id \in jobs' => queue'[k].prompt = phase'
                                      /\ input'.pc = "tracked" => queue'[k].id # input'.id
      BY <3>3, <3>4
    <3>7. /\ work'.id <= lastJob'
          /\ work'.id \in jobs' => work'.prompt = phase'
          /\ input'.pc = "tracked" => input'.id # work'.id
      BY <3>2, <3>3, <3>5
    <3> QED
      BY <3>2, <3>3, <3>6, <3>7 DEF Submitting, Saving
  <2>2. ASSUME NEW outcome \in {"succeeded", "failing"}, JobEnds(outcome) PROVE PromptInv'
    BY <2>2, <1>s DEF JobEnds, WorkType, Submitting, Saving
  <2>3. CASE IgnoreResult \/ SaveFails \/ ReadyNotRecorded \/ ReviewResult
    <3>1. /\ work' = NoWork
          /\ UNCHANGED <<jobs, input, queue, failed, failedPrompt, phase, lastJob>>
      BY <2>3 DEF IgnoreResult, SaveFails, ReadyNotRecorded, ReviewResult
    <3> QED
      BY <3>1, <1>s, <1>u, Places DEF Submitting, Saving
  <2>4. CASE EndVerification \/ OfferRetry \/ FailureNotRecorded
    <3>1. /\ work' = NoWork /\ jobs' = jobs \ {work.id} /\ work.id \in jobs
          /\ UNCHANGED <<input, queue, phase, lastJob>>
      BY <2>4 DEF EndVerification, OfferRetry, FailureNotRecorded
    <3>2. failed' => failedPrompt' = phase
      BY <2>4, <3>1 DEF EndVerification, OfferRetry, FailureNotRecorded
    <3> QED
      BY <3>1, <3>2, <1>s, <1>u, Places DEF Submitting, Saving
  <2>5. CASE BeginSave
    <3>1. /\ work'.id = work.id /\ work'.prompt = work.prompt /\ work.id \in jobs /\ jobs' = jobs \ {work.id}
          /\ UNCHANGED <<input, queue, phase, lastJob, failed, failedPrompt>>
      BY <2>5 DEF BeginSave, WorkType
    <3> QED
      BY <3>1, <1>s, <1>u DEF Submitting, Saving
  <2>6. CASE EndSave
    <3>1. /\ work'.id = work.id /\ work'.prompt = work.prompt /\ work.pc = "saving"
          /\ UNCHANGED <<input, queue, phase, lastJob, failed, failedPrompt, jobs>>
      BY <2>6 DEF EndSave, WorkType
    <3> QED
      BY <3>1, <1>s, <1>u DEF Submitting, Saving
  <2> QED
    BY <1>3, <2>1, <2>2, <2>3, <2>4, <2>5, <2>6 DEF WorkerStep
<1>4. CASE Life
  <2>1. CASE Launch
    <3>1. jobs = {} /\ ~Saving /\ queue = <<>>
      BY <2>1 DEF Launch, PhaseInv, Quiet, Busy, Saving
    <3>2. /\ failed' => failedPrompt' = phase'
          /\ input' = Idle \/ (input' = Start(phase') /\ phase' \in Works)
          /\ UNCHANGED <<jobs, queue, work, lastJob>>
      BY <2>1, LaunchFacts DEF IInv
    <3>3. input'.pc = "idle" \/ (input'.pc = "start" /\ input'.prompt = phase')
      BY <3>2, StartFacts, Places
    <3> QED
      BY <3>1, <3>2, <3>3, <1>s DEF Submitting, Saving
  <2>2. CASE Cancel \/ Close
    BY <2>2, <1>s DEF Cancel, Close, Submitting, Saving
  <2>3. CASE Exit \/ Crash
    <3>1. Forget
      BY <2>3 DEF Exit, Crash
    <3>2. jobs' = {} /\ ~failed' /\ input'.pc = "idle" /\ Len(queue') = 0 /\ work'.id = 0 /\ work'.pc = "idle"
          /\ lastJob' = lastJob
      BY <3>1, Places DEF Forget
    <3> QED
      BY <3>2, <1>s DEF Submitting, Saving
  <2> QED
    BY <1>4, <2>1, <2>2, <2>3 DEF Life
<1>5. CASE Environment
  BY <1>5, <1>s DEF Environment, TheyClose, SetStatus, CommandEnds, Submitting, Saving
<1>6. CASE UNCHANGED vars
  BY <1>6, <1>s DEF vars, Submitting, Saving
<1> QED
  BY <1>1, <1>2, <1>3, <1>4, <1>5, <1>6 DEF Next

-----------------------------------------------------------------------------
(* The phases *)

\* Nothing is held that was not, and the phase is kept: what a process that has
\* ended, or that shows an approved review, has left stays as it was.
LEMMA QuietKept ==
  ASSUME PhaseInv, UNCHANGED <<proc, phase>>, Quiet => Quiet', awaiting' => awaiting,
         (proc = "off") /\ ~command => ~command'
  PROVE  PhaseInv'
BY DEF PhaseInv

LEMMA NextPhase == IInv /\ [Next]_vars => PhaseInv'
<1> SUFFICES ASSUME IInv, [Next]_vars PROVE PhaseInv'
  OBVIOUS
<1>t. TokenInv /\ PhaseInv /\ ResultInv
  BY DEF IInv
<1>p. input \in InputType /\ work \in WorkType
  BY DEF IInv, TypeOK
<1>q. Quiet <=> /\ jobs = {} /\ ~Saving /\ ~pending /\ ~failed /\ ~awaiting
                /\ input.pc = "idle" /\ queue = <<>> /\ work.pc = "idle"
  BY DEF Quiet, Busy
<1>r. ~Quiet => proc # "off" /\ phase # "review_approved"
  BY <1>t DEF PhaseInv
<1>b. awaiting => phase = "fix"
  BY <1>t DEF PhaseInv
<1>k. ASSUME proc' # "off", phase' # "review_approved", awaiting' => phase' = "fix" PROVE PhaseInv'
  BY <1>k DEF PhaseInv
<1> USE <1>t, <1>p DEF store, review, controller, daemon
<1>1. CASE Operator
  <2>1. CASE Decide \/ Revise \/ StartFix \/ Retry
    <3>1. ~Quiet
      BY <2>1, <1>q DEF Decide, Revise, Reviews, StartFix, Retry
    <3> QED
      BY <2>1, <3>1, <1>r, <1>b, <1>k DEF Decide, Revise, Reviews, StartFix, Retry
  <2>2. CASE FreeText
    <3>1. phase # "review_approved" /\ proc # "off"
      BY <2>2 DEF FreeText, Reads, Works
    <3> QED
      BY <2>2, <3>1, <1>b, <1>k DEF FreeText
  <2>3. CASE Leave
    <3>1. proc' = "closed" /\ phase' = phase /\ awaiting' = awaiting /\ Quiet
      BY <2>3 DEF Leave, Restart, PhaseInv
    <3>2. Quiet'
      BY <2>3, <3>1, <1>q, Places DEF Leave, Restart, Quiet, Busy, Saving
    <3> QED
      BY <3>1, <3>2 DEF PhaseInv
  <2>4. CASE Complete \/ ReviewAgain
    BY <2>4, <1>b, <1>k DEF Complete, ReviewAgain, Restart, Reads
  <2> QED
    BY <1>1, <2>1, <2>2, <2>3, <2>4 DEF Operator
<1>2. CASE InputStep
  <2>1. proc # "off" /\ phase # "review_approved"
    BY <1>2, <1>q, <1>r DEF InputStep, StartVerification, VerificationDoesNotStart, Post, PostFails,
       RecordDecision, DecisionNotRecorded, PrepareFails, SubmitUntracked, Track, Submit, StartFails
  <2>2. CASE RecordDecision
    <3>1. ~awaiting'
      BY <2>2, RecordFacts
    <3>2. proc' \in {proc, "closed"} /\ phase' \in {phase, "verification"}
      BY <2>2, RecordFacts DEF Restart
    <3> QED
      BY <2>1, <3>1, <3>2, <1>k
  <2>3. CASE StartVerification \/ VerificationDoesNotStart \/ Post \/ PostFails \/ DecisionNotRecorded
    BY <2>1, <2>3, <1>b, <1>k DEF StartVerification, VerificationDoesNotStart, Post, PostFails, DecisionNotRecorded
  <2>4. CASE PrepareFails \/ SubmitUntracked \/ Track \/ Submit \/ StartFails
    BY <2>1, <2>4, <1>b, <1>k DEF PrepareFails, SubmitUntracked, Track, Submit, StartFails
  <2> QED
    BY <1>2, <2>2, <2>3, <2>4 DEF InputStep
<1>3. CASE WorkerStep
  <2>1. ~Quiet
    BY <1>3, <1>q DEF WorkerStep, TakeJob, JobEnds, IgnoreResult, EndVerification, BeginSave, EndSave, SaveFails,
       ReviewResult, ReadyNotRecorded, OfferRetry, FailureNotRecorded
  <2>2. UNCHANGED <<proc, phase, awaiting>>
    BY <1>3 DEF WorkerStep, TakeJob, JobEnds, IgnoreResult, EndVerification, BeginSave, EndSave, SaveFails,
       ReviewResult, ReadyNotRecorded, OfferRetry, FailureNotRecorded
  <2> QED
    BY <2>1, <2>2, <1>b, <1>k, <1>r
<1>4. CASE Life
  <2>1. CASE Launch
    <3>1. Quiet /\ proc' = "on" /\ (awaiting' => phase' = "fix")
      BY <2>1, LaunchFacts DEF Launch, PhaseInv, IInv
    <3>2. phase' = "review_approved" => ~failed' /\ ~awaiting' /\ input'.pc = "idle"
      BY <2>1, LaunchFacts, Places DEF IInv, Works
    <3>3. UNCHANGED <<jobs, pending, queue, work>>
      BY <2>1, LaunchFacts DEF IInv
    <3>4. ~Saving' /\ (phase' = "review_approved" => Quiet')
      BY <3>1, <3>2, <3>3, <1>q DEF Quiet, Busy, Saving
    <3> QED
      BY <3>1, <3>4 DEF PhaseInv
  <2>2. CASE Cancel \/ Close
    <3>1. /\ proc' # "off" /\ UNCHANGED <<jobs, pending, failed, awaiting, input, queue, work, phase>>
      BY <2>2 DEF Cancel, Close
    <3>2. Quiet' = Quiet
      BY <3>1 DEF Quiet, Busy, Saving
    <3> QED
      BY <3>1, <3>2 DEF PhaseInv
  <2>3. CASE Exit \/ Crash
    <3>1. Forget
      BY <2>3 DEF Exit, Crash
    <3> QED
      BY <3>1, Places DEF Forget, PhaseInv, Quiet, Busy, Saving
  <2> QED
    BY <1>4, <2>1, <2>2, <2>3 DEF Life
<1>5. CASE Environment \/ UNCHANGED vars
  <2>1. UNCHANGED <<proc, phase, jobs, pending, failed, awaiting, input, queue, work>> /\ (command' => command)
    BY <1>5 DEF Environment, TheyClose, SetStatus, CommandEnds, vars
  <2>2. Quiet' = Quiet
    BY <2>1 DEF Quiet, Busy, Saving
  <2> QED
    BY <2>1, <2>2, QuietKept
<1> QED
  BY <1>1, <1>2, <1>3, <1>4, <1>5 DEF Next

-----------------------------------------------------------------------------
(* Results, decisions and verifications *)

\* What is saved, posted and up for review stays as it was.
ResultKept == UNCHANGED <<artifact, posted, phase, result>> /\ (pending' => pending)
DecisionKept == input' = input \/ input'.pc \notin {"preparing", "posting", "posted"}

LEMMA NextResult == IInv /\ [Next]_vars => ResultInv'
<1> SUFFICES ASSUME IInv, [Next]_vars PROVE ResultInv'
  OBVIOUS
<1>t. TokenInv /\ PhaseInv /\ ResultInv
  BY DEF IInv
<1>p. /\ input \in InputType /\ work \in WorkType /\ jobs \subseteq JobIds /\ phase \in Phases
      /\ artifact \in [Stages -> Version] /\ posted \in [Works -> Version]
  BY DEF IInv, TypeOK
<1>n. /\ Busy => ~pending /\ ~Deciding
      /\ Deciding => pending
      /\ pending => phase \in Works
      /\ phase = "review_approved" => Quiet
  BY <1>t DEF TokenInv, ResultInv, PhaseInv
<1>b. Busy <=> jobs # {} \/ Saving
  BY DEF Busy
<1>w. \A p \in Works : ArtifactOf(p) = p /\ p \in Stages /\ p # "verification"
  BY DEF Works, ArtifactOf, Stages
<1>k. ASSUME ResultKept, DecisionKept, work' = work \/ ~Saving' PROVE ResultInv'
  BY <1>t, <1>k DEF ResultInv, ResultKept, DecisionKept, Saving, Deciding
<1> USE <1>t, <1>p DEF store, review, controller, daemon
<1>1. CASE Operator
  <2>1. CASE Decide
    <3>1. PICK pc \in {"posting", "preparing"}, d \in {"approve", "verify", "changes"} :
            /\ input' = [Idle EXCEPT !.pc = pc, !.decision = d]
            /\ pc = "preparing" => d = "verify"
            /\ d = "verify" => phase = "review"
      BY <2>1 DEF Decide
    <3>2. input'.pc = pc /\ input'.decision = d
      BY <3>1 DEF Idle
    <3>3. UNCHANGED <<artifact, posted, phase, result, pending, work>>
      BY <2>1 DEF Decide
    <3> QED
      BY <3>1, <3>2, <3>3 DEF ResultInv, Saving, Deciding
  <2>2. CASE Revise \/ StartFix \/ Retry
    <3>1. ~pending' /\ UNCHANGED <<artifact, posted, phase, work>> /\ ~Deciding'
      BY <2>2, StartFacts DEF Revise, StartFix, Retry, Deciding
    <3> QED
      BY <3>1 DEF ResultInv, Saving, Deciding
  <2>3. CASE FreeText \/ Leave \/ Complete
    BY <2>3, <1>k, StartFacts, Places DEF FreeText, Leave, Complete, Restart, ResultKept, DecisionKept
  <2>4. CASE ReviewAgain
    <3>1. ~pending' /\ ~Saving' /\ ~Deciding'
      BY <2>4, <1>n, StartFacts DEF ReviewAgain, Deciding, Saving, Quiet
    <3> QED
      BY <3>1 DEF ResultInv, Saving, Deciding
  <2> QED
    BY <1>1, <2>1, <2>2, <2>3, <2>4 DEF Operator
<1>2. CASE InputStep
  <2>1. CASE StartVerification
    <3>1. input'.pc = "posting" /\ input'.decision = "verify" /\ phase = "review"
      BY <2>1 DEF StartVerification, InputType, ResultInv, Deciding
    <3>2. UNCHANGED <<artifact, posted, phase, result, pending, work>>
      BY <2>1 DEF StartVerification
    <3> QED
      BY <3>1, <3>2 DEF ResultInv, Saving, Deciding
  <2>2. CASE Post
    <3>1. Deciding /\ pending /\ phase \in Works /\ ~Saving
      BY <2>2, <1>n, <1>b DEF Post, Deciding
    <3>2. input'.pc = "posted" /\ input'.decision = input.decision
      BY <2>2 DEF Post, InputType
    <3>3. posted'[phase] = artifact[ArtifactOf(phase)]
      BY <2>2, <3>1 DEF Post
    <3>4. UNCHANGED <<artifact, phase, result, pending, work>>
      BY <2>2 DEF Post
    <3> QED
      BY <3>1, <3>2, <3>3, <3>4 DEF ResultInv, Saving, Deciding
  <2>3. CASE PostFails
    <3>1. ~Saving /\ ~Deciding' /\ UNCHANGED <<artifact, phase, result, pending, work>>
      BY <2>3, <1>n, <1>b, Places DEF PostFails, Deciding
    <3> QED
      BY <3>1 DEF ResultInv, Saving, Deciding
  <2>4. CASE RecordDecision
    <3>1. ~Saving' /\ UNCHANGED <<artifact, work>>
      BY <2>4, RecordFacts DEF Saving
    <3>2. ~pending' \/ UNCHANGED <<phase, pending, result>>
      BY <2>4, RecordFacts
    <3>3. input' = Idle \/ input' = Start("verification")
      BY <2>4, RecordFacts DEF Restart
    <3>4. ~Deciding'
      BY <3>3, StartFacts, Places DEF Deciding
    <3> QED
      BY <3>1, <3>2, <3>4 DEF ResultInv, Saving, Deciding
  <2>5. CASE VerificationDoesNotStart \/ DecisionNotRecorded \/ PrepareFails
    BY <2>5, <1>k, Places
    DEF VerificationDoesNotStart, DecisionNotRecorded, PrepareFails, ResultKept, DecisionKept
  <2>6. CASE SubmitUntracked \/ Submit \/ StartFails
    BY <2>6, <1>k, Places DEF SubmitUntracked, Submit, StartFails, ResultKept, DecisionKept
  <2>7. CASE Track
    <3>1. input'.pc = "tracked"
      BY <2>7 DEF Track, InputType
    <3> QED
      BY <2>7, <3>1, <1>k DEF Track, ResultKept, DecisionKept
  <2> QED
    BY <1>2, <2>1, <2>2, <2>3, <2>4, <2>5, <2>6, <2>7 DEF InputStep
<1>3. CASE WorkerStep
  <2>1. CASE TakeJob \/ IgnoreResult \/ SaveFails \/ ReadyNotRecorded \/ OfferRetry \/ FailureNotRecorded
    <3>1. ~Saving'
      BY <2>1, Places DEF TakeJob, IgnoreResult, SaveFails, ReadyNotRecorded, OfferRetry, FailureNotRecorded, Saving
    <3> QED
      BY <2>1, <3>1, <1>k DEF TakeJob, IgnoreResult, SaveFails, ReadyNotRecorded, OfferRetry, FailureNotRecorded,
         ResultKept, DecisionKept
  <2>2. ASSUME NEW outcome \in {"succeeded", "failing"}, JobEnds(outcome) PROVE ResultInv'
    <3>1. ~Saving'
      BY <2>2 DEF JobEnds, WorkType, Saving
    <3> QED
      BY <2>2, <3>1, <1>k DEF JobEnds, ResultKept, DecisionKept
  <2>3. CASE EndVerification
    <3>1. ~pending /\ ~Deciding /\ UNCHANGED <<pending, input>> /\ ~Saving'
      BY <2>3, <1>n, <1>b, Places DEF EndVerification, Saving
    <3> QED
      BY <3>1 DEF ResultInv, Saving, Deciding
  <2>4. CASE BeginSave
    <3>1. Busy /\ ~pending /\ ~Deciding /\ UNCHANGED <<pending, input, phase>>
      BY <2>4, <1>n, <1>b DEF BeginSave
    <3>2. work.id \in JobIds /\ phase \in Works
      BY <2>4, <3>1, <1>n DEF BeginSave, Quiet, Phases, Stages
    <3>3. work'.pc = "saving" /\ work'.id = work.id
      BY <2>4 DEF BeginSave, WorkType
    <3> QED
      BY <3>1, <3>2, <3>3 DEF ResultInv, Saving, Deciding
  <2>5. CASE EndSave
    <3>1. ~pending /\ ~Deciding /\ UNCHANGED <<pending, input, phase>> /\ phase \in Works /\ work.id \in JobIds
      BY <2>5, <1>n, <1>b DEF EndSave, Saving, ResultInv
    <3>2. work'.id = work.id /\ artifact'[ArtifactOf(phase)] = work.id
      BY <2>5, <3>1, <1>w DEF EndSave, WorkType
    <3> QED
      BY <3>1, <3>2 DEF ResultInv, Saving, Deciding
  <2>6. CASE ReviewResult
    <3>1. ~Deciding /\ phase \in Works /\ work.id \in JobIds /\ artifact[ArtifactOf(phase)] = work.id
      BY <2>6, <1>n, <1>b DEF ReviewResult, Saving, ResultInv
    <3>2. ~Saving' /\ result' = work.id /\ UNCHANGED <<artifact, phase, input>>
      BY <2>6, Places DEF ReviewResult, Saving
    <3> QED
      BY <3>1, <3>2 DEF ResultInv, Saving, Deciding
  <2> QED
    BY <1>3, <2>1, <2>2, <2>3, <2>4, <2>5, <2>6 DEF WorkerStep
<1>4. CASE Life
  <2>1. CASE Launch
    <3>1. ~pending /\ ~Saving
      BY <2>1 DEF Launch, PhaseInv, Quiet, Busy
    <3>2. UNCHANGED <<pending, work>>
      BY <2>1 DEF Launch
    <3>3. input' = Idle \/ input' = Start(phase')
      BY <2>1, LaunchFacts DEF IInv
    <3>4. ~Deciding'
      BY <3>3, StartFacts, Places DEF Deciding
    <3> QED
      BY <3>1, <3>2, <3>4 DEF ResultInv, Saving, Deciding
  <2>2. CASE Cancel \/ Close
    BY <2>2, <1>k DEF Cancel, Close, ResultKept, DecisionKept
  <2>3. CASE Exit \/ Crash
    <3>1. ~pending' /\ ~Saving' /\ ~Deciding'
      BY <2>3, Places DEF Exit, Crash, Forget, Saving, Deciding
    <3> QED
      BY <3>1 DEF ResultInv, Saving, Deciding
  <2> QED
    BY <1>4, <2>1, <2>2, <2>3 DEF Life
<1>5. CASE Environment \/ UNCHANGED vars
  BY <1>5, <1>k DEF Environment, TheyClose, SetStatus, CommandEnds, vars, ResultKept, DecisionKept
<1> QED
  BY <1>1, <1>2, <1>3, <1>4, <1>5 DEF Next

LEMMA NextVerification == IInv /\ [Next]_vars => VerificationKeepsDecision'
<1> SUFFICES ASSUME IInv, [Next]_vars PROVE VerificationKeepsDecision'
  OBVIOUS
<1>t. TokenInv /\ PhaseInv /\ ResultInv /\ VerificationKeepsDecision
  BY DEF IInv
<1>p. /\ phase \in Phases /\ artifact \in [Stages -> Version] /\ posted \in [Works -> Version]
  BY DEF IInv, TypeOK
<1>n. phase = "verification" => proc # "off" /\ ~pending /\ ~Deciding /\ ~Saving
  BY <1>t DEF TokenInv, ResultInv, PhaseInv, Works
<1>w. "review" \in Stages /\ "review" # "verification"
  BY DEF Stages, Works
<1>k. ASSUME phase' = phase,
             phase = "verification" => UNCHANGED <<db, open, posted>> /\ artifact'["review"] = artifact["review"]
      PROVE  VerificationKeepsDecision'
  BY <1>t, <1>k DEF VerificationKeepsDecision
<1>o. ASSUME phase' # "verification" PROVE VerificationKeepsDecision'
  BY <1>o DEF VerificationKeepsDecision
<1> USE <1>p DEF store, review, controller, daemon
<1>1. CASE Operator
  <2>1. CASE Complete
    <3>1. db' = "completed" /\ ~open /\ UNCHANGED <<open, phase, artifact, posted>>
      BY <2>1 DEF Complete, SetState
    <3> QED
      BY <3>1, <1>t DEF VerificationKeepsDecision
  <2>2. CASE ReviewAgain
    BY <2>2, <1>o DEF ReviewAgain
  <2>3. CASE Decide \/ Revise \/ StartFix \/ Retry \/ FreeText \/ Leave
    BY <2>3, <1>k DEF Decide, Revise, StartFix, Retry, FreeText, Leave
  <2> QED
    BY <1>1, <2>1, <2>2, <2>3 DEF Operator
<1>2. CASE InputStep
  <2>1. CASE RecordDecision
    <3>1. phase \in Works /\ posted[phase] = artifact[ArtifactOf(phase)] /\ artifact[ArtifactOf(phase)] \in JobIds
      BY <2>1, RecordFacts, <1>t DEF ResultInv
    <3>2. CASE phase' = "verification"
      <4>1. input.decision = "verify" /\ phase = "review"
        <5>1. input.decision = "verify"
          BY <2>1, <3>1, <3>2, RecordFacts DEF Works
        <5> QED
          BY <2>1, <5>1, <1>t DEF RecordDecision, ResultInv, Deciding
      <4>2. db' = "review_approved" /\ UNCHANGED <<posted, artifact>>
        BY <2>1, <4>1, RecordFacts DEF DecidedState
      <4>3. ArtifactOf("review") = "review"
        BY DEF ArtifactOf
      <4> QED
        BY <3>1, <4>1, <4>2, <4>3, JobIdsNat DEF VerificationKeepsDecision
    <3> QED
      BY <3>2, <1>o
  <2>2. CASE StartVerification \/ VerificationDoesNotStart \/ DecisionNotRecorded \/ PrepareFails
             \/ SubmitUntracked \/ Track
    BY <2>2, <1>k DEF StartVerification, VerificationDoesNotStart, DecisionNotRecorded, PrepareFails,
       SubmitUntracked, Track, SetStateFails
  <2>3. CASE Post \/ PostFails
    BY <2>3, <1>k, <1>n DEF Post, PostFails, Deciding
  <2>4. CASE Submit \/ StartFails
    BY <2>4, <1>k DEF Submit, StartFails
  <2> QED
    BY <1>2, <2>1, <2>2, <2>3, <2>4 DEF InputStep
<1>3. CASE WorkerStep
  <2>1. CASE TakeJob \/ IgnoreResult
    BY <2>1, <1>k DEF TakeJob, IgnoreResult
  <2>2. ASSUME NEW outcome \in {"succeeded", "failing"}, JobEnds(outcome) PROVE VerificationKeepsDecision'
    BY <2>2, <1>k DEF JobEnds
  <2>3. CASE EndVerification
    <3>1. artifact'["review"] = artifact["review"]
      BY <2>3, <1>w DEF EndVerification
    <3> QED
      BY <2>3, <3>1, <1>k DEF EndVerification
  <2>4. CASE BeginSave \/ OfferRetry \/ FailureNotRecorded
    BY <2>4, <1>o DEF BeginSave, OfferRetry, FailureNotRecorded
  <2>5. CASE EndSave \/ SaveFails \/ ReviewResult \/ ReadyNotRecorded
    BY <2>5, <1>o, <1>n DEF EndSave, SaveFails, ReviewResult, ReadyNotRecorded, Saving
  <2> QED
    BY <1>3, <2>1, <2>2, <2>3, <2>4, <2>5 DEF WorkerStep
<1>4. CASE Life
  <2>1. CASE Launch
    <3>1. phase' # "verification"
      BY <2>1, LaunchFacts DEF IInv
    <3> QED
      BY <3>1, <1>o
  <2>2. CASE Cancel \/ Close
    BY <2>2, <1>k DEF Cancel, Close
  <2>3. CASE Exit \/ Crash
    BY <2>3, <1>o DEF Exit, Crash, Forget
  <2> QED
    BY <1>4, <2>1, <2>2, <2>3 DEF Life
<1>5. CASE TheyClose
  BY <1>5, <1>t DEF TheyClose, VerificationKeepsDecision
<1>6. CASE SetStatus
  BY <1>6, <1>k, <1>n DEF SetStatus
<1>7. CASE CommandEnds \/ UNCHANGED vars
  BY <1>7, <1>k DEF CommandEnds, vars
<1> QED
  BY <1>1, <1>2, <1>3, <1>4, <1>5, <1>6, <1>7 DEF Next, Environment

LEMMA NextCommand == IInv /\ [Next]_vars => CommandIsStopped'
<1> SUFFICES ASSUME IInv, [Next]_vars PROVE CommandIsStopped'
  OBVIOUS
<1>t. TokenInv /\ PhaseInv /\ ResultInv /\ CommandIsStopped
  BY DEF IInv
<1>p. input \in InputType /\ command \in BOOLEAN
  BY DEF IInv, TypeOK
<1>n. /\ Deciding => phase \in Works /\ pending
      /\ Deciding /\ input.decision = "verify" => phase = "review"
      /\ proc = "off" => ~command
  BY <1>t DEF TokenInv, ResultInv, PhaseInv
<1>k. ASSUME command' => command /\ phase' = phase,
             input' = input \/ input.pc \notin {"posting", "posted"}
      PROVE  CommandIsStopped'
  BY <1>t, <1>k DEF CommandIsStopped
<1> USE <1>t, <1>p DEF store, review, controller, daemon
<1>1. CASE Operator
  <2>1. input.pc = "idle"
    BY <1>1 DEF Operator, Decide, Revise, StartFix, Leave, ReviewAgain, Complete, Retry, FreeText, Reviews, Reads
  <2>2. command' => command
    BY <1>1 DEF Operator, Decide, Revise, StartFix, Leave, ReviewAgain, Complete, Retry, FreeText, Restart
  <2>3. phase' = phase \/ ReviewAgain
    BY <1>1 DEF Operator, Decide, Revise, StartFix, Leave, ReviewAgain, Complete, Retry, FreeText
  <2>4. ReviewAgain => ~command'
    BY <2>1 DEF ReviewAgain, CommandIsStopped
  <2> QED
    BY <2>1, <2>2, <2>3, <2>4, <1>k
<1>2. CASE InputStep
  <2>1. CASE StartVerification
    <3>1. input'.pc = "posting" /\ input'.decision = "verify"
      BY <2>1 DEF StartVerification, InputType, ResultInv
    <3> QED
      BY <3>1 DEF CommandIsStopped
  <2>2. CASE Post
    <3>1. input.pc = "posting" /\ input'.pc = "posted" /\ input'.decision = input.decision
          /\ UNCHANGED <<command, phase>>
      BY <2>2 DEF Post, InputType
    <3> QED
      BY <3>1 DEF CommandIsStopped
  <2>3. CASE PostFails \/ DecisionNotRecorded
    BY <2>3 DEF PostFails, DecisionNotRecorded, CommandIsStopped
  <2>4. CASE RecordDecision
    <3>1. CASE phase = "fix" /\ UNCHANGED <<phase, command>>
      BY <2>4, <3>1, <1>n DEF RecordDecision, Deciding, CommandIsStopped
    <3>2. CASE phase' = "verification" \/ ~command'
      BY <3>2 DEF CommandIsStopped
    <3> QED
      BY <2>4, <3>1, <3>2, RecordFacts DEF Restart
  <2>5. CASE VerificationDoesNotStart \/ PrepareFails \/ SubmitUntracked
    BY <2>5, <1>k DEF VerificationDoesNotStart, PrepareFails, SubmitUntracked
  <2>6. CASE Track \/ Submit \/ StartFails
    BY <2>6, <1>k DEF Track, Submit, StartFails
  <2> QED
    BY <1>2, <2>1, <2>2, <2>3, <2>4, <2>5, <2>6 DEF InputStep
<1>3. CASE WorkerStep
  BY <1>3, <1>k DEF WorkerStep, TakeJob, JobEnds, IgnoreResult, EndVerification, BeginSave, EndSave, SaveFails,
     ReviewResult, ReadyNotRecorded, OfferRetry, FailureNotRecorded
<1>4. CASE Life
  <2>1. CASE Launch
    <3>1. ~command'
      BY <2>1, <1>n DEF Launch
    <3> QED
      BY <3>1 DEF CommandIsStopped
  <2>2. CASE Cancel \/ Close
    BY <2>2, <1>k DEF Cancel, Close
  <2>3. CASE Exit \/ Crash
    BY <2>3 DEF Exit, Crash, Forget, CommandIsStopped
  <2> QED
    BY <1>4, <2>1, <2>2, <2>3 DEF Life
<1>5. CASE Environment \/ UNCHANGED vars
  BY <1>5, <1>k DEF Environment, TheyClose, SetStatus, CommandEnds, vars
<1> QED
  BY <1>1, <1>2, <1>3, <1>4, <1>5 DEF Next

-----------------------------------------------------------------------------
(* The theorems *)

\* The strengthened invariant is inductive, and holds in every reachable state.
THEOREM Inductive == Spec => []IInv
<1>1. IInv /\ [Next]_vars => IInv'
  BY NextType, NextToken, NextPrompt, NextPhase, NextResult, NextVerification, NextCommand DEF IInv
<1> QED
  BY InitInv, <1>1, PTL DEF Spec

\* Every reachable state is of its type.
THEOREM TypeCorrect == Spec => []TypeOK
<1>1. IInv => TypeOK
  BY DEF IInv
<1> QED
  BY Inductive, <1>1, PTL

\* HandleInput never reads or changes the phase of a job that is on its way.
THEOREM OneTrackedJobHolds == Spec => []OneTrackedJob
<1>1. IInv => OneTrackedJob
  BY DEF IInv, TokenInv, PromptInv, OneTrackedJob, Busy, Saving
<1> QED
  BY Inductive, <1>1, PTL

\* Neither a retry, nor a failure, nor a second check of the pull request undoes
\* an approval that is being verified.
THEOREM VerificationStands == Spec => []VerificationKeepsDecision
<1>1. IInv => VerificationKeepsDecision
  BY DEF IInv
<1> QED
  BY Inductive, <1>1, PTL

\* No path of a failed approval leaves the command running.
THEOREM CommandStopped == Spec => []CommandIsStopped
<1>1. IInv => CommandIsStopped
  BY DEF IInv
<1> QED
  BY Inductive, <1>1, PTL

\* Every step that stores a decision.
LEMMA DecisionStep ==
  ASSUME IInv, Next, proc # "off", proc' # "off", db' # db, db' \in Decided
  PROVE  pending /\ result \in JobIds /\ posted[phase] = result /\ artifact[ArtifactOf(phase)] = result
<1>1. CASE RecordDecision
  BY <1>1, RecordFacts DEF IInv, ResultInv
<1>2. CASE ~RecordDecision
  <2>1. phase \in Phases
    BY DEF IInv, TypeOK
  <2>2. \A p \in Phases : /\ StartState(p) \notin Decided /\ ReadyState(p) \notin Decided
                          /\ FailedState(p) \notin Decided
    BY DEF StartState, ReadyState, FailedState, Decided
  <2>3. "completed" \notin Decided
    BY DEF Decided
  <2> USE DEF store, SetState, SetStateFails
  <2>4. ~Operator
    BY <2>3 DEF Operator, Decide, Revise, StartFix, Leave, ReviewAgain, Complete, Retry, FreeText
  <2>5. ~InputStep
    BY <1>2, <2>1, <2>2 DEF InputStep, StartVerification, VerificationDoesNotStart, Post, PostFails,
       DecisionNotRecorded, PrepareFails, SubmitUntracked, Track, Submit, StartFails
  <2>6. ~WorkerStep
    BY <2>1, <2>2 DEF WorkerStep, TakeJob, JobEnds, IgnoreResult, EndVerification, BeginSave, EndSave, SaveFails,
       ReviewResult, ReadyNotRecorded, OfferRetry, FailureNotRecorded
  <2>7. ~Life /\ ~Environment
    BY DEF Life, Launch, Cancel, Close, Exit, Crash, Forget, Environment, TheyClose, SetStatus, CommandEnds
  <2> QED
    BY <2>4, <2>5, <2>6, <2>7 DEF Next
<1> QED
  BY <1>1, <1>2

\* Only ApproveReview, RequestChanges, ApproveFix and ApproveConflict store a
\* decision, each of the result that the operator reviewed and after it was posted.
THEOREM PostedDecisions == Spec => DecisionIsPosted
<1>1. /\ IInv /\ [Next]_vars
      => [proc # "off" /\ proc' # "off" /\ db' # db /\ db' \in Decided
          => pending /\ result \in JobIds /\ posted[phase] = result /\ artifact[ArtifactOf(phase)] = result]_vars
  BY DecisionStep
<1> QED
  BY Inductive, <1>1, PTL DEF Spec, DecisionIsPosted
=================================================================================
