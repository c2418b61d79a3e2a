---------------------------- MODULE ApprovalProofs ----------------------------
(***************************************************************************)
(* Proofs about the approval gate, for every number of handlers, subjects  *)
(* and jobs.                                                               *)
(***************************************************************************)
EXTENDS Approval, TLAPS

\* The slot belongs to the one handler that is being served, and the prompt is
\* that handler's.
SlotInv ==
  /\ \A h \in Handlers : pc[h] \in Served <=> slot = h
  /\ pending # NoPrompt => pc[pending] \in {"waiting", "clearing"}

\* The prompt the input goroutine holds was shown and its handler has not ended.
HeldPromptInv ==
  /\ NoDecisionBeforePrompt
  /\ input.prompt # NoPrompt
       => pc[input.prompt] \in {"waiting", "clearing", "releasing", "returning"}

\* Nothing belongs to a job that has not started.
FreshIds ==
  /\ activeJob <= lastJob /\ engineJob <= lastJob
  /\ \A j \in jobAll : j <= lastJob
  /\ \A h \in Handlers : request[h].job <= lastJob
  /\ input.job <= lastJob

\* A handler that has not decided has no answer.
NoAnswerYet ==
  \A h \in Handlers : pc[h] \in {"idle", "queued", "acquired", "waiting"} => answer[h] = "none"

IInv == TypeOK /\ SlotInv /\ HeldPromptInv /\ NoAnswerYet /\ FreshIds

LEMMA NoRequestType == NoRequest \in Request
BY ApprovalAssumption DEF NoRequest, Request, Sessions, Kinds, JobIds

LEMMA IdleType ==
  Idle \in [pc : {"idle", "read", "apply", "send"}, line : Line,
            prompt : Handlers \cup {NoPrompt}, job : JobIds]
BY NoRequestType, ApprovalAssumption DEF Idle, Enter, Line, Scopes, NoRequest, Request, JobIds

LEMMA LinesType == Lines \subseteq Line
<1>1. Enter \in Line
  BY NoRequestType DEF Line, Enter, Scopes, Request
<1>2. [Enter EXCEPT !.decision = "decline"] \in Line
  BY <1>1 DEF Line, Scopes
<1>3. \A scope \in TypedScopes \ {"permanent"} : [Enter EXCEPT !.scope = scope] \in Line
  BY <1>1, ApprovalAssumption DEF Line, Scopes
<1>4. \A s \in Subjects : [Enter EXCEPT !.scope = "permanent", !.subject = s] \in Line
  BY <1>1 DEF Line, Scopes
<1> QED
  BY <1>2, <1>3, <1>4 DEF Lines

LEMMA InitInv == Init => IInv
<1> SUFFICES ASSUME Init PROVE IInv
  OBVIOUS
<1>1. TypeOK
  <2>1. 0 \in JobIds
    BY ApprovalAssumption DEF JobIds
  <2>2. /\ request \in [Handlers -> Request]
        /\ input \in [pc : {"idle", "read", "apply", "send"}, line : Line,
                      prompt : Handlers \cup {NoPrompt}, job : JobIds]
    BY NoRequestType, IdleType DEF Init
  <2> QED
    BY <2>1, <2>2, ApprovalAssumption DEF Init, TypeOK, Sessions
<1>2. SlotInv
  BY ApprovalAssumption DEF Init, SlotInv, Served
<1>3. HeldPromptInv
  BY DEF Init, HeldPromptInv, NoDecisionBeforePrompt, Idle
<1>4. FreshIds
  BY DEF Init, FreshIds, Idle, NoRequest
<1>5. NoAnswerYet
  BY DEF Init, NoAnswerYet
<1> QED
  BY <1>1, <1>2, <1>3, <1>4, <1>5 DEF Init, IInv

-----------------------------------------------------------------------------
(* Each action preserves the type invariant *)

LEMMA HandlerType ==
  ASSUME TypeOK, NEW h \in Handlers, Handle(h)
  PROVE  TypeOK'
<1>1. ASSUME NEW s \in Sessions, NEW kind \in RequestKinds, NEW subject \in Subjects,
             Arrive(h, s, kind, subject)
      PROVE  TypeOK'
  <2>1. JobOf(s) \in JobIds
    BY DEF JobOf, TypeOK
  <2>2. [session |-> s, kind |-> kind, subject |-> subject, job |-> JobOf(s)] \in Request
    BY <2>1, ApprovalAssumption DEF Request, Kinds
  <2> QED
    BY <1>1, <2>2 DEF Arrive, TypeOK, grantVars, workerVars
<1>2. CASE Acquire(h)
  BY <1>2 DEF Acquire, TypeOK, grantVars, workerVars
<1>3. CASE Show(h)
  BY <1>3 DEF Show, TypeOK, grantVars, workerVars
<1>4. CASE Decide(h)
  BY <1>4 DEF Decide, TypeOK, grantVars, workerVars
<1>5. CASE Abandon(h)
  BY <1>5 DEF Abandon, TypeOK, grantVars, workerVars
<1>6. CASE ClearPending(h)
  BY <1>6, NoRequestType DEF ClearPending, TypeOK, grantVars, workerVars
<1>7. CASE Release(h)
  BY <1>7 DEF Release, TypeOK, grantVars, workerVars
<1>8. CASE Reply(h)
  BY <1>8, NoRequestType DEF Reply, Forgotten, TypeOK, grantVars, workerVars
<1> QED
  BY <1>1, <1>2, <1>3, <1>4, <1>5, <1>6, <1>7, <1>8 DEF Handle

LEMMA OperateType ==
  ASSUME TypeOK, Operate
  PROVE  TypeOK'
<1>1. CASE PressEnter
  BY <1>1, IdleType DEF PressEnter, TypeOK, handlerVars, grantVars, workerVars
<1>2. ASSUME NEW line \in Lines, TypeLine(line)
      PROVE  TypeOK'
  BY <1>2, IdleType, LinesType DEF TypeLine, TypeOK, handlerVars, grantVars, workerVars
<1>3. CASE ReadPending
  <2>1. pending # NoPrompt => request[pending].job \in JobIds
    BY DEF TypeOK, Request
  <2> QED
    BY <1>3, <2>1, IdleType DEF ReadPending, TypeOK, handlerVars, grantVars, workerVars
<1>4. CASE GrantScope
  <2>1. input.line.subject \in Subjects
    BY DEF TypeOK, Line
  <2> QED
    BY <1>4, <2>1 DEF GrantScope, TypeOK, handlerVars, grantVars, workerVars
<1>5. CASE RefuseScope
  BY <1>5, IdleType DEF RefuseScope, TypeOK, handlerVars, grantVars, workerVars
<1>6. CASE SendDecision
  <2>1. input.line.decision \in {"accept", "decline"}
    BY DEF TypeOK, Line
  <2> QED
    BY <1>6, <2>1, IdleType DEF SendDecision, TypeOK, grantVars, workerVars
<1> QED
  BY <1>1, <1>2, <1>3, <1>4, <1>5, <1>6 DEF Operate

LEMMA WorkType ==
  ASSUME TypeOK, Work \/ Cancel
  PROVE  TypeOK'
<1> USE DEF TypeOK, handlerVars, grantVars, workerVars, Sessions
<1>1. ASSUME NEW kind \in JobKinds, TakeJob(kind)
      PROVE  TypeOK'
  <2>1. kind \in {"prompt", "execute"} /\ lastJob + 1 \in JobIds
    BY <1>1, ApprovalAssumption DEF TakeJob, JobIds
  <2> QED
    BY <1>1, <2>1 DEF TakeJob
<1>2. CASE StartPrimary
  BY <1>2 DEF StartPrimary
<1>3. CASE ClosePrimary
  BY <1>3 DEF ClosePrimary, CloseSessions, OutstandingOf
<1>4. CASE StartEngine
  BY <1>4 DEF StartEngine
<1>5. CASE EndJob
  BY <1>5, ApprovalAssumption DEF EndJob, JobIds
<1>6. CASE CloseEngine
  BY <1>6 DEF CloseEngine, CloseSessions, OutstandingOf
<1>7. CASE ClearJobGrants
  BY <1>7 DEF ClearJobGrants
<1>8. CASE Cancel
  BY <1>8 DEF Cancel, CloseSessions, OutstandingOf
<1> QED
  BY <1>1, <1>2, <1>3, <1>4, <1>5, <1>6, <1>7, <1>8 DEF Work

LEMMA NextType == TypeOK /\ [Next]_vars => TypeOK'
<1>1. CASE UNCHANGED vars
  BY <1>1 DEF TypeOK, vars, handlerVars, grantVars, workerVars
<1> QED
  BY <1>1, HandlerType, OperateType, WorkType DEF Next

\* The variables keep their types (daemon.go, Run).
THEOREM TypeCorrect == Spec => []TypeOK
<1>1. Init => TypeOK
  BY InitInv DEF IInv
<1> QED
  BY <1>1, NextType, PTL DEF Spec

-----------------------------------------------------------------------------
(* One prompt at a time, and no decision before its prompt *)

LEMMA HandlerSlot ==
  ASSUME TypeOK, SlotInv, HeldPromptInv, NEW h \in Handlers, Handle(h)
  PROVE  SlotInv' /\ HeldPromptInv'
<1> USE ApprovalAssumption DEF SlotInv, HeldPromptInv, NoDecisionBeforePrompt, Served, TypeOK,
        grantVars, workerVars
<1>1. ASSUME NEW s \in Sessions, NEW kind \in RequestKinds, NEW subject \in Subjects,
             Arrive(h, s, kind, subject)
      PROVE  SlotInv' /\ HeldPromptInv'
  BY <1>1 DEF Arrive
<1>2. CASE Acquire(h)
  BY <1>2 DEF Acquire
<1>3. CASE Show(h)
  BY <1>3 DEF Show
<1>4. CASE Decide(h)
  BY <1>4 DEF Decide
<1>5. CASE Abandon(h)
  BY <1>5 DEF Abandon
<1>6. CASE ClearPending(h)
  BY <1>6 DEF ClearPending
<1>7. CASE Release(h)
  BY <1>7 DEF Release
<1>8. CASE Reply(h)
  BY <1>8 DEF Reply, Forgotten
<1> QED
  BY <1>1, <1>2, <1>3, <1>4, <1>5, <1>6, <1>7, <1>8 DEF Handle

LEMMA OperateSlot ==
  ASSUME TypeOK, SlotInv, HeldPromptInv, Operate
  PROVE  SlotInv' /\ HeldPromptInv'
<1>1. SlotInv'
  BY DEF SlotInv, Operate, PressEnter, TypeLine, ReadPending, GrantScope, RefuseScope,
         SendDecision, handlerVars
<1>2. HeldPromptInv'
  <2> USE DEF SlotInv, HeldPromptInv, NoDecisionBeforePrompt, TypeOK, handlerVars, Idle
  <2>1. CASE PressEnter
    BY <2>1 DEF PressEnter
  <2>2. ASSUME NEW line \in Lines, TypeLine(line)
        PROVE  HeldPromptInv'
    BY <2>2 DEF TypeLine
  <2>3. CASE ReadPending
    BY <2>3 DEF ReadPending
  <2>4. CASE GrantScope
    BY <2>4 DEF GrantScope
  <2>5. CASE RefuseScope
    BY <2>5 DEF RefuseScope
  <2>6. CASE SendDecision
    BY <2>6 DEF SendDecision
  <2> QED
    BY <2>1, <2>2, <2>3, <2>4, <2>5, <2>6 DEF Operate
<1> QED
  BY <1>1, <1>2

LEMMA WorkSlot ==
  ASSUME SlotInv, HeldPromptInv, Work \/ Cancel
  PROVE  SlotInv' /\ HeldPromptInv'
BY DEF SlotInv, HeldPromptInv, NoDecisionBeforePrompt, Work, TakeJob, StartPrimary, ClosePrimary,
       StartEngine, EndJob, CloseEngine, ClearJobGrants, Cancel, CloseSessions, handlerVars

LEMMA NextSlot == TypeOK /\ SlotInv /\ HeldPromptInv /\ [Next]_vars => SlotInv' /\ HeldPromptInv'
<1>1. ASSUME SlotInv, HeldPromptInv, UNCHANGED vars
      PROVE  SlotInv' /\ HeldPromptInv'
  BY <1>1 DEF SlotInv, HeldPromptInv, NoDecisionBeforePrompt, vars, handlerVars
<1> QED
  BY <1>1, HandlerSlot, OperateSlot, WorkSlot DEF Next

LEMMA NextNoAnswer == TypeOK /\ NoAnswerYet /\ [Next]_vars => NoAnswerYet'
<1> SUFFICES ASSUME TypeOK, NoAnswerYet, [Next]_vars PROVE NoAnswerYet'
  OBVIOUS
<1> USE DEF NoAnswerYet, TypeOK
<1>1. ASSUME NEW h \in Handlers, Handle(h) PROVE NoAnswerYet'
  <2>1. ASSUME NEW s \in Sessions, NEW kind \in RequestKinds, NEW subject \in Subjects,
               Arrive(h, s, kind, subject)
        PROVE  NoAnswerYet'
    BY <2>1 DEF Arrive
  <2>2. CASE Acquire(h) \/ Show(h) \/ ClearPending(h) \/ Release(h)
    BY <2>2 DEF Acquire, Show, ClearPending, Release
  <2>3. CASE Decide(h)
    BY <2>3 DEF Decide
  <2>4. CASE Abandon(h)
    BY <2>4 DEF Abandon
  <2>5. CASE Reply(h)
    BY <2>5 DEF Reply
  <2> QED
    BY <1>1, <2>1, <2>2, <2>3, <2>4, <2>5 DEF Handle
<1>2. CASE Operate \/ Work \/ Cancel
  BY <1>2 DEF Operate, PressEnter, TypeLine, ReadPending, GrantScope, RefuseScope, SendDecision,
              Work, TakeJob, StartPrimary, ClosePrimary, StartEngine, EndJob, CloseEngine,
              ClearJobGrants, Cancel, handlerVars
<1>3. CASE UNCHANGED vars
  BY <1>3 DEF vars, handlerVars
<1> QED
  BY <1>1, <1>2, <1>3 DEF Next

-----------------------------------------------------------------------------
(* Grants belong to jobs that have started *)

LEMMA NextFresh == TypeOK /\ FreshIds /\ [Next]_vars => FreshIds'
<1> SUFFICES ASSUME TypeOK, FreshIds, [Next]_vars PROVE FreshIds'
  OBVIOUS
<1> USE DEF FreshIds
<1>1. /\ lastJob \in Nat /\ activeJob \in Nat /\ engineJob \in Nat /\ input.job \in Nat
      /\ \A j \in jobAll : j \in Nat
      /\ \A h \in Handlers : request[h].job \in Nat
  BY ApprovalAssumption DEF TypeOK, JobIds, Request
<1>2. ASSUME NEW h \in Handlers, Handle(h) PROVE FreshIds'
  <2>1. ASSUME NEW s \in Sessions, NEW kind \in RequestKinds, NEW subject \in Subjects,
               Arrive(h, s, kind, subject)
        PROVE  FreshIds'
    BY <2>1 DEF Arrive, JobOf, TypeOK, grantVars, workerVars
  <2>2. CASE Reply(h)
    BY <1>1, <2>2 DEF Reply, Forgotten, NoRequest, TypeOK, grantVars, workerVars
  <2>3. CASE Acquire(h) \/ Show(h) \/ Decide(h) \/ Abandon(h) \/ Release(h)
    BY <2>3 DEF Acquire, Show, Decide, Abandon, Release, grantVars, workerVars
  <2>4. CASE ClearPending(h)
    BY <1>1, <2>4 DEF ClearPending, NoRequest, TypeOK, grantVars, workerVars
  <2> QED
    BY <1>2, <2>1, <2>2, <2>3, <2>4 DEF Handle
<1>3. CASE Operate
  <2> USE DEF handlerVars, grantVars, workerVars
  <2>1. Idle.job = 0
    BY DEF Idle
  <2>2. CASE PressEnter
    BY <1>1, <2>2 DEF PressEnter, Idle
  <2>3. ASSUME NEW line \in Lines, TypeLine(line) PROVE FreshIds'
    BY <1>1, <2>3 DEF TypeLine, Idle
  <2>4. CASE ReadPending
    BY <1>1, <2>1, <2>4 DEF ReadPending, TypeOK
  <2>5. CASE GrantScope
    BY <1>1, <2>5 DEF GrantScope, TypeOK
  <2>6. CASE RefuseScope \/ SendDecision
    BY <1>1, <2>1, <2>6 DEF RefuseScope, SendDecision
  <2> QED
    BY <1>3, <2>2, <2>3, <2>4, <2>5, <2>6 DEF Operate
<1>4. CASE Work \/ Cancel
  <2> USE DEF handlerVars, grantVars, workerVars
  <2>1. ASSUME NEW kind \in JobKinds, TakeJob(kind) PROVE FreshIds'
    BY <1>1, <2>1 DEF TakeJob
  <2>2. CASE StartEngine
    BY <1>1, <2>2 DEF StartEngine
  <2>3. CASE EndJob
    BY <1>1, <2>3 DEF EndJob
  <2>4. CASE ClearJobGrants
    BY <1>1, <2>4 DEF ClearJobGrants
  <2>5. CASE StartPrimary \/ ClosePrimary \/ CloseEngine \/ Cancel
    BY <2>5 DEF StartPrimary, ClosePrimary, CloseEngine, Cancel
  <2> QED
    BY <1>4, <2>1, <2>2, <2>3, <2>4, <2>5 DEF Work
<1>5. CASE UNCHANGED vars
  BY <1>5 DEF vars, handlerVars, grantVars, workerVars
<1> QED
  BY <1>2, <1>3, <1>4, <1>5 DEF Next

\* The strengthened invariant holds in every reachable state.
THEOREM Inductive == Spec => []IInv
<1>1. IInv /\ [Next]_vars => IInv'
  BY NextType, NextSlot, NextNoAnswer, NextFresh DEF IInv
<1> QED
  BY <1>1, InitInv, PTL DEF Spec

-----------------------------------------------------------------------------
(* The properties that are checked on small instances *)

\* At most one request is shown, and only its prompt is pending
\* (daemon.go 182-208).
THEOREM OnePrompt == Spec => []OnePromptAtATime
<1>1. IInv => OnePromptAtATime
  BY DEF IInv, SlotInv, OnePromptAtATime
<1> QED
  BY <1>1, Inductive, PTL

\* A late answer never decides a request that has not been shown
\* (daemon.go 198, 274-277 and 321-326).
THEOREM NoEarlyDecision == Spec => []NoDecisionBeforePrompt
<1>1. IInv => NoDecisionBeforePrompt
  BY DEF IInv, HeldPromptInv
<1> QED
  BY <1>1, Inductive, PTL

\* A job in the primary session starts without the grant of another job
\* (daemon.go 162-167, 284-289 and 268-272).
THEOREM FreshJobUngranted == Spec => PromptJobStartsUngranted
<1>1. IInv /\ [Next]_vars
        => (activeJob = 0 /\ activeJob' # 0 => JobOf("primary")' \notin jobAll)
  <2> SUFFICES ASSUME IInv, [Next]_vars, activeJob = 0, activeJob' # 0
               PROVE  JobOf("primary")' \notin jobAll
    OBVIOUS
  <2>0. ASSUME NEW h \in Handlers, Handle(h) PROVE FALSE
    BY <2>0 DEF Handle, Arrive, Acquire, Show, Decide, Abandon, ClearPending, Release, Reply, workerVars
  <2>a. ~Operate
    BY DEF Operate, PressEnter, TypeLine, ReadPending, GrantScope, RefuseScope, SendDecision, workerVars
  <2>b. ~Cancel /\ ~UNCHANGED vars
    BY DEF Cancel, vars, workerVars
  <2>1. PICK kind \in JobKinds : TakeJob(kind)
    BY <2>0, <2>a, <2>b DEF Next, Work, StartPrimary, ClosePrimary, StartEngine, EndJob,
       CloseEngine, ClearJobGrants, workerVars
  <2>2. activeJob' = lastJob + 1
    BY <2>1 DEF TakeJob
  <2>3. \A j \in jobAll : j <= lastJob
    BY DEF IInv, FreshIds
  <2>4. lastJob \in Nat
    BY ApprovalAssumption DEF IInv, TypeOK, JobIds
  <2> QED
    BY <2>2, <2>3, <2>4 DEF JobOf
<1> QED
  BY <1>1, Inductive, PTL DEF Spec, PromptJobStartsUngranted

\* The decision that is sent first is the one the request is answered with
\* (daemon.go 229-234 and 321-326).
THEOREM FirstDecisionStands == Spec => DecisionStands
<1>1. IInv /\ [Next]_vars
        => [\A h \in Handlers :
              /\ decision[h] # "none" /\ pc'[h] # "idle" => decision'[h] = decision[h]
              /\ answer'[h] # answer[h] /\ answer'[h] \in {"accept", "decline"}
                   => answer'[h] = decision[h]]_vars
  <2> SUFFICES ASSUME IInv, Next, NEW h \in Handlers
               PROVE  /\ decision[h] # "none" /\ pc'[h] # "idle" => decision'[h] = decision[h]
                      /\ answer'[h] # answer[h] /\ answer'[h] \in {"accept", "decline"}
                           => answer'[h] = decision[h]
    OBVIOUS
  <2> USE DEF IInv, TypeOK
  <2>1. ASSUME NEW g \in Handlers, Handle(g)
        PROVE  /\ decision[h] # "none" /\ pc'[h] # "idle" => decision'[h] = decision[h]
               /\ answer'[h] # answer[h] /\ answer'[h] \in {"accept", "decline"}
                    => answer'[h] = decision[h]
    <3>1. ASSUME NEW s \in Sessions, NEW kind \in RequestKinds, NEW subject \in Subjects,
                 Arrive(g, s, kind, subject)
          PROVE  decision' = decision /\ (answer'[h] # answer[h] => answer'[h] \in {"none", "auto", "error"})
      BY <3>1 DEF Arrive
    <3>2. CASE Acquire(g) \/ ClearPending(g) \/ Release(g)
      BY <3>2 DEF Acquire, ClearPending, Release
    <3>3. CASE Show(g)
      BY <3>3 DEF Show, HeldPromptInv, NoDecisionBeforePrompt
    <3>4. CASE Decide(g)
      BY <3>4 DEF Decide
    <3>5. CASE Abandon(g)
      BY <3>5 DEF Abandon
    <3>6. CASE Reply(g)
      BY <3>6 DEF Reply
    <3> QED
      BY <2>1, <3>1, <3>2, <3>3, <3>4, <3>5, <3>6 DEF Handle
  <2>2. CASE Operate
    BY <2>2 DEF Operate, PressEnter, TypeLine, ReadPending, GrantScope, RefuseScope,
                SendDecision, handlerVars
  <2>3. CASE Work \/ Cancel
    BY <2>3 DEF Work, TakeJob, StartPrimary, ClosePrimary, StartEngine, EndJob, CloseEngine,
                ClearJobGrants, Cancel, handlerVars
  <2> QED
    BY <2>1, <2>2, <2>3 DEF Next
<1> QED
  BY <1>1, Inductive, PTL DEF Spec, DecisionStands

-----------------------------------------------------------------------------
(* The handlers implement the abstract gate *)

LEMMA GateInit == Init => Gate!Init
BY DEF Init, Gate!Init, GatePhase, PhaseOf

LEMMA GateMove ==
  ASSUME TypeOK, NEW h \in Handlers, NEW to, NEW v,
         pc' = [pc EXCEPT ![h] = to], answer' = [answer EXCEPT ![h] = v]
  PROVE  Gate!Move(h, PhaseOf(to), v)
BY DEF Gate!Move, GatePhase, TypeOK

LEMMA GateHandler ==
  ASSUME TypeOK, SlotInv, NoAnswerYet, NEW h \in Handlers, Handle(h)
  PROVE  Gate!Next \/ UNCHANGED Gate!vars
<1>0. GatePhase[h] = PhaseOf(pc[h])
  BY DEF GatePhase
<1>1. ASSUME NEW s \in Sessions, NEW kind \in RequestKinds, NEW subject \in Subjects,
             Arrive(h, s, kind, subject)
      PROVE  Gate!Receive(h) \/ Gate!AnswerAtOnce(h)
  <2>1. GatePhase[h] = "quiet"
    BY <1>0, <1>1 DEF Arrive, PhaseOf
  <2>2. CASE pc' = [pc EXCEPT ![h] = "queued"] /\ answer' = [answer EXCEPT ![h] = "none"]
    BY <2>1, <2>2, GateMove DEF Gate!Receive, PhaseOf
  <2>3. ASSUME pc' = [pc EXCEPT ![h] = "returning"],
               NEW v \in {"auto", "error"}, answer' = [answer EXCEPT ![h] = v]
        PROVE  Gate!AnswerAtOnce(h)
    <3>1. Gate!Move(h, "answered", v)
      BY <2>3, GateMove DEF PhaseOf
    <3> QED
      BY <2>1, <3>1 DEF Gate!AnswerAtOnce
  <2>4. \/ pc' = [pc EXCEPT ![h] = "queued"] /\ answer' = [answer EXCEPT ![h] = "none"]
        \/ /\ pc' = [pc EXCEPT ![h] = "returning"]
           /\ \E v \in {"auto", "error"} : answer' = [answer EXCEPT ![h] = v]
    <3> DEFINE r == [session |-> s, kind |-> kind, subject |-> subject, job |-> JobOf(s)]
    <3>1. CASE kind = "unsupported"
      BY <1>1, <3>1 DEF Arrive
    <3>2. CASE kind # "unsupported" /\ AutoAccepted(r)
      BY <1>1, <3>2 DEF Arrive
    <3>3. CASE kind # "unsupported" /\ ~AutoAccepted(r)
      BY <1>1, <3>3 DEF Arrive
    <3> QED
      BY <3>1, <3>2, <3>3
  <2> QED
    BY <2>2, <2>3, <2>4
<1>2. CASE Acquire(h)
  BY <1>2 DEF Acquire, Gate!vars, GatePhase, PhaseOf, TypeOK
<1>3. CASE Show(h)
  <2>1. GatePhase[h] = "waiting" /\ \A other \in Handlers : GatePhase[other] # "shown"
    BY <1>3 DEF Show, SlotInv, Served, GatePhase, PhaseOf
  <2>2. answer[h] = "none" /\ answer' = [answer EXCEPT ![h] = "none"]
    BY <1>3 DEF Show, NoAnswerYet, TypeOK
  <2>3. Gate!Move(h, "shown", "none")
    BY <1>3, <2>2, GateMove DEF Show, PhaseOf
  <2> QED
    BY <2>1, <2>3 DEF Gate!Show, Gate!Next
<1>4. CASE Decide(h)
  <2>1. GatePhase[h] = "shown" /\ decision[h] \in {"accept", "decline"}
    BY <1>0, <1>4 DEF Decide, PhaseOf, TypeOK
  <2>2. Gate!Move(h, "answered", decision[h])
    BY <1>4, GateMove DEF Decide, PhaseOf
  <2> QED
    BY <2>1, <2>2 DEF Gate!Answer, Gate!Next
<1>5. CASE Abandon(h)
  <2>1. GatePhase[h] \in {"waiting", "shown"}
    BY <1>0, <1>5 DEF Abandon, PhaseOf
  <2>2. \E to \in {"returning", "clearing"} : pc' = [pc EXCEPT ![h] = to]
    BY <1>5 DEF Abandon, TypeOK
  <2>3. Gate!Move(h, "answered", "error")
    BY <1>5, <2>2, GateMove DEF Abandon, PhaseOf
  <2> QED
    BY <2>1, <2>3 DEF Gate!GiveUp, Gate!Next
<1>6. CASE ClearPending(h)
  BY <1>6 DEF ClearPending, Gate!vars, GatePhase, PhaseOf, TypeOK
<1>7. CASE Release(h)
  BY <1>7 DEF Release, Gate!vars, GatePhase, PhaseOf, TypeOK
<1>8. CASE Reply(h)
  <2>1. GatePhase[h] = "answered"
    BY <1>0, <1>8 DEF Reply, PhaseOf
  <2>2. Gate!Move(h, "quiet", "none")
    BY <1>8, GateMove DEF Reply, PhaseOf
  <2> QED
    BY <2>1, <2>2 DEF Gate!Finish, Gate!Next
<1> QED
  BY <1>1, <1>2, <1>3, <1>4, <1>5, <1>6, <1>7, <1>8 DEF Handle, Gate!Next

LEMMA GateStep == TypeOK /\ SlotInv /\ NoAnswerYet /\ [Next]_vars => [Gate!Next]_(Gate!vars)
<1> SUFFICES ASSUME TypeOK, SlotInv, NoAnswerYet, [Next]_vars
             PROVE  Gate!Next \/ UNCHANGED Gate!vars
  OBVIOUS
<1>1. ASSUME pc' = pc, answer' = answer PROVE UNCHANGED Gate!vars
  BY <1>1 DEF Gate!vars, GatePhase
<1>2. Operate \/ Work \/ Cancel \/ UNCHANGED vars => pc' = pc /\ answer' = answer
  BY DEF Operate, PressEnter, TypeLine, ReadPending, GrantScope, RefuseScope, SendDecision,
         Work, TakeJob, StartPrimary, ClosePrimary, StartEngine, EndJob, CloseEngine,
         ClearJobGrants, Cancel, handlerVars, vars
<1> QED
  BY <1>1, <1>2, GateHandler DEF Next

\* The handlers implement the abstract gate: every request is answered once,
\* and what is shown is answered as the operator decided (daemon.go 154-235).
THEOREM ImplementsGate == Spec => GateSpec
<1>1. IInv /\ [Next]_vars => [Gate!Next]_(Gate!vars)
  BY GateStep DEF IInv
<1> QED
  BY <1>1, GateInit, Inductive, PTL DEF Spec, GateSpec, Gate!Spec
=============================================================================
