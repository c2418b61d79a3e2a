----------------------------- MODULE ResidentProofs -----------------------------
(***************************************************************************)
(* Proofs about the resident daemon, for every capacity of the queue, all  *)
(* providers, models and faults, and any number of jobs; and, in the last  *)
(* section, about the terminal it reads under --auto, for any number of    *)
(* lines and waits.                                                        *)
(***************************************************************************)
EXTENDS Resident, AutoInput, SequenceTheorems, TLAPS

\* The worker has a job unless it waits for one.
WorkerInv == worker.pc \in {"idle", "ended"} <=> worker.job.id = 0

\* Only a reader that waits for the end leaves the queue closed, and a worker that
\* has ended leaves it empty.
EndInv ==
  /\ closed => reader.pc \in {"wait", "returned"}
  /\ worker.pc = "ended" => closed /\ queue = <<>>

\* The reader's job is one that was submitted, and no other.
Fresh(job) ==
  /\ job.id \in 1 .. lastJob /\ job.id # worker.job.id
  /\ \A i \in 1 .. Len(queue) : queue[i].id # job.id

IdInv ==
  /\ worker.job.id <= lastJob
  /\ \A i \in 1 .. Len(queue) : queue[i].id \in 1 .. lastJob /\ queue[i].id # worker.job.id
  /\ \A i, j \in 1 .. Len(queue) : queue[i].id = queue[j].id => i = j
  /\ reader.pc \in {"prepare", "send"} => Fresh(reader.job)

IInv == TypeOK /\ WorkerInv /\ EndInv /\ IdInv

Reader == [pc : {"idle", "prepare", "send", "lock", "set", "turn", "wait", "returned"},
           job : Job, model : Models]

LEMMA NoJobType == AnyModel \in Models /\ NoJob \in Job /\ Idle \in Reader
<1>1. AnyModel \in Models
  BY ResidentAssumption DEF AnyModel
<1>2. NoJob \in Job
  BY <1>1, ResidentAssumption DEF NoJob, Job, Kinds
<1> QED
  BY <1>1, <1>2 DEF Idle, Reader

LEMMA NewJobType ==
  ASSUME TypeOK, lastJob < MaxJob, NEW kind \in Kinds
  PROVE  NewJob(kind) \in Job
BY ResidentAssumption DEF TypeOK, NewJob, Job

LEMMA InitInv == Init => IInv
<1> SUFFICES ASSUME Init PROVE IInv
  OBVIOUS
<1>1. /\ reader.pc \in {"idle", "prepare"} /\ reader \in Reader /\ lastJob \in 0 .. MaxJob
      /\ reader.pc = "prepare" => reader.job.id = lastJob /\ lastJob = 1
  <2>1. CASE reader = Idle /\ lastJob = 0
    BY <2>1, NoJobType, ResidentAssumption DEF Idle
  <2>2. ASSUME MaxJob > 0, lastJob = 1, NEW kind \in Kinds,
               reader = [Idle EXCEPT !.pc = "prepare", !.job = [id |-> 1, kind |-> kind, model |-> current]]
        PROVE  /\ reader.pc = "prepare" /\ reader \in Reader /\ lastJob \in 0 .. MaxJob
               /\ reader.job.id = 1
    <3>1. current \in Models
      BY DEF Init
    <3>2. 1 \in 0 .. MaxJob
      BY <2>2, ResidentAssumption
    <3> DEFINE job == [id |-> 1, kind |-> kind, model |-> current]
    <3>3. job \in Job /\ job.id = 1
      BY <3>1, <3>2 DEF Job
    <3> HIDE DEF job
    <3>4. reader = [pc |-> "prepare", job |-> job, model |-> AnyModel]
      BY <2>2 DEF Idle, job
    <3> QED
      BY <2>2, <3>2, <3>3, <3>4, NoJobType DEF Reader
  <2> QED
    BY <2>1, <2>2 DEF Init
<1>2. queue \in Seq(Job) /\ Len(queue) = 0 /\ queue = <<>>
  <2>1. queue = <<>>
    BY DEF Init
  <2> HIDE DEF Init
  <2> QED
    BY <2>1
<1>3. TypeOK
  <2>1. worker \in [pc : {"idle", "taken", "turn", "running", "asking", "finish", "ended"}, job : Job]
    BY NoJobType DEF Init
  <2>2. provider \in Providers /\ session = "live" /\ sessionModel = current /\ current \in Models
        /\ closed = FALSE /\ cancelled = FALSE
    BY DEF Init
  <2>3. Len(queue) <= Capacity
    BY <1>2, ResidentAssumption
  <2> QED
    <3>1. reader \in Reader /\ lastJob \in 0 .. MaxJob
      BY <1>1
    <3> QED
      BY <3>1, <1>2, <2>1, <2>2, <2>3 DEF TypeOK, Reader
<1>4. WorkerInv /\ EndInv
  BY DEF Init, WorkerInv, EndInv, NoJob
<1>5. IdInv
  <2>1. worker.job.id = 0
    BY DEF Init, NoJob
  <2> QED
    BY <1>1, <1>2, <2>1, ResidentAssumption DEF IdInv, Fresh
<1> QED
  BY <1>3, <1>4, <1>5 DEF IInv

-----------------------------------------------------------------------------
(* Each action preserves the type invariant *)

LEMMA KillType ==
  ASSUME TypeOK, Kill
  PROVE  session' \in {"none", "live", "dead"}
BY DEF TypeOK, Kill

LEMMA OperatorType ==
  ASSUME TypeOK, Operator
  PROVE  TypeOK'
<1>1. CASE Submit
  <2>1. PICK kind \in Kinds : reader' = [Idle EXCEPT !.pc = "prepare", !.job = NewJob(kind)]
    BY <1>1 DEF Submit
  <2>2. NewJob(kind) \in Job
    BY <1>1, NewJobType DEF Submit
  <2>3. reader' = [pc |-> "prepare", job |-> NewJob(kind), model |-> AnyModel]
    BY <2>1 DEF Idle
  <2>4. lastJob' \in 0 .. MaxJob
    BY <1>1, ResidentAssumption DEF Submit, TypeOK
  <2> QED
    BY <1>1, <2>2, <2>3, <2>4, NoJobType DEF Submit, TypeOK, models
<1>2. CASE ChooseModel
  BY <1>2, NoJobType DEF ChooseModel, TypeOK, models, Reader
<1>3. CASE Answer
  BY <1>3 DEF Answer, TypeOK, models
<1>4. CASE Restart
  BY <1>4, NoJobType, KillType DEF Restart, TypeOK, models, Reader
<1>5. CASE EndOfInput
  BY <1>5, NoJobType DEF EndOfInput, Close, TypeOK, models, Reader
<1>6. CASE Cancel
  BY <1>6, KillType DEF Cancel, TypeOK, models
<1> QED
  BY <1>1, <1>2, <1>3, <1>4, <1>5, <1>6 DEF Operator

LEMMA ReaderType ==
  ASSUME TypeOK, ReaderStep \/ Stop
  PROVE  TypeOK'
<1>1. CASE PrepareFails
  BY <1>1, NoJobType DEF PrepareFails, TypeOK, models, Reader
<1>2. CASE Announce
  BY <1>2 DEF Announce, TypeOK, models
<1>3. CASE Send
  <2>1. queue' \in Seq(Job) /\ Len(queue') = Len(queue) + 1
    BY <1>3, AppendProperties DEF Send, TypeOK
  <2>2. Len(queue') <= Capacity
    BY <1>3, <2>1, LenProperties, ResidentAssumption DEF Send, TypeOK
  <2> QED
    BY <1>3, <2>1, <2>2, NoJobType DEF Send, TypeOK, models, Reader
<1>4. CASE LockSession
  BY <1>4, NoJobType DEF LockSession, TypeOK, Reader
<1>5. CASE TakeTurn
  BY <1>5 DEF TakeTurn, TypeOK, models
<1>6. CASE SetModel
  BY <1>6, NoJobType DEF SetModel, TypeOK, Reader
<1>7. CASE SetModelFails
  BY <1>7, NoJobType DEF SetModelFails, TypeOK, models, Reader
<1>8. CASE Return
  BY <1>8 DEF Return, TypeOK, models
<1>9. CASE Stop
  BY <1>9, NoJobType DEF Stop, Close, TypeOK, models, Reader
<1> QED
  BY <1>1, <1>2, <1>3, <1>4, <1>5, <1>6, <1>7, <1>8, <1>9 DEF ReaderStep

LEMMA WorkerType ==
  ASSUME TypeOK, WorkerStep
  PROVE  TypeOK'
<1>1. CASE Take
  <2>1. /\ Head(queue) \in Job /\ Tail(queue) \in Seq(Job)
        /\ Len(Tail(queue)) = Len(queue) - 1
    BY <1>1, HeadTailProperties DEF Take, TypeOK
  <2>2. Len(Tail(queue)) <= Capacity
    BY <2>1, LenProperties, ResidentAssumption DEF TypeOK
  <2> QED
    BY <1>1, <2>1, <2>2 DEF Take, TypeOK, models
<1>2. CASE CloseSession
  BY <1>2 DEF CloseSession, TypeOK, models
<1>3. CASE UseSession
  BY <1>3 DEF UseSession, TypeOK, models, Job
<1>4. CASE SessionFails
  BY <1>4 DEF SessionFails, TypeOK, models
<1>5. CASE BeginTurn
  BY <1>5 DEF BeginTurn, TypeOK, models
<1>6. CASE EndTurn
  BY <1>6 DEF EndTurn, TypeOK, models
<1>7. CASE Finish
  BY <1>7, NoJobType DEF Finish, TypeOK, models
<1>8. CASE FinishRestarts
  BY <1>8, NoJobType, KillType DEF FinishRestarts, TypeOK, models
<1>9. CASE WorkerEnds
  BY <1>9 DEF WorkerEnds, TypeOK, models
<1> QED
  BY <1>1, <1>2, <1>3, <1>4, <1>5, <1>6, <1>7, <1>8, <1>9 DEF WorkerStep

LEMMA NextType ==
  ASSUME TypeOK, [Next]_vars
  PROVE  TypeOK'
<1>1. CASE Ask
  BY <1>1 DEF Ask, TypeOK, models
<1>2. CASE AgentDies
  BY <1>2, KillType DEF AgentDies, TypeOK, models
<1>3. CASE UNCHANGED vars
  BY <1>3 DEF vars, models, TypeOK
<1> QED
  BY <1>1, <1>2, <1>3, OperatorType, ReaderType, WorkerType DEF Next

-----------------------------------------------------------------------------
(* Each action preserves the rest of the invariant *)

LEMMA WorkerStays ==
  ASSUME TypeOK, WorkerInv, IdInv, [Next]_vars
  PROVE  WorkerInv'
<1>1. CASE Take
  <2>1. Head(queue) = queue[1] /\ 1 \in 1 .. Len(queue)
    BY <1>1 DEF Take, TypeOK
  <2>2. Head(queue).id # 0
    BY <2>1 DEF IdInv, TypeOK
  <2> QED
    BY <1>1, <2>2 DEF Take, WorkerInv
<1>2. CASE Finish \/ FinishRestarts
  BY <1>2 DEF Finish, FinishRestarts, WorkerInv, NoJob
<1>3. CASE WorkerEnds
  BY <1>3 DEF WorkerEnds, WorkerInv, TypeOK
<1>4. CASE CloseSession \/ UseSession \/ SessionFails \/ BeginTurn \/ EndTurn \/ Ask \/ Answer
  BY <1>4 DEF CloseSession, UseSession, SessionFails, BeginTurn, EndTurn, Ask, Answer, WorkerInv, TypeOK
<1>5. CASE UNCHANGED worker
  BY <1>5 DEF WorkerInv
<1> QED
  BY <1>1, <1>2, <1>3, <1>4, <1>5
     DEF Next, vars, Operator, ReaderStep, WorkerStep, Submit, ChooseModel, Restart, EndOfInput, Stop, Close,
         Cancel, PrepareFails, Announce, Send, LockSession, TakeTurn, SetModel, SetModelFails, Return, AgentDies

LEMMA EndStays ==
  ASSUME TypeOK, WorkerInv, EndInv, [Next]_vars
  PROVE  EndInv'
<1>1. CASE Submit \/ ChooseModel \/ PrepareFails \/ Announce \/ LockSession \/ TakeTurn \/ SetModel \/ SetModelFails
  <2>1. reader.pc \notin {"wait", "returned"}
    BY <1>1 DEF Submit, ChooseModel, PrepareFails, Announce, LockSession, TakeTurn, SetModel, SetModelFails, Setting
  <2>2. UNCHANGED <<queue, closed, worker>>
    BY <1>1 DEF Submit, ChooseModel, PrepareFails, Announce, LockSession, TakeTurn, SetModel, SetModelFails
  <2> QED
    BY <2>1, <2>2 DEF EndInv
<1>2. CASE Send
  BY <1>2 DEF Send, EndInv
<1>3. CASE Restart \/ EndOfInput \/ Stop
  BY <1>3 DEF Restart, EndOfInput, Stop, Close, EndInv, Idle
<1>4. CASE Return
  BY <1>4 DEF Return, EndInv, TypeOK
<1>5. CASE Take
  BY <1>5 DEF Take, EndInv
<1>6. CASE Finish \/ FinishRestarts \/ WorkerEnds
  BY <1>6 DEF Finish, FinishRestarts, WorkerEnds, EndInv, TypeOK
<1>7. CASE CloseSession \/ UseSession \/ SessionFails \/ BeginTurn \/ EndTurn \/ Ask \/ Answer
  BY <1>7 DEF CloseSession, UseSession, SessionFails, BeginTurn, EndTurn, Ask, Answer, EndInv, TypeOK
<1>8. CASE Cancel \/ AgentDies \/ UNCHANGED vars
  BY <1>8 DEF Cancel, AgentDies, vars, EndInv
<1> QED
  BY <1>1, <1>2, <1>3, <1>4, <1>5, <1>6, <1>7, <1>8 DEF Next, Operator, ReaderStep, WorkerStep

LEMMA IdsStay ==
  ASSUME TypeOK, WorkerInv, IdInv, [Next]_vars
  PROVE  IdInv'
<1> USE ResidentAssumption
<1>1. CASE Submit
  <2>1. PICK kind \in Kinds : reader' = [Idle EXCEPT !.pc = "prepare", !.job = NewJob(kind)]
    BY <1>1 DEF Submit
  <2>2. reader'.job.id = lastJob + 1
    BY <2>1 DEF Idle, NewJob
  <2>3. lastJob' = lastJob + 1 /\ UNCHANGED <<queue, worker>> /\ lastJob \in Nat
    BY <1>1 DEF Submit, TypeOK
  <2>4. worker.job.id <= lastJob /\ worker.job.id \in Nat
    BY DEF IdInv, TypeOK, Job
  <2> QED
    BY <2>2, <2>3, <2>4 DEF IdInv, Fresh
<1>2. CASE Send
  <2>1. /\ queue' = Append(queue, reader.job) /\ Len(queue') = Len(queue) + 1
        /\ queue'[Len(queue) + 1] = reader.job /\ \A i \in 1 .. Len(queue) : queue'[i] = queue[i]
        /\ Len(queue) \in Nat
    BY <1>2, AppendProperties, LenProperties DEF Send, TypeOK
  <2>2. Fresh(reader.job) /\ reader'.pc = "idle" /\ UNCHANGED <<worker, lastJob>>
    BY <1>2 DEF Send, IdInv, Idle
  <2>3. \A i \in 1 .. Len(queue') : i \in 1 .. Len(queue) \/ i = Len(queue) + 1
    BY <2>1
  <2>4. \A i \in 1 .. Len(queue') : queue'[i].id \in 1 .. lastJob' /\ queue'[i].id # worker'.job.id
    BY <2>1, <2>2, <2>3 DEF IdInv, Fresh
  <2>5. \A i, j \in 1 .. Len(queue') : queue'[i].id = queue'[j].id => i = j
    BY <2>1, <2>2, <2>3 DEF IdInv, Fresh
  <2> QED
    BY <2>2, <2>4, <2>5 DEF IdInv
<1>3. CASE Take
  <2>1. /\ Head(queue) = queue[1] /\ 1 \in 1 .. Len(queue) /\ Len(queue') = Len(queue) - 1
        /\ \A i \in 1 .. Len(queue') : i + 1 \in 1 .. Len(queue) /\ queue'[i] = queue[i + 1]
    BY <1>3, HeadTailProperties, LenProperties DEF Take, TypeOK
  <2>2. worker'.job = queue[1] /\ UNCHANGED <<reader, lastJob>>
    BY <1>3, <2>1 DEF Take
  <2>3. worker'.job.id \in 1 .. lastJob
    BY <2>1, <2>2 DEF IdInv
  <2>4. ASSUME NEW i \in 1 .. Len(queue')
        PROVE  queue'[i].id \in 1 .. lastJob /\ queue'[i].id # worker'.job.id
    <3>1. i + 1 \in 1 .. Len(queue) /\ i + 1 # 1 /\ queue'[i] = queue[i + 1]
      BY <2>1
    <3> QED
      BY <2>1, <2>2, <3>1 DEF IdInv
  <2>5. ASSUME NEW i \in 1 .. Len(queue'), NEW j \in 1 .. Len(queue'), queue'[i].id = queue'[j].id
        PROVE  i = j
    <3>1. queue[i + 1].id = queue[j + 1].id /\ i + 1 \in 1 .. Len(queue) /\ j + 1 \in 1 .. Len(queue)
      BY <2>1, <2>5
    <3>2. i + 1 = j + 1
      BY <3>1 DEF IdInv
    <3> QED
      BY <3>2
  <2>6. Fresh(reader.job) => Fresh(reader.job)'
    BY <2>1, <2>2 DEF Fresh
  <2> QED
    BY <2>2, <2>3, <2>4, <2>5, <2>6 DEF IdInv, TypeOK
<1>4. CASE Finish \/ FinishRestarts
  <2>1. worker'.job.id = 0 /\ UNCHANGED <<queue, reader, lastJob>> /\ lastJob \in Nat
    BY <1>4 DEF Finish, FinishRestarts, NoJob, TypeOK
  <2> QED
    BY <2>1 DEF IdInv, Fresh
<1>5. CASE UNCHANGED <<queue, lastJob, reader>> /\ UNCHANGED worker.job
  BY <1>5 DEF IdInv, Fresh
<1>6. CASE UNCHANGED <<queue, lastJob, worker>> /\ reader'.pc \notin {"prepare", "send"}
  BY <1>6 DEF IdInv, Fresh
<1>7. CASE Announce
  BY <1>7 DEF Announce, IdInv, Fresh, TypeOK
<1>8. CASE ChooseModel \/ PrepareFails \/ LockSession \/ TakeTurn \/ SetModel \/ SetModelFails \/ Restart \/ EndOfInput
           \/ Stop \/ Return
  <2>1. UNCHANGED <<queue, lastJob, worker>>
    BY <1>8
       DEF ChooseModel, PrepareFails, LockSession, TakeTurn, SetModel, SetModelFails, Restart, EndOfInput, Stop, Close,
           Return
  <2>2. CASE ChooseModel
    <3>1. reader'.pc = "lock"
      BY <2>2 DEF ChooseModel, Idle
    <3> QED
      BY <1>6, <2>1, <3>1
  <2>3. CASE PrepareFails \/ SetModel \/ SetModelFails
    <3>1. reader'.pc = "idle"
      BY <2>3 DEF PrepareFails, SetModel, SetModelFails, Idle
    <3> QED
      BY <1>6, <2>1, <3>1
  <2>4. CASE LockSession \/ TakeTurn \/ Return
    <3>1. reader'.pc \in {"idle", "set", "turn", "returned"}
      BY <2>4 DEF LockSession, TakeTurn, Return, Idle, TypeOK
    <3> QED
      BY <1>6, <2>1, <3>1
  <2>5. CASE Restart \/ EndOfInput \/ Stop
    BY <1>6, <2>1, <2>5 DEF Restart, EndOfInput, Stop, Close, Idle
  <2> QED
    BY <1>8, <2>2, <2>3, <2>4, <2>5
<1>9. CASE CloseSession \/ UseSession \/ SessionFails \/ BeginTurn \/ EndTurn \/ Ask \/ WorkerEnds
  BY <1>5, <1>9
     DEF CloseSession, UseSession, SessionFails, BeginTurn, EndTurn, Ask, WorkerEnds, TypeOK
<1>10. CASE Answer \/ Cancel \/ AgentDies \/ UNCHANGED vars
  BY <1>5, <1>10 DEF Answer, Cancel, AgentDies, vars, TypeOK
<1> QED
  BY <1>1, <1>2, <1>3, <1>4, <1>7, <1>8, <1>9, <1>10 DEF Next, Operator, ReaderStep, WorkerStep

\* The strengthened invariant is inductive.
THEOREM Inductive == Spec => []IInv
<1>1. IInv /\ [Next]_vars => IInv'
  BY NextType, WorkerStays, EndStays, IdsStay DEF IInv
<1> QED
  BY <1>1, InitInv, PTL DEF Spec

\* The daemon's state is always of its type, whatever the capacity: the queue never
\* holds more than it has room for (daemon.go 456).
THEOREM TypeCorrect == Spec => []TypeOK
BY Inductive, PTL DEF IInv

-----------------------------------------------------------------------------
(* The primary session *)

\* Neither the worker nor the end of Run closes the session under a turn of the
\* worker or of a model switch (daemon.go 253-259, 361-377, 504-521).
THEOREM SessionOutlivesTurns == Spec => NotClosedInTurn
<1>1. ASSUME IInv, [Next]_vars, session # "none", session' = "none"
      PROVE  ~PromptRuns /\ reader.pc # "turn"
  <2>1. CASE CloseSession
    <3>1. worker.pc = "taken" /\ reader.pc \notin {"set", "turn"}
      BY <2>1 DEF CloseSession, SessionLocked
    <3> QED
      BY <3>1 DEF PromptRuns
  <2>2. CASE Return
    <3>1. reader.pc = "wait" /\ worker.pc = "ended"
      BY <2>2 DEF Return
    <3> QED
      BY <3>1 DEF PromptRuns
  <2>3. CASE Kill
    BY <1>1, <2>3 DEF Kill
  <2>4. CASE UseSession \/ UNCHANGED session
    BY <1>1, <2>4 DEF UseSession
  <2> QED
    BY <1>1, <2>1, <2>2, <2>3, <2>4
       DEF Next, vars, Operator, ReaderStep, WorkerStep, Submit, ChooseModel, Answer, Restart, EndOfInput, Stop, Close,
           Cancel, PrepareFails, Announce, Send, LockSession, TakeTurn, SetModel, SetModelFails, AgentDies, Take,
           SessionFails, BeginTurn, EndTurn, Finish, FinishRestarts, WorkerEnds, Ask
<1>2. IInv /\ [Next]_vars => (session # "none" /\ session' = "none" => ~PromptRuns /\ reader.pc # "turn")
  BY <1>1
<1> QED
  BY <1>2, Inductive, PTL DEF Spec, NotClosedInTurn

-----------------------------------------------------------------------------
(* The daemon implements JobService *)

LEMMA IdsProperties ==
  ASSUME NEW jobs \in Seq(Job)
  PROVE  /\ Ids(jobs) \in Seq(Nat) /\ Len(Ids(jobs)) = Len(jobs)
         /\ \A i \in 1 .. Len(jobs) : Ids(jobs)[i] = jobs[i].id
<1>1. \A i \in 1 .. Len(jobs) : jobs[i].id \in Nat
  <2>1. \A job \in Job : job.id \in Nat
    BY ResidentAssumption DEF Job
  <2> QED
    BY <2>1, ElementOfSeq
<1>2. Len(jobs) \in Nat
  BY LenProperties
<1> DEFINE n == Len(jobs)
           ids == [i \in 1 .. n |-> jobs[i].id]
<1>3. ids \in [1 .. n -> Nat]
  BY <1>1
<1>4. ids \in Seq(Nat) /\ Len(ids) = n
  <2> HIDE DEF ids, n
  <2>1. n \in Nat
    BY <1>2 DEF n
  <2>2. ids \in Seq(Nat)
    BY <1>3, <2>1
  <2> QED
    BY <1>3, <2>1, <2>2, LenProperties
<1> QED
  BY <1>4 DEF Ids

LEMMA IdsEmpty == Ids(<<>>) = <<>>
<1>1. <<>> \in Seq(Job) /\ Len(<<>>) = 0
  OBVIOUS
<1>2. Ids(<<>>) \in Seq(Nat) /\ Len(Ids(<<>>)) = 0
  BY <1>1, IdsProperties
<1> QED
  BY <1>2

LEMMA IdsAppend ==
  ASSUME NEW jobs \in Seq(Job), NEW job \in Job
  PROVE  Ids(Append(jobs, job)) = Append(Ids(jobs), job.id)
<1>1. job.id \in Nat /\ Append(jobs, job) \in Seq(Job)
  BY ResidentAssumption DEF Job
<1>2. /\ Ids(Append(jobs, job)) \in Seq(Nat) /\ Len(Ids(Append(jobs, job))) = Len(jobs) + 1
      /\ \A i \in 1 .. Len(jobs) + 1 : Ids(Append(jobs, job))[i] = Append(jobs, job)[i].id
  <2>1. Len(Append(jobs, job)) = Len(jobs) + 1
    BY AppendProperties
  <2> QED
    BY <1>1, <2>1, IdsProperties
<1>3. /\ Append(Ids(jobs), job.id) \in Seq(Nat) /\ Len(Append(Ids(jobs), job.id)) = Len(jobs) + 1
      /\ \A i \in 1 .. Len(jobs) + 1 :
           Append(Ids(jobs), job.id)[i] = IF i = Len(jobs) + 1 THEN job.id ELSE jobs[i].id
  BY <1>1, IdsProperties
<1>4. \A i \in 1 .. Len(jobs) + 1 : Ids(Append(jobs, job))[i] = Append(Ids(jobs), job.id)[i]
  BY <1>2, <1>3
<1> QED
  BY <1>2, <1>3, <1>4, SeqEqual

LEMMA IdsTail ==
  ASSUME NEW jobs \in Seq(Job), jobs # <<>>
  PROVE  /\ Ids(jobs) # <<>> /\ Head(Ids(jobs)) = Head(jobs).id
         /\ Ids(Tail(jobs)) = Tail(Ids(jobs))
<1>1. /\ Ids(jobs) \in Seq(Nat) /\ Len(Ids(jobs)) = Len(jobs) /\ Len(jobs) > 0 /\ Len(jobs) \in Nat
      /\ \A i \in 1 .. Len(jobs) : Ids(jobs)[i] = jobs[i].id
  BY IdsProperties
<1>2. /\ Tail(jobs) \in Seq(Job) /\ Len(Tail(jobs)) = Len(jobs) - 1
      /\ \A i \in 1 .. Len(jobs) - 1 : Tail(jobs)[i] = jobs[i + 1]
  BY HeadTailProperties
<1>3. /\ Ids(Tail(jobs)) \in Seq(Nat) /\ Len(Ids(Tail(jobs))) = Len(jobs) - 1
      /\ \A i \in 1 .. Len(jobs) - 1 : Ids(Tail(jobs))[i] = jobs[i + 1].id
  BY <1>2, IdsProperties
<1>4. Ids(jobs) # <<>> /\ Head(Ids(jobs)) = Head(jobs).id
  BY <1>1
<1>5. /\ Tail(Ids(jobs)) \in Seq(Nat) /\ Len(Tail(Ids(jobs))) = Len(jobs) - 1
      /\ \A i \in 1 .. Len(jobs) - 1 : Tail(Ids(jobs))[i] = jobs[i + 1].id
  BY <1>1, <1>4, HeadTailProperties
<1> QED
  BY <1>3, <1>4, <1>5, SeqEqual

\* The announced jobs, as Service!waiting has them.
Announced == IF reader.pc = "send" THEN Append(queue, reader.job) ELSE queue

LEMMA ServiceInit == Init => Service!Init
<1> SUFFICES ASSUME Init PROVE Service!Init
  OBVIOUS
<1>1. worker.job.id = 0 /\ queue = <<>>
  BY DEF Init, NoJob
<1>2. reader.pc \in {"idle", "prepare"}
  <2>1. CASE reader = Idle
    BY <2>1 DEF Idle
  <2>2. ASSUME NEW kind \in Kinds,
               reader = [Idle EXCEPT !.pc = "prepare", !.job = [id |-> 1, kind |-> kind, model |-> current]]
        PROVE  reader.pc = "prepare"
    BY <2>2 DEF Idle
  <2> QED
    BY <2>1, <2>2 DEF Init
<1>3. Ids(queue) = <<>>
  BY <1>1, IdsEmpty
<1> QED
  BY <1>1, <1>2, <1>3 DEF Service!Init

LEMMA ServiceStep == IInv /\ [Next]_vars => [Service!Next]_(Service!vars)
<1> SUFFICES ASSUME IInv, [Next]_vars
             PROVE  Service!Next \/ UNCHANGED Service!vars
  OBVIOUS
<1> USE DEF IInv
<1>1. CASE Announce
  <2>1. /\ reader.pc = "prepare" /\ reader'.pc = "send" /\ reader'.job = reader.job
        /\ UNCHANGED <<queue, worker>>
    BY <1>1 DEF Announce, TypeOK
  <2>2. reader.job \in Job /\ queue \in Seq(Job)
    BY DEF TypeOK
  <2>3. Ids(Announced) = Ids(queue) /\ Announced' = Append(queue, reader.job)
    BY <2>1 DEF Announced
  <2>4. Ids(Announced)' = Append(Ids(Announced), reader.job.id)
    BY <2>2, <2>3, IdsAppend
  <2>5. Fresh(reader.job)
    BY <2>1 DEF IdInv
  <2>6. /\ reader.job.id \in 1 .. MaxJob /\ reader.job.id # worker.job.id
        /\ \A i \in 1 .. Len(Ids(Announced)) : Ids(Announced)[i] # reader.job.id
    BY <2>2, <2>3, <2>5, IdsProperties, ResidentAssumption DEF Fresh, TypeOK
  <2>7. Service!Announce
    BY <2>1, <2>4, <2>6 DEF Service!Announce, Announced
  <2> QED
    BY <2>7 DEF Service!Next
<1>2. CASE Send
  <2>1. /\ reader.pc = "send" /\ reader'.pc = "idle"
        /\ queue' = Append(queue, reader.job) /\ UNCHANGED worker
    BY <1>2 DEF Send, Idle
  <2>2. Announced' = Announced
    BY <2>1 DEF Announced
  <2> QED
    BY <2>1, <2>2 DEF Service!vars, Announced
<1>3. CASE Take
  <2>1. /\ queue # <<>> /\ worker.job.id = 0 /\ worker'.job = Head(queue)
        /\ queue' = Tail(queue) /\ UNCHANGED reader
    BY <1>3 DEF Take, WorkerInv
  <2>2. reader.job \in Job /\ queue \in Seq(Job)
    BY DEF TypeOK
  <2>3. Announced \in Seq(Job) /\ Announced # <<>> /\ Head(Announced) = Head(queue)
    BY <2>1, <2>2 DEF Announced
  <2>4. Announced' = Tail(Announced)
    BY <2>1, <2>2, HeadTailAppend DEF Announced
  <2>5. Ids(Announced) # <<>> /\ Head(Ids(Announced)) = worker'.job.id /\ Ids(Announced') = Tail(Ids(Announced))
    BY <2>1, <2>3, <2>4, IdsTail
  <2>6. Service!Serve
    BY <2>1, <2>5 DEF Service!Serve, Announced
  <2> QED
    BY <2>6 DEF Service!Next
<1>4. CASE Finish \/ FinishRestarts
  <2>1. worker.job.id # 0 /\ worker'.job.id = 0 /\ UNCHANGED <<queue, reader>>
    BY <1>4 DEF Finish, FinishRestarts, WorkerInv, NoJob
  <2>2. Service!Finish
    BY <2>1 DEF Service!Finish
  <2> QED
    BY <2>2 DEF Service!Next
<1>5. CASE Return
  <2>1. /\ worker.job.id = 0 /\ queue = <<>> /\ reader.pc = "wait" /\ reader'.pc = "returned"
        /\ UNCHANGED <<queue, worker>>
    BY <1>5 DEF Return, WorkerInv, EndInv, TypeOK
  <2>2. Ids(queue) = <<>>
    BY <2>1, IdsEmpty
  <2>3. Service!End
    BY <2>1, <2>2 DEF Service!End
  <2> QED
    BY <2>3 DEF Service!Next
<1>6. ASSUME UNCHANGED queue, reader.pc \notin {"send", "returned"}, reader'.pc \notin {"send", "returned"},
             worker'.job.id = worker.job.id
      PROVE  UNCHANGED Service!vars
  BY <1>6 DEF Service!vars
<1>7. CASE Submit \/ ChooseModel \/ PrepareFails \/ LockSession \/ TakeTurn \/ SetModel \/ SetModelFails \/ Restart
           \/ EndOfInput \/ Stop
  <2>1. reader.pc \notin {"send", "returned"} /\ UNCHANGED <<queue, worker>>
    BY <1>7
       DEF Submit, ChooseModel, PrepareFails, LockSession, TakeTurn, SetModel, SetModelFails, Setting, Restart,
           EndOfInput, Stop, Close
  <2>2. CASE Submit \/ ChooseModel \/ Restart \/ EndOfInput \/ Stop
    <3>1. reader'.pc \in {"prepare", "lock", "wait"}
      BY <2>2 DEF Submit, ChooseModel, Restart, EndOfInput, Stop, Close, Idle
    <3> QED
      BY <1>6, <2>1, <3>1
  <2>3. CASE PrepareFails \/ LockSession \/ TakeTurn \/ SetModel \/ SetModelFails
    <3>1. reader'.pc \in {"idle", "set", "turn"}
      BY <2>3 DEF PrepareFails, LockSession, TakeTurn, SetModel, SetModelFails, Idle, TypeOK
    <3> QED
      BY <1>6, <2>1, <3>1
  <2> QED
    BY <1>7, <2>2, <2>3
<1>8. ASSUME UNCHANGED <<queue, reader>>, worker'.job.id = worker.job.id
      PROVE  UNCHANGED Service!vars
  BY <1>8 DEF Service!vars
<1>9. CASE CloseSession \/ UseSession \/ SessionFails \/ BeginTurn \/ EndTurn \/ Ask \/ WorkerEnds \/ Answer
  <2>1. UNCHANGED <<queue, reader>> /\ worker'.job.id = worker.job.id
    BY <1>9
       DEF CloseSession, UseSession, SessionFails, BeginTurn, EndTurn, Ask, WorkerEnds, Answer, TypeOK
  <2> QED
    BY <1>8, <2>1
<1>10. CASE Cancel \/ AgentDies \/ UNCHANGED vars
  BY <1>8, <1>10 DEF Cancel, AgentDies, vars
<1> QED
  BY <1>1, <1>2, <1>3, <1>4, <1>5, <1>7, <1>9, <1>10 DEF Next, Operator, ReaderStep, WorkerStep

\* Every announced job is served, in order, one at a time, before Run returns
\* (daemon.go 454-460, 600-609, 694-720).
THEOREM ImplementsService == Spec => ServiceSpec
BY ServiceInit, ServiceStep, Inductive, PTL DEF Spec, ServiceSpec, Service!Spec

-----------------------------------------------------------------------------
(* The input of auto mode (AutoInput) *)

\* A line is held from its reading to its notification.
HoldInv == terminal.pc \in {"file", "notify"} => terminal.line \in Line

\* Lines are filed for the wait exactly between beginWait and endWait, so that outside
\* of these nothing is left in waitLines.
FilesInv ==
  /\ main \in {"wait", "leave"} => waiting
  /\ main \in {"select", "begin", "cancel", "read", "token"} => ~waiting /\ waitLines = <<>>

\* A wait begins without lines of the daemon, and until the next one begins all lines are
\* of the time since the last.
LinesInv ==
  /\ main \in {"wait", "leave"} =>
       normalLines = <<>> /\ \A i \in DOMAIN waitLines : waitLines[i].after = wait
  /\ main \in {"cancel", "select", "read", "token"} => \A i \in DOMAIN normalLines : normalLines[i].after = wait

InputInv == InputTypeOK /\ HoldInv /\ FilesInv /\ LinesInv

LEMMA InputBounds == MaxLine \in Nat /\ MaxWait \in Nat /\ 0 \in 0 .. MaxLine /\ 0 \in 0 .. MaxWait
BY AutoInputAssumption

\* A line that is filed at the end of a queue, and a queue without its head.
LEMMA FiledLines ==
  ASSUME NEW q \in Seq(Line), NEW line \in Line
  PROVE  /\ Append(q, line) \in Seq(Line)
         /\ \A w : (\A i \in DOMAIN q : q[i].after = w) /\ line.after = w
              => \A i \in DOMAIN Append(q, line) : Append(q, line)[i].after = w
BY AppendProperties, LenProperties

LEMMA TakenLines ==
  ASSUME NEW q \in Seq(Line), q # <<>>
  PROVE  /\ Head(q) \in Line /\ Tail(q) \in Seq(Line)
         /\ \A w : (\A i \in DOMAIN q : q[i].after = w) => \A i \in DOMAIN Tail(q) : Tail(q)[i].after = w
<1>1. /\ Head(q) \in Line /\ Tail(q) \in Seq(Line) /\ Len(Tail(q)) = Len(q) - 1 /\ Len(q) \in Nat
      /\ \A i \in 1 .. Len(Tail(q)) : Tail(q)[i] = q[i + 1]
  BY HeadTailProperties, LenProperties
<1> DEFINE r == Tail(q)
<1> HIDE DEF r
<1>2. r \in Seq(Line) /\ Len(r) = Len(q) - 1 /\ \A i \in 1 .. Len(r) : r[i] = q[i + 1]
  BY <1>1 DEF r
<1>3. DOMAIN r = 1 .. Len(r) /\ DOMAIN q = 1 .. Len(q)
  BY <1>2, LenProperties
<1>4. ASSUME NEW w, \A i \in DOMAIN q : q[i].after = w, NEW i \in DOMAIN r PROVE r[i].after = w
  <2>1. i \in 1 .. Len(r) /\ i + 1 \in DOMAIN q
    BY <1>1, <1>2, <1>3, <1>4
  <2> QED
    BY <1>2, <1>4, <2>1
<1> QED
  BY <1>1, <1>4 DEF r

\* The line that the reader files gets the number of the last wait.
LEMMA FiledLine ==
  ASSUME InputTypeOK, HoldInv, terminal.pc = "file"
  PROVE  [terminal.line EXCEPT !.after = wait] \in Line /\ [terminal.line EXCEPT !.after = wait].after = wait
<1>1. terminal.line \in Line /\ wait \in 0 .. MaxWait
  BY DEF HoldInv, InputTypeOK
<1> QED
  BY <1>1 DEF Line

LEMMA InputStarts == InputInit => InputInv
<1> SUFFICES ASSUME InputInit PROVE InputInv
  OBVIOUS
<1>1. terminal \in [pc : {"reading", "file", "notify", "ended"}, line : Line \cup {NoLine}]
  BY DEF InputInit
<1>2. waitLines \in Seq(Line) /\ normalLines \in Seq(Line)
  BY DEF InputInit
<1>3. next \in [Waits -> {"none", "check", "token", "gone", "enter", "text", "end"}]
  BY DEF InputInit
<1>4. InputTypeOK
  BY <1>1, <1>2, <1>3, InputBounds DEF InputInit, InputTypeOK
<1> QED
  BY <1>4 DEF InputInit, InputInv, HoldInv, FilesInv, LinesInv

LEMMA TerminalKeeps == ASSUME InputInv, ReadLine \/ TerminalStep PROVE InputInv'
<1>t. InputTypeOK /\ HoldInv /\ FilesInv /\ LinesInv
  BY DEF InputInv
<1>1. CASE ReadLine
  <2>1. PICK text \in Text, end \in BOOLEAN :
          /\ text = "none" => end
          /\ terminal' = [pc |-> "file", line |-> [id |-> lines + 1, text |-> text, end |-> end, after |-> 0]]
    BY <1>1 DEF ReadLine
  <2>2. lines \in 0 .. MaxLine /\ lines < MaxLine /\ lines' = lines + 1
    BY <1>1, <1>t DEF ReadLine, InputTypeOK
  <2>3. lines' \in 1 .. MaxLine
    BY <2>2, InputBounds
  <2>4. [id |-> lines + 1, text |-> text, end |-> end, after |-> 0] \in Line
    BY <2>1, <2>2, <2>3, InputBounds DEF Line
  <2>5. terminal' \in [pc : {"reading", "file", "notify", "ended"}, line : Line \cup {NoLine}] /\ HoldInv'
    BY <2>1, <2>4 DEF HoldInv
  <2>6. UNCHANGED <<input, terminalErr, main, wait, next, stolen>>
    BY <1>1 DEF ReadLine
  <2>7. InputTypeOK'
    BY <1>t, <2>3, <2>5, <2>6, InputBounds DEF InputTypeOK, input
  <2> QED
    BY <1>t, <2>5, <2>6, <2>7 DEF InputInv, FilesInv, LinesInv, input
<1>2. CASE FileLine
  <2> DEFINE line == [terminal.line EXCEPT !.after = wait]
  <2>1. line \in Line /\ line.after = wait
    BY <1>2, <1>t, FiledLine DEF FileLine
  <2> HIDE DEF line
  <2>2. /\ terminal.pc = "file" /\ terminal' = [terminal EXCEPT !.pc = "notify"]
        /\ IF waiting THEN waitLines' = Append(waitLines, line) /\ UNCHANGED normalLines
           ELSE normalLines' = Append(normalLines, line) /\ UNCHANGED waitLines
        /\ UNCHANGED <<waiting, notify, terminalErr, main, wait, next, lines, stolen>>
    BY <1>2 DEF FileLine, line
  <2>3. waitLines \in Seq(Line) /\ normalLines \in Seq(Line)
    BY <1>t DEF InputTypeOK
  <2>4. waitLines' \in Seq(Line) /\ normalLines' \in Seq(Line)
    BY <2>1, <2>2, <2>3, FiledLines
  <2>5. terminal' \in [pc : {"reading", "file", "notify", "ended"}, line : Line \cup {NoLine}]
        /\ terminal'.pc = "notify" /\ terminal'.line = terminal.line
    BY <1>t, <2>2 DEF InputTypeOK
  <2>6. InputTypeOK'
    BY <1>t, <2>2, <2>4, <2>5 DEF InputTypeOK
  <2>7. HoldInv'
    BY <1>t, <2>2, <2>5 DEF HoldInv
  <2>8. FilesInv' /\ LinesInv'
    <3>1. CASE waiting
      <4>1. \A w : (\A i \in DOMAIN waitLines : waitLines[i].after = w) /\ w = wait
              => \A i \in DOMAIN waitLines' : waitLines'[i].after = w
        BY <2>1, <2>2, <2>3, <3>1, FiledLines
      <4> QED
        BY <1>t, <2>2, <3>1, <4>1 DEF FilesInv, LinesInv
    <3>2. CASE ~waiting
      <4>1. \A w : (\A i \in DOMAIN normalLines : normalLines[i].after = w) /\ w = wait
              => \A i \in DOMAIN normalLines' : normalLines'[i].after = w
        BY <2>1, <2>2, <2>3, <3>2, FiledLines
      <4> QED
        BY <1>t, <2>2, <3>2, <4>1 DEF FilesInv, LinesInv
    <3> QED
      BY <3>1, <3>2
  <2> QED
    BY <2>6, <2>7, <2>8 DEF InputInv
<1>3. CASE Notify
  <2>1. /\ terminal' = [pc |-> IF terminal.line.end THEN "ended" ELSE "reading", line |-> NoLine] /\ notify' = TRUE
        /\ UNCHANGED <<waiting, waitLines, normalLines, terminalErr, main, wait, next, lines, stolen>>
    BY <1>3 DEF Notify
  <2>2. terminal' \in [pc : {"reading", "file", "notify", "ended"}, line : Line \cup {NoLine}]
        /\ terminal'.pc \notin {"file", "notify"}
    BY <2>1
  <2>3. InputTypeOK'
    BY <1>t, <2>1, <2>2 DEF InputTypeOK
  <2> QED
    BY <1>t, <2>1, <2>2, <2>3 DEF InputInv, HoldInv, FilesInv, LinesInv
<1> QED
  BY <1>1, <1>2, <1>3 DEF TerminalStep

LEMMA WaiterKeeps == ASSUME InputInv, NEW w \in Waits, NextLine(w) PROVE InputInv'
<1>t. InputTypeOK /\ HoldInv /\ FilesInv /\ LinesInv
  BY DEF InputInv
<1> DEFINE Places == {"none", "check", "token", "gone", "enter", "text", "end"}
<1>1. CASE TakeWaitLine(w) /\ waitLines = <<>>
  <2>1. next' \in [Waits -> Places] /\ stolen' \in BOOLEAN
    BY <1>1, <1>t DEF TakeWaitLine, InputTypeOK
  <2>2. UNCHANGED <<terminal, waiting, waitLines, normalLines, notify, terminalErr, main, wait, lines>>
    BY <1>1 DEF TakeWaitLine
  <2>3. InputTypeOK'
    BY <1>t, <2>1, <2>2 DEF InputTypeOK
  <2> QED
    BY <1>t, <2>2, <2>3 DEF InputInv, HoldInv, FilesInv, LinesInv
<1>2. CASE TakeWaitLine(w) /\ waitLines # <<>>
  <2>1. waitLines \in Seq(Line)
    BY <1>t DEF InputTypeOK
  <2>2. Head(waitLines).text \in Text /\ (Head(waitLines).text = "none" => Head(waitLines).end)
    BY <1>2, <2>1, TakenLines DEF Line
  <2>3. next' \in [Waits -> Places] /\ stolen' \in BOOLEAN
    <3>1. next' = [next EXCEPT ![w] = IF Head(waitLines).end THEN "end" ELSE Head(waitLines).text]
          /\ stolen' = (stolen \/ (waitLines # <<>> /\ CtxDone(w)))
      BY <1>2 DEF TakeWaitLine
    <3>2. (IF Head(waitLines).end THEN "end" ELSE Head(waitLines).text) \in Places
      BY <2>2 DEF Text
    <3>3. next \in [Waits -> Places] /\ stolen \in BOOLEAN
      BY <1>t DEF InputTypeOK
    <3> QED
      BY <3>1, <3>2, <3>3
  <2>4. /\ waitLines' = Tail(waitLines)
        /\ UNCHANGED <<terminal, waiting, normalLines, notify, terminalErr, main, wait, lines>>
    BY <1>2 DEF TakeWaitLine
  <2>5. waitLines' \in Seq(Line)
    BY <1>2, <2>1, <2>4, TakenLines
  <2>6. InputTypeOK'
    BY <1>t, <2>3, <2>4, <2>5 DEF InputTypeOK
  <2>7. \A k : (\A i \in DOMAIN waitLines : waitLines[i].after = k) => \A i \in DOMAIN waitLines' : waitLines'[i].after = k
    BY <1>2, <2>1, <2>4, TakenLines
  <2>8. LinesInv'
    BY <1>t, <2>4, <2>7 DEF LinesInv
  <2>9. FilesInv'
    BY <1>t, <1>2, <2>4 DEF FilesInv
  <2> QED
    BY <1>t, <2>4, <2>6, <2>8, <2>9 DEF InputInv, HoldInv
<1>3. CASE TakeToken(w) \/ GiveUp(w)
  <2>1. next' \in [Waits -> Places] /\ stolen' \in BOOLEAN /\ notify' \in BOOLEAN
    BY <1>3, <1>t DEF TakeToken, GiveUp, InputTypeOK, input
  <2>2. UNCHANGED <<terminal, waiting, waitLines, normalLines, terminalErr, main, wait, lines>>
    BY <1>3 DEF TakeToken, GiveUp, input
  <2>3. InputTypeOK'
    BY <1>t, <2>1, <2>2 DEF InputTypeOK
  <2> QED
    BY <1>t, <2>2, <2>3 DEF InputInv, HoldInv, FilesInv, LinesInv
<1> QED
  BY <1>1, <1>2, <1>3 DEF NextLine

LEMMA WaitKeeps ==
  ASSUME InputInv, BeginWait \/ HearWait \/ EndWait \/ CancelWait \/ NoTarget \/ Target \/ Timeout \/ Interrupt
  PROVE  InputInv'
<1>t. InputTypeOK /\ HoldInv /\ FilesInv /\ LinesInv
  BY DEF InputInv
<1> USE DEF input
<1>1. CASE BeginWait
  <2>1. /\ waiting' = TRUE /\ waitLines' = <<>> /\ normalLines' = <<>> /\ main' = "wait"
        /\ UNCHANGED <<terminal, notify, terminalErr, wait, lines, stolen>>
    BY <1>1 DEF BeginWait
  <2>2. waitLines' \in Seq(Line) /\ normalLines' \in Seq(Line)
    BY <2>1
  <2>3. next' \in [Waits -> {"none", "check", "token", "gone", "enter", "text", "end"}]
    BY <1>1, <1>t DEF BeginWait, InputTypeOK
  <2>4. InputTypeOK'
    BY <1>t, <2>1, <2>2, <2>3 DEF InputTypeOK
  <2>5. DOMAIN waitLines' = {}
    BY <2>1
  <2> QED
    BY <1>t, <2>1, <2>4, <2>5 DEF InputInv, HoldInv, FilesInv, LinesInv
<1>2. CASE HearWait
  <2>1. /\ main = "wait" /\ main' \in {"wait", "leave"}
        /\ UNCHANGED <<terminal, waiting, waitLines, normalLines, notify, terminalErr, wait, lines, stolen>>
    BY <1>2 DEF HearWait
  <2>2. next' \in [Waits -> {"none", "check", "token", "gone", "enter", "text", "end"}]
    BY <1>2, <1>t DEF HearWait, InputTypeOK
  <2>3. InputTypeOK'
    BY <1>t, <2>1, <2>2 DEF InputTypeOK
  <2> QED
    BY <1>t, <2>1, <2>3 DEF InputInv, HoldInv, FilesInv, LinesInv
<1>3. CASE EndWait
  <2>1. /\ main = "leave" /\ main' = "cancel" /\ waiting' = FALSE /\ waitLines' = <<>>
        /\ UNCHANGED <<terminal, normalLines, notify, terminalErr, wait, next, lines, stolen>>
    BY <1>3 DEF EndWait
  <2>2. waitLines' \in Seq(Line)
    BY <2>1
  <2>3. InputTypeOK'
    BY <1>t, <2>1, <2>2 DEF InputTypeOK
  <2>4. DOMAIN normalLines = {}
    BY <1>t, <2>1 DEF LinesInv
  <2> QED
    BY <1>t, <2>1, <2>3, <2>4 DEF InputInv, HoldInv, FilesInv, LinesInv
<1>4. CASE CancelWait \/ Target \/ Timeout \/ Interrupt
  BY <1>4, <1>t DEF CancelWait, Target, Timeout, Interrupt, InputInv, InputTypeOK, HoldInv, FilesInv, LinesInv
<1>5. CASE NoTarget
  <2>1. wait' \in 0 .. MaxWait
    BY <1>5, <1>t, InputBounds DEF NoTarget, InputTypeOK
  <2> QED
    BY <1>5, <1>t, <2>1 DEF NoTarget, InputInv, InputTypeOK, HoldInv, FilesInv, LinesInv
<1> QED
  BY <1>1, <1>2, <1>3, <1>4, <1>5

LEMMA DaemonKeeps == ASSUME InputInv, Read \/ ReadEnd \/ ReadBlocks \/ ReadToken PROVE InputInv'
<1>t. InputTypeOK /\ HoldInv /\ FilesInv /\ LinesInv
  BY DEF InputInv
<1>1. CASE Read
  <2>1. normalLines \in Seq(Line) /\ normalLines # <<>> /\ normalLines' = Tail(normalLines)
    BY <1>1, <1>t DEF Read, InputTypeOK
  <2>2. Head(normalLines) \in Line /\ normalLines' \in Seq(Line)
    BY <2>1, TakenLines
  <2>3. terminalErr' \in BOOLEAN /\ main = "read" /\ main' \in {"over", "read", "select"}
        /\ UNCHANGED <<terminal, waiting, waitLines, notify, wait, next, lines, stolen>>
    BY <1>1, <2>2 DEF Read, Line
  <2>4. InputTypeOK'
    BY <1>t, <2>2, <2>3 DEF InputTypeOK
  <2>5. \A k : (\A i \in DOMAIN normalLines : normalLines[i].after = k) => \A i \in DOMAIN normalLines' : normalLines'[i].after = k
    BY <2>1, TakenLines
  <2>6. LinesInv' /\ FilesInv'
    BY <1>t, <2>3, <2>5 DEF LinesInv, FilesInv
  <2> QED
    BY <1>t, <2>3, <2>4, <2>6 DEF InputInv, HoldInv
<1>2. CASE ReadEnd \/ ReadBlocks \/ ReadToken
  <2>1. /\ main \in {"read", "token"} /\ main' \in {"read", "token", "over"} /\ notify' \in BOOLEAN
        /\ UNCHANGED <<terminal, waiting, waitLines, normalLines, terminalErr, wait, next, lines, stolen>>
    BY <1>2, <1>t DEF ReadEnd, ReadBlocks, ReadToken, input, InputTypeOK
  <2>2. InputTypeOK'
    BY <1>t, <2>1 DEF InputTypeOK
  <2> QED
    BY <1>t, <2>1, <2>2 DEF InputInv, HoldInv, FilesInv, LinesInv
<1> QED
  BY <1>1, <1>2

\* A wait has a number, and a goroutine that sleeps for the token is in nobody's debt:
\* the second is NoWakeupIsLost.
WakeInv == (main \in {"begin", "wait"} => wait \in Waits) /\ NoWakeupIsLost

LEMMA WakeStarts == InputInit => WakeInv
BY DEF InputInit, WakeInv, NoWakeupIsLost

\* The terminal leaves a token behind every line; until then it is at "notify".
LEMMA TerminalWakes == ASSUME InputInv, WakeInv, ReadLine \/ TerminalStep PROVE WakeInv'
<1>1. terminal.pc \in {"file", "notify", "reading"} /\ UNCHANGED <<main, wait, next, stolen>>
  BY DEF TerminalStep, ReadLine, FileLine, Notify
<1>2. CASE ReadLine
  BY <1>1, <1>2 DEF ReadLine, input, WakeInv, NoWakeupIsLost
<1>3. CASE FileLine
  <2>1. terminal'.pc = "notify"
    BY <1>3 DEF FileLine, InputInv, InputTypeOK
  <2> QED
    BY <1>1, <2>1 DEF WakeInv, NoWakeupIsLost
<1>4. CASE Notify
  BY <1>1, <1>4 DEF Notify, WakeInv, NoWakeupIsLost
<1> QED
  BY <1>2, <1>3, <1>4 DEF TerminalStep

\* A nextLine goes to sleep when it has seen no line.  The token is taken by the one that
\* sleeps for it, who then looks again, or by one whose wait is over.
LEMMA WaiterWakes == ASSUME InputInv, WakeInv, NEW w \in Waits, NextLine(w) PROVE WakeInv'
<1>1. next \in [Waits -> {"none", "check", "token", "gone", "enter", "text", "end"}] /\ stolen \in BOOLEAN
  BY DEF InputInv, InputTypeOK
<1>2. UNCHANGED <<terminal, main, wait, normalLines>>
  BY DEF NextLine, TakeWaitLine, TakeToken, GiveUp, input
<1>3. main = "wait" => wait \in Waits
  BY DEF WakeInv
<1>4. \A v \in Waits : v # w => next'[v] = next[v]
  BY <1>1 DEF NextLine, TakeWaitLine, TakeToken, GiveUp
<1>5. CASE TakeWaitLine(w)
  <2>1. UNCHANGED notify /\ (stolen => stolen')
    BY <1>5 DEF TakeWaitLine
  <2>2. CASE waitLines = <<>>
    <3>1. waitLines' = <<>>
      BY <1>5, <2>2 DEF TakeWaitLine
    <3> QED
      BY <1>2, <2>1, <3>1 DEF WakeInv, NoWakeupIsLost
  <2>3. CASE waitLines # <<>> /\ CtxDone(w)
    <3>1. stolen'
      BY <1>5, <2>3 DEF TakeWaitLine
    <3> QED
      BY <1>2, <3>1 DEF WakeInv, NoWakeupIsLost
  <2>4. CASE waitLines # <<>> /\ ~CtxDone(w)
    <3>1. w = wait /\ Head(waitLines).text \in Text /\ waitLines \in Seq(Line)
      BY <2>4, TakenLines DEF CtxDone, InputInv, InputTypeOK, Line
    <3>2. next'[w] = IF Head(waitLines).end THEN "end" ELSE Head(waitLines).text
      BY <1>1, <1>5, <2>4 DEF TakeWaitLine
    <3>3. next'[wait] # "token"
      BY <3>1, <3>2 DEF Text
    <3> QED
      BY <1>2, <2>1, <3>3 DEF WakeInv, NoWakeupIsLost
  <2> QED
    BY <2>2, <2>3, <2>4
<1>6. CASE TakeToken(w)
  <2>1. CASE CtxDone(w)
    <3>1. stolen'
      BY <1>6, <2>1 DEF TakeToken
    <3> QED
      BY <1>2, <3>1 DEF WakeInv, NoWakeupIsLost
  <2>2. CASE ~CtxDone(w)
    <3>1. w = wait /\ next'[w] = "check" /\ main' \in {"wait", "leave", "cancel"} /\ wait' = wait
      BY <1>1, <1>2, <1>6, <2>2 DEF TakeToken, CtxDone
    <3> QED
      BY <1>2, <3>1 DEF WakeInv, NoWakeupIsLost
  <2> QED
    BY <2>1, <2>2
<1>7. CASE GiveUp(w)
  <2>1. UNCHANGED <<notify, waitLines, stolen>> /\ next'[w] # "token"
    BY <1>1, <1>7 DEF GiveUp, input
  <2> QED
    BY <1>2, <1>3, <1>4, <2>1 DEF WakeInv, NoWakeupIsLost
<1> QED
  BY <1>5, <1>6, <1>7 DEF NextLine

\* The daemon goes to sleep when there is no line for it, and wakes with the token; a
\* wait begins with a look.
LEMMA MainWakes ==
  ASSUME InputInv, WakeInv, MainStep \/ NoTarget \/ Target \/ Timeout \/ Interrupt
  PROVE  WakeInv'
<1>1. next \in [Waits -> {"none", "check", "token", "gone", "enter", "text", "end"}] /\ wait \in 0 .. MaxWait
  BY DEF InputInv, InputTypeOK
<1>2. CASE BeginWait
  <2>1. /\ wait \in Waits /\ next'[wait] = "check" /\ main' = "wait" /\ wait' = wait
    BY <1>1, <1>2 DEF BeginWait, WakeInv
  <2> QED
    BY <2>1 DEF WakeInv, NoWakeupIsLost
<1>3. CASE HearWait
  <2>1. /\ wait \in Waits /\ next'[wait] \in {"check", "gone"} /\ main' \in {"wait", "leave"} /\ wait' = wait
    BY <1>1, <1>3 DEF HearWait, WakeInv
  <2> QED
    BY <2>1 DEF WakeInv, NoWakeupIsLost
<1>4. CASE NoTarget
  <2>1. main' = "begin" /\ wait' \in Waits
    BY <1>1, <1>4, InputBounds DEF NoTarget, Waits
  <2> QED
    BY <2>1 DEF WakeInv, NoWakeupIsLost
<1>5. CASE EndWait \/ CancelWait \/ Target \/ Timeout \/ Interrupt \/ Read \/ ReadEnd \/ ReadToken
  <2>1. main' \in {"cancel", "select", "read", "leave", "over"}
    BY <1>5 DEF EndWait, CancelWait, Target, Timeout, Interrupt, Read, ReadEnd, ReadToken
  <2> QED
    BY <2>1 DEF WakeInv, NoWakeupIsLost
<1>6. CASE ReadBlocks
  <2>1. main' = "token" /\ normalLines' = <<>>
    BY <1>6 DEF ReadBlocks, input
  <2> QED
    BY <2>1 DEF WakeInv, NoWakeupIsLost
<1> QED
  BY <1>2, <1>3, <1>4, <1>5, <1>6 DEF MainStep

\* A line is read by the one it was typed for, however many lines, waits and goroutines
\* of old waits there are: what was typed before or in a wait never becomes a decision in
\* the daemon that follows, and the other way round; and nobody sleeps beside a line that
\* is his unless the token is there, is about to be left, or went to an earlier wait.
THEOREM InputHolds == InputSpec => []InputInvariant
<1>1. InputInit => InputInv /\ WakeInv
  BY InputStarts, WakeStarts
<1>2. InputInv /\ WakeInv /\ [InputNext]_inputVars => InputInv' /\ WakeInv'
  <2> SUFFICES ASSUME InputInv, WakeInv, [InputNext]_inputVars PROVE InputInv' /\ WakeInv'
    OBVIOUS
  <2>1. CASE UNCHANGED inputVars
    BY <2>1 DEF inputVars, input, InputInv, InputTypeOK, HoldInv, FilesInv, LinesInv, WakeInv, NoWakeupIsLost
  <2>2. CASE ReadLine \/ TerminalStep
    BY <2>2, TerminalKeeps, TerminalWakes
  <2>3. CASE Waiter
    BY <2>3, WaiterKeeps, WaiterWakes DEF Waiter
  <2>4. CASE MainStep \/ NoTarget \/ Target \/ Timeout \/ Interrupt
    BY <2>4, WaitKeeps, DaemonKeeps, MainWakes DEF MainStep
  <2> QED
    BY <2>1, <2>2, <2>3, <2>4 DEF InputNext
<1>3. InputInv /\ WakeInv => InputInvariant
  BY DEF InputInv, FilesInv, LinesInv, WakeInv, InputInvariant, LinesKeepTheirReader, DaemonReads
<1> QED
  BY <1>1, <1>2, <1>3, PTL DEF InputSpec
=============================================================================
