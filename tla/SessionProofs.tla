------------------------------ MODULE SessionProofs ------------------------------
(***************************************************************************)
(* Proofs about a session with an agent, of both providers and for any     *)
(* number of calls, messages and events.                                   *)
(***************************************************************************)
EXTENDS Session, SequenceTheorems, TLAPS

Busy(c) == caller[c].pc \in {"lock", "call", "write", "wait", "read", "drain"}
InCall(c) == caller[c].pc \in {"write", "wait", "read", "drain"}
Expects(c) == caller[c].pc \in {"write", "wait", "drain"}

\* The goroutines that use the session: what they have left to do, and the lock.
CallerInv ==
  /\ \A c \in Callers : Busy(c) => caller[c].todo # <<>>
  /\ \A c \in Callers : InCall(c) => caller[c].id # 0
  /\ \A c \in Callers : turnMu = c => Busy(c) /\ caller[c].pc # "lock"
  /\ \A i \in pending : \E c \in Callers : Expects(c) /\ caller[c].id = i

\* Who uses the session when, and what becomes of its process.
LifeInv ==
  /\ session = "none" => ~up /\ ~done /\ \A c \in Callers : caller[c].pc = "idle"
  /\ session = "starting" => caller["input"].pc = "idle"
  /\ session = "closing" => caller["input"].pc = "idle" /\ caller["worker"].pc = "close"
  /\ session = "closed" => done /\ \A c \in Callers : caller[c].pc = "idle"
  /\ caller["worker"].pc = "close" => session = "closing"
  /\ caller["input"].pc # "close"
  /\ done => ~up

\* The calls that a goroutine has yet to register.
Ahead(c) == IF caller[c].pc \in {"lock", "call"} THEN Len(caller[c].todo)
            ELSE IF InCall(c) THEN Len(caller[c].todo) - 1 ELSE 0

\* A turn of Copilot may have to be preceded by /ide, as long as it was not.
Spare == IF provider = "copilot" /\ ~ide /\ turnMu = "free" THEN 1 ELSE 0

\* Ids are left for all of them.
CountInv ==
  /\ session # "none" => nextID + Ahead("worker") + Ahead("input") + Spare <= MaxCall
  /\ session = "none" => nextID = 0 /\ turnMu = "free"
  /\ \A c \in Callers : provider = "copilot" /\ ~ide /\ turnMu = c
       => Head(caller[c].todo) = "ide" /\ Len(caller[c].todo) >= 2
  /\ \A c \in Callers : caller[c].pc = "read" => Op(c) = "turn"
  /\ provider = "copilot" => \A c \in Callers : caller[c].todo \in Seq(Ops \ {"turn"})

\* What the agent is told and tells.
AgentInv == cur = NoTurn \/ cur.id \in Ids

IInv == TypeOK /\ CallerInv /\ LifeInv /\ CountInv /\ AgentInv

-----------------------------------------------------------------------------
(* Types *)

LEMMA Bounds == MaxCall \in Nat /\ MaxSaid \in Nat /\ Ids \subseteq 0 .. MaxCall /\ 0 \notin Ids /\ Ids \subseteq Nat
BY SessionAssumption DEF Ids

LEMMA IdleTypes ==
  /\ Idle \in CallerType /\ NoTurn \in TurnType /\ NoResult \in ResultType /\ Reading \in ReaderType
  /\ [Reading EXCEPT !.pc = "ended"] \in ReaderType
  /\ Idle.pc = "idle" /\ Idle.todo = <<>> /\ Idle.id = 0 /\ Reading.pc = "read"
<1>1. <<>> \in Seq(Ops) /\ <<>> \in Texts /\ 0 \in 0 .. MaxCall /\ 0 \in 0 .. MaxSaid
  BY Bounds DEF Texts
<1>2. Idle \in CallerType
  BY <1>1 DEF Idle, CallerType, Places
<1>3. NoTurn \in TurnType
  BY <1>1 DEF NoTurn, TurnType, Turns
<1>4. NoResult \in ResultType
  BY <1>1 DEF NoResult, ResultType
<1>5. Event(0, "note", 0) \in Message
  BY <1>1 DEF Event, Message
<1>6. Reading \in ReaderType /\ [Reading EXCEPT !.pc = "ended"] \in ReaderType
  BY <1>5 DEF Reading, ReaderType
<1> QED
  BY <1>2, <1>3, <1>4, <1>6 DEF Idle, Reading

\* What a goroutine may become.
LEMMA CallerMoves ==
  ASSUME TypeOK, NEW c \in Callers
  PROVE  /\ caller[c] \in CallerType
         /\ caller[c].pc \in Places /\ caller[c].todo \in Seq(Ops) /\ caller[c].id \in 0 .. MaxCall
         /\ caller[c].text \in Texts
         /\ \A r \in CallerType : [caller EXCEPT ![c] = r] \in [Callers -> CallerType]
         /\ \A pc \in Places, todo \in Seq(Ops) : [Idle EXCEPT !.pc = pc, !.todo = todo] \in CallerType
         /\ \A pc \in Places : [Idle EXCEPT !.pc = pc] \in CallerType
<1>1. caller \in [Callers -> CallerType]
  BY DEF TypeOK
<1>2. caller[c] \in CallerType
  BY <1>1
<1>3. \A pc \in Places, todo \in Seq(Ops) : [Idle EXCEPT !.pc = pc, !.todo = todo] \in CallerType
  BY IdleTypes DEF CallerType
<1>4. \A pc \in Places : [Idle EXCEPT !.pc = pc] \in CallerType
  BY IdleTypes DEF CallerType
<1>5. \A r \in CallerType : [caller EXCEPT ![c] = r] \in [Callers -> CallerType]
  BY <1>1
<1> QED
  BY <1>2, <1>3, <1>4, <1>5 DEF CallerType

LEMMA MessageTypes ==
  ASSUME NEW id \in 0 .. MaxCall
  PROVE  /\ \A n \in 0 .. MaxSaid : n # 0 => Event(id, "said", n) \in Message
         /\ \A n \in 0 .. MaxSaid : Event(id, "completed", n) \in Message
         /\ Event(id, "failed", 0) \in Message /\ Event(0, "note", 0) \in Message
         /\ Response(id, "ok") \in Message /\ Response(id, "error") \in Message
         /\ Request \in Message
<1>1. 0 \in 0 .. MaxCall /\ 0 \in 0 .. MaxSaid
  BY Bounds
<1> QED
  BY <1>1 DEF Event, Response, Request, Message

\* Succeed and Fail keep the types.
LEMMA SucceedType ==
  ASSUME IInv, NEW c \in Callers, Succeed(c), caller[c].pc \in {"wait", "drain"}
  PROVE  /\ pending' \subseteq Ids /\ response' \in [Ids -> {"none", "ok", "error"}] /\ ide' \in BOOLEAN
         /\ caller' \in [Callers -> CallerType]
         /\ session' \in {"none", "starting", "open", "closing", "closed"}
         /\ turnMu' \in Callers \cup {"free"} /\ result' \in ResultType
<1>t. TypeOK
  BY DEF IInv
<1>1. pending' \subseteq Ids /\ response' \in [Ids -> {"none", "ok", "error"}] /\ ide' \in BOOLEAN
  BY <1>t DEF Succeed, TypeOK
<1>2. caller[c].todo \in Seq(Ops) /\ caller[c].todo # <<>>
  BY <1>t, CallerMoves DEF IInv, CallerInv, Busy
<1>3. Tail(caller[c].todo) \in Seq(Ops) /\ "call" \in Places
  BY <1>2 DEF Places
<1>4. caller' \in [Callers -> CallerType]
  <2>1. CASE Len(caller[c].todo) > 1
    <3>1. caller' = [caller EXCEPT ![c] = [Idle EXCEPT !.pc = "call", !.todo = Tail(caller[c].todo)]]
      BY <2>1 DEF Succeed
    <3> QED
      BY <3>1, <1>3, <1>t, CallerMoves
  <2>2. CASE ~(Len(caller[c].todo) > 1)
    <3>1. caller' = [caller EXCEPT ![c] = Idle]
      BY <2>2 DEF Succeed
    <3> QED
      BY <3>1, <1>t, CallerMoves, IdleTypes
  <2> QED
    BY <2>1, <2>2
<1>5. session' \in {"none", "starting", "open", "closing", "closed"} /\ turnMu' \in Callers \cup {"free"}
  BY <1>t DEF Succeed, TypeOK
<1>6. result' \in ResultType
  <2>1. result' = result \/ result' = [id |-> caller[c].id, text |-> caller[c].text, late |-> ctx]
    BY DEF Succeed
  <2>2. [id |-> caller[c].id, text |-> caller[c].text, late |-> ctx] \in ResultType
    BY <1>t, CallerMoves DEF ResultType, TypeOK
  <2> QED
    BY <2>1, <2>2, <1>t DEF TypeOK
<1> QED
  BY <1>1, <1>4, <1>5, <1>6

LEMMA FailType ==
  ASSUME TypeOK, NEW c \in Callers, Fail(c)
  PROVE  /\ pending' \subseteq Ids /\ response' \in [Ids -> {"none", "ok", "error"}] /\ ide' \in BOOLEAN
         /\ caller' \in [Callers -> CallerType]
         /\ session' \in {"none", "starting", "open", "closing", "closed"}
         /\ turnMu' \in Callers \cup {"free"} /\ result' \in ResultType
<1>1. /\ pending' \subseteq Ids /\ response' \in [Ids -> {"none", "ok", "error"}] /\ ide' \in BOOLEAN
      /\ result' \in ResultType
  BY DEF Fail, TypeOK
<1>2. session' \in {"none", "starting", "open", "closing", "closed"} /\ turnMu' \in Callers \cup {"free"}
  BY DEF Fail, TypeOK
<1>3. caller' = [caller EXCEPT ![c] = [Idle EXCEPT !.pc = "close"]] \/ caller' = [caller EXCEPT ![c] = Idle]
  BY DEF Fail
<1>4. "close" \in Places
  BY DEF Places
<1> QED
  BY <1>1, <1>2, <1>3, <1>4, CallerMoves, IdleTypes

LEMMA InitInv == Init => IInv
<1> SUFFICES ASSUME Init PROVE IInv
  OBVIOUS
<1> USE SessionAssumption DEF Init
<1>1. TypeOK
  <2>1. provider \in Providers /\ session \in {"none", "starting", "open", "closing", "closed"}
    OBVIOUS
  <2>2. caller \in [Callers -> CallerType] /\ reader \in ReaderType /\ cur \in TurnType /\ result \in ResultType
    BY IdleTypes
  <2>3. /\ events \in Seq(Message) /\ Len(events) <= Capacity /\ out \in Seq(Message) /\ Len(out) <= Pipe
        /\ inbox \in Seq(Call)
    BY SessionAssumption
  <2>4. /\ response \in [Ids -> {"none", "ok", "error"}] /\ said \in [Ids -> 0 .. MaxSaid]
        /\ nextID \in 0 .. MaxCall /\ notes \in 0 .. MaxNotes /\ pending \subseteq Ids
    BY SessionAssumption
  <2> QED
    BY <2>1, <2>2, <2>3, <2>4 DEF TypeOK
<1>2. \A c \in Callers : caller[c].pc = "idle"
  BY IdleTypes
<1>3. CallerInv
  <2>1. \A c \in Callers : ~Busy(c) /\ ~InCall(c)
    BY <1>2 DEF Busy, InCall
  <2>2. \A c \in Callers : turnMu # c
    BY DEF Callers
  <2>3. pending = {}
    OBVIOUS
  <2> QED
    BY <2>1, <2>2, <2>3 DEF CallerInv
<1>4. LifeInv
  BY <1>2 DEF LifeInv, Callers
<1>5. CountInv
  <2>1. \A c \in Callers : turnMu # c
    BY DEF Callers
  <2>2. \A c \in Callers : caller[c].todo = <<>> /\ caller[c].pc # "read"
    BY IdleTypes
  <2>3. <<>> \in Seq(Ops \ {"turn"})
    OBVIOUS
  <2> QED
    BY <2>1, <2>2, <2>3 DEF CountInv
<1>6. AgentInv
  BY DEF AgentInv
<1> QED
  BY <1>1, <1>3, <1>4, <1>5, <1>6 DEF IInv

\* The types of what a step of a goroutine changes beside itself.
LEMMA CallerStepType ==
  ASSUME IInv, NEW c \in Callers, CallerStep(c)
  PROVE  TypeOK'
<1>t. TypeOK
  BY DEF IInv
<1>m. /\ caller[c].pc \in Places /\ caller[c].todo \in Seq(Ops) /\ caller[c].id \in 0 .. MaxCall
      /\ caller[c].text \in Texts /\ caller[c] \in CallerType
  BY <1>t, CallerMoves
<1>p. {"call", "write", "wait", "read", "drain", "idle"} \subseteq Places /\ {"ide"} \subseteq Ops
  BY DEF Places, Ops
<1>b. InCall(c) => caller[c].id \in Ids
  BY <1>m, Bounds DEF IInv, CallerInv, Ids
<1>o. Busy(c) => Op(c) \in Ops
  BY <1>m DEF IInv, CallerInv, Op
<1>e. \A pc \in Places : [caller EXCEPT ![c].pc = pc] \in [Callers -> CallerType]
  BY <1>t, <1>m DEF TypeOK, CallerType
<1>f. \A text \in Texts : [caller EXCEPT ![c].text = text] \in [Callers -> CallerType]
  BY <1>t, <1>m DEF TypeOK, CallerType
<1> USE DEF client, channels, process, agent
<1>1. CASE LockTurn(c)
  <2> DEFINE steps == IF provider = "copilot" /\ ~ide THEN <<"ide">> \o caller[c].todo ELSE caller[c].todo
  <2>1. steps \in Seq(Ops)
    BY <1>m, <1>p
  <2>2. caller' = [caller EXCEPT ![c].pc = "call", ![c].todo = steps]
    BY <1>1 DEF LockTurn
  <2> HIDE DEF steps
  <2>3. caller' \in [Callers -> CallerType]
    BY <2>1, <2>2, <1>p, <1>t DEF TypeOK, CallerType
  <2> QED
    BY <1>1, <2>3, <1>t DEF LockTurn, TypeOK
<1>2. CASE Register(c)
  <2>1. nextID + 1 \in Ids
    <3>1. session # "none" /\ Len(caller[c].todo) >= 1
      BY <1>2, <1>m DEF Register, IInv, LifeInv, CallerInv, Busy
    <3>2. Ahead(c) >= 1 /\ \A d \in Callers : Ahead(d) \in Nat
      <4>1. \A d \in Callers : caller[d].todo \in Seq(Ops) /\ (Busy(d) => caller[d].todo # <<>>)
        BY <1>t, CallerMoves DEF IInv, CallerInv
      <4>2. \A d \in Callers : Len(caller[d].todo) \in Nat /\ (Busy(d) => Len(caller[d].todo) >= 1)
        BY <4>1
      <4> QED
        BY <1>2, <3>1, <4>2 DEF Ahead, Register, Busy, InCall
    <3>3. nextID + Ahead("worker") + Ahead("input") + Spare <= MaxCall /\ Spare \in Nat /\ nextID \in Nat
      BY <3>1, <1>t, Bounds DEF IInv, CountInv, Spare, TypeOK
    <3>4. c = "worker" \/ c = "input"
      BY DEF Callers
    <3>5. Ahead("worker") \in Nat /\ Ahead("input") \in Nat
      BY <3>2 DEF Callers
    <3>6. nextID + 1 <= MaxCall
      BY <3>2, <3>3, <3>4, <3>5, Bounds
    <3> QED
      BY <3>3, <3>6, Bounds DEF Ids
  <2>2. caller' = [caller EXCEPT ![c].pc = "write", ![c].id = nextID + 1, ![c].text = <<>>]
    BY <1>2 DEF Register
  <2>3. nextID + 1 \in 0 .. MaxCall
    BY <2>1, Bounds
  <2>5. <<>> \in Texts
    BY DEF Texts
  <2>4. caller' \in [Callers -> CallerType]
    BY <2>2, <2>3, <2>5, <1>p, <1>t DEF TypeOK, CallerType
  <2> QED
    BY <1>2, <2>1, <2>3, <2>4, <1>t DEF Register, TypeOK
<1>3. CASE Write(c)
  <2>1. [id |-> caller[c].id, op |-> Op(c)] \in Call
    BY <1>3, <1>b, <1>o DEF Write, Call, InCall, Busy
  <2> QED
    BY <1>3, <2>1, <1>e, <1>p, <1>t DEF Write, TypeOK
<1>4. CASE GiveUp(c) \/ CallFailed(c)
  BY <1>4, <1>t, FailType DEF GiveUp, CallFailed, TypeOK
<1>5. CASE CallReturned(c)
  <2>1. Succeed(c) /\ caller[c].pc = "wait"
    BY <1>5 DEF CallReturned, Answered
  <2> QED
    BY <1>5, <2>1, <1>t, SucceedType DEF CallReturned, TypeOK
<1>6. CASE TurnStarted(c)
  BY <1>6, <1>e, <1>p, <1>t DEF TurnStarted, TypeOK
<1>7. CASE CodexEvent(c)
  <2>1. Head(events) \in Message /\ Tail(events) \in Seq(Message) /\ Len(Tail(events)) <= Capacity
    BY <1>7, <1>t, HeadTailProperties, SessionAssumption DEF CodexEvent, TypeOK
  <2>2. TextOf(c, Head(events)) \in Texts
    <3>1. Head(events).n # 0 => Head(events).n \in 1 .. MaxSaid
      BY <2>1, Bounds DEF Message
    <3>2. Head(events).n # 0 => <<Head(events).n>> \in Texts
      BY <3>1 DEF Texts
    <3> QED
      BY <3>2, <1>m DEF TextOf
  <2>3. CASE Fail(c)
    BY <1>7, <2>1, <2>3, <1>t, FailType DEF CodexEvent, TypeOK
  <2>4. CASE ~Fail(c)
    <3>1. \/ /\ caller' = [caller EXCEPT ![c] = Idle] /\ turnMu' = "free"
             /\ result' = [id |-> caller[c].id, text |-> TextOf(c, Head(events)), late |-> ctx]
             /\ UNCHANGED <<session, ide, pending, response>>
          \/ /\ caller' = [caller EXCEPT ![c].text = TextOf(c, Head(events))]
             /\ UNCHANGED <<session, turnMu, ide, pending, response, result>>
      BY <1>7, <2>4 DEF CodexEvent
    <3>2. caller' \in [Callers -> CallerType]
      BY <3>1, <2>2, <1>f, <1>t, CallerMoves, IdleTypes
    <3>3. result' \in ResultType /\ turnMu' \in Callers \cup {"free"}
      BY <3>1, <2>2, <1>m, <1>t DEF TypeOK, ResultType
    <3> QED
      BY <1>7, <2>1, <3>1, <3>2, <3>3, <1>t DEF CodexEvent, TypeOK
  <2> QED
    BY <2>3, <2>4
<1>8. CASE CopilotEvent(c)
  <2>1. Head(events) \in Message /\ Tail(events) \in Seq(Message) /\ Len(Tail(events)) <= Capacity
    BY <1>8, <1>t, HeadTailProperties, SessionAssumption DEF CopilotEvent, TypeOK
  <2> DEFINE text == IF Head(events).what = "said" THEN Append(caller[c].text, Head(events).n) ELSE caller[c].text
  <2>2. text \in Texts
    <3>1. Head(events).what = "said" => Head(events).n \in 1 .. MaxSaid
      BY <2>1, Bounds DEF Message
    <3>2. \A n \in 1 .. MaxSaid : Append(caller[c].text, n) \in Texts
      BY <1>m, AppendProperties DEF Texts
    <3> QED
      BY <3>1, <3>2, <1>m
  <2>3. caller' = [caller EXCEPT ![c].text = text]
    BY <1>8 DEF CopilotEvent
  <2> HIDE DEF text
  <2> QED
    BY <1>8, <2>1, <2>2, <2>3, <1>f, <1>t DEF CopilotEvent, TypeOK
<1>9. CASE TakeResponse(c)
  BY <1>9, <1>e, <1>p, <1>t DEF TakeResponse, TypeOK
<1>10. CASE FinishTurn(c)
  <2>1. Succeed(c) \/ Fail(c)
    BY <1>10 DEF FinishTurn
  <2>2. caller[c].pc \in {"wait", "drain"}
    BY <1>10 DEF FinishTurn
  <2> QED
    BY <1>10, <2>1, <2>2, <1>t, SucceedType, FailType DEF FinishTurn, TypeOK
<1> QED
  BY <1>1, <1>2, <1>3, <1>4, <1>5, <1>6, <1>7, <1>8, <1>9, <1>10 DEF CallerStep

LEMMA NextType == IInv /\ [Next]_vars => TypeOK'
<1> SUFFICES ASSUME IInv, [Next]_vars PROVE TypeOK'
  OBVIOUS
<1>t. TypeOK
  BY DEF IInv
<1>w. "worker" \in Callers /\ "input" \in Callers
  BY DEF Callers
<1>o. \A m : out' = Append(out, m) /\ m \in Message => out' \in Seq(Message)
  BY <1>t DEF TypeOK
<1>c. cur # NoTurn => cur.id \in Ids /\ cur.id \in 0 .. MaxCall /\ said[cur.id] \in 0 .. MaxSaid
  BY <1>t, Bounds DEF IInv, AgentInv, TypeOK
<1>k. \A m \in Message : Tells(m) => out' \in Seq(Message) /\ Len(out') <= Pipe
  BY <1>t, SessionAssumption DEF Tells, TypeOK
<1>h. out # <<>> => Head(out) \in Message /\ Tail(out) \in Seq(Message) /\ Len(Tail(out)) <= Pipe
  BY <1>t, HeadTailProperties, SessionAssumption DEF TypeOK
<1> USE DEF client, channels, process, agent
<1>1. CASE StartSession
  <2>1. <<"initialize", "new">> \in Seq(Ops) /\ "call" \in Places
    BY DEF Ops, Places
  <2> QED
    BY <1>1, <2>1, <1>t, <1>w, CallerMoves DEF StartSession, TypeOK
<1>2. ASSUME NEW c \in Callers, NEW steps \in Seq(Ops), Enter(c, steps) PROVE TypeOK'
  <2>1. {"call", "lock"} \subseteq Places
    BY DEF Places
  <2> DEFINE pc == IF steps = <<"settings">> THEN "call" ELSE "lock"
  <2>2. pc \in Places /\ caller' = [caller EXCEPT ![c] = [Idle EXCEPT !.pc = pc, !.todo = steps]]
    BY <1>2, <2>1 DEF Enter
  <2> HIDE DEF pc
  <2>3. caller' \in [Callers -> CallerType]
    BY <2>2, <1>t, CallerMoves
  <2> QED
    BY <1>2, <2>3, <1>t DEF Enter, TypeOK
<1>3. CASE RunTurn \/ SetModel
  <2>1. {<<"turn">>, <<"prompt">>, <<"model", "prompt">>, <<"settings">>, <<"model">>} \subseteq Seq(Ops)
    BY DEF Ops
  <2>2. \E c \in Callers, steps \in Seq(Ops) : Enter(c, steps)
    BY <1>3, <2>1, <1>w DEF RunTurn, SetModel
  <2> QED
    BY <2>2, <1>2
<1>4. CASE Close
  <2>1. "close" \in Places
    BY DEF Places
  <2> QED
    BY <1>4, <2>1, <1>t, <1>w, CallerMoves DEF Close, TypeOK
<1>5. CASE Cancel \/ CancelProcess \/ HandleRequest
  BY <1>5, <1>t DEF Cancel, CancelProcess, HandleRequest, TypeOK
<1>6. ASSUME NEW c \in Callers, CallerStep(c) PROVE TypeOK'
  BY <1>6, CallerStepType
<1>7. CASE Closed
  BY <1>7, <1>t, <1>w, CallerMoves, IdleTypes DEF Closed, TypeOK
<1>8. CASE ReadResponse
  <2>1. Head(out).what \in {"ok", "error"}
    BY <1>8, <1>h DEF ReadResponse, Message
  <2>2. response' \in [Ids -> {"none", "ok", "error"}]
    BY <1>8, <2>1, <1>h, <1>t DEF ReadResponse, TypeOK, Message
  <2> QED
    BY <1>8, <2>2, <1>h, <1>t DEF ReadResponse, TypeOK
<1>9. CASE ReadRequest
  BY <1>9, <1>h, <1>t DEF ReadRequest, TypeOK
<1>10. CASE ReadEvent
  BY <1>10, <1>h, <1>t DEF ReadEvent, TypeOK, ReaderType
<1>11. CASE SendEvent
  <2>1. events' \in Seq(Message) /\ Len(events') <= Capacity
    BY <1>11, <1>t, SessionAssumption DEF SendEvent, TypeOK, ReaderType
  <2> QED
    BY <1>11, <2>1, <1>t, IdleTypes DEF SendEvent, TypeOK
<1>12. CASE ReaderEnds
  BY <1>12, <1>t, IdleTypes DEF ReaderEnds, TypeOK
<1>13. CASE Reap
  <2>1. <<>> \in Seq(Message) /\ Len(<<>>) <= Pipe
    BY SessionAssumption
  <2>2. out' \in Seq(Message) /\ Len(out') <= Pipe
    BY <1>13, <2>1, <1>t DEF Reap, TypeOK
  <2> QED
    BY <1>13, <2>2, <1>t DEF Reap, TypeOK
<1>14. CASE AgentTakes
  <2>1. Head(inbox) \in Call /\ Tail(inbox) \in Seq(Call)
    BY <1>14, <1>t DEF AgentTakes, TypeOK
  <2> DEFINE call == Head(inbox)
  <2>2. call.id \in Ids /\ call.id \in 0 .. MaxCall
    BY <2>1, Bounds DEF Call
  <2>3. \/ UNCHANGED out
        \/ Tells(Response(call.id, "ok")) \/ Tells(Response(call.id, "error"))
    BY <1>14 DEF AgentTakes
  <2>4. out' \in Seq(Message) /\ Len(out') <= Pipe
    BY <2>2, <2>3, <1>k, <1>t, MessageTypes DEF TypeOK
  <2>5. cur' \in TurnType
    <3>1. cur' = cur \/ (cur' = call /\ call.op \in Turns)
      BY <1>14 DEF AgentTakes, Turns
    <3> QED
      BY <3>1, <2>1, <2>2, <1>t DEF TypeOK, Call, TurnType
  <2> QED
    BY <1>14, <2>1, <2>4, <2>5, <1>t DEF AgentTakes, TypeOK
<1>15. CASE AgentSays
  <2>1. cur.id \in Ids /\ cur.id \in 0 .. MaxCall /\ said[cur.id] + 1 \in 0 .. MaxSaid /\ said[cur.id] + 1 # 0
    BY <1>15, <1>c, Bounds DEF AgentSays, Works
  <2>2. out' \in Seq(Message) /\ Len(out') <= Pipe
    BY <1>15, <2>1, <1>k, MessageTypes DEF AgentSays
  <2>3. said' \in [Ids -> 0 .. MaxSaid]
    BY <1>15, <2>1, <1>t DEF AgentSays, TypeOK
  <2> QED
    BY <1>15, <2>2, <2>3, <1>t DEF AgentSays, TypeOK
<1>16. CASE AgentAsks
  <2>1. out' \in Seq(Message) /\ Len(out') <= Pipe
    BY <1>16, <1>k, MessageTypes, Bounds DEF AgentAsks
  <2> QED
    BY <1>16, <2>1, <1>t DEF AgentAsks, TypeOK
<1>17. CASE AgentEnds
  <2>1. cur.id \in 0 .. MaxCall /\ said[cur.id] \in 0 .. MaxSaid /\ 0 \in 0 .. MaxSaid
    BY <1>17, <1>c, Bounds DEF AgentEnds, Works
  <2>2. out' \in Seq(Message) /\ Len(out') <= Pipe
    BY <1>17, <2>1, <1>k, MessageTypes DEF AgentEnds
  <2> QED
    BY <1>17, <2>2, <1>t, IdleTypes DEF AgentEnds, TypeOK
<1>18. CASE AgentNotes
  <2>1. out' \in Seq(Message) /\ Len(out') <= Pipe
    BY <1>18, <1>k, MessageTypes, Bounds DEF AgentNotes
  <2> QED
    BY <1>18, <2>1, <1>t, SessionAssumption DEF AgentNotes, TypeOK
<1>19. CASE AgentDies
  <2>1. inbox' = <<>> /\ cur' = NoTurn /\ up' = FALSE
    BY <1>19 DEF AgentDies
  <2>2. <<>> \in Seq(Call) /\ NoTurn \in TurnType
    BY IdleTypes
  <2>3. inbox' \in Seq(Call) /\ cur' \in TurnType
    BY <2>1, <2>2
  <2> QED
    BY <1>19, <2>1, <2>3, <1>t DEF AgentDies, TypeOK
<1>20. CASE UNCHANGED vars
  BY <1>20, <1>t DEF vars, TypeOK
<1>21. Next \/ UNCHANGED vars
  OBVIOUS
<1>22. Closing \/ ReaderStep \/ AgentStep => TypeOK'
  BY <1>5, <1>7, <1>8, <1>9, <1>10, <1>11, <1>14, <1>15, <1>16, <1>17 DEF Closing, ReaderStep, AgentStep
<1>23. (\E c \in Callers : CallerStep(c)) => TypeOK'
  BY <1>6
<1> QED
  BY <1>1, <1>3, <1>4, <1>5, <1>12, <1>13, <1>18, <1>19, <1>20, <1>21, <1>22, <1>23 DEF Next

-----------------------------------------------------------------------------
(* What a step of a goroutine does *)

Locks(c) ==
  /\ caller[c].pc = "lock" /\ caller'[c].pc = "call"
  /\ caller'[c].todo = IF provider = "copilot" /\ ~ide THEN <<"ide">> \o caller[c].todo ELSE caller[c].todo
  /\ turnMu = "free" /\ turnMu' = c
  /\ UNCHANGED <<session, ide, nextID, pending>>

Registers(c) ==
  /\ caller[c].pc = "call" /\ caller'[c].pc = "write"
  /\ caller'[c].todo = caller[c].todo /\ caller'[c].id = nextID + 1
  /\ nextID' = nextID + 1 /\ pending' = pending \cup {nextID + 1}
  /\ UNCHANGED <<session, turnMu, ide>>

Moves(c) ==
  /\ InCall(c) /\ caller'[c].pc \in {"wait", "read", "drain"}
  /\ caller'[c].todo = caller[c].todo /\ caller'[c].id = caller[c].id
  /\ caller'[c].pc = "read" => Op(c) = "turn"
  /\ caller'[c].pc = "drain" => caller[c].pc = "drain" \/ Op(c) \in Prompting
  /\ \/ pending' = pending /\ (Expects(c) => caller'[c].pc \in {"wait", "drain"})
     \/ pending' = pending \ {caller[c].id}
  /\ UNCHANGED <<session, turnMu, ide, nextID>>

GoesOn(c) ==
  /\ InCall(c) /\ Len(caller[c].todo) > 1
  /\ caller'[c].pc = "call" /\ caller'[c].todo = Tail(caller[c].todo)
  /\ pending' = pending \ {caller[c].id} /\ ide' = (ide \/ Op(c) = "ide")
  /\ UNCHANGED <<session, turnMu, nextID>>

Returns(c) ==
  /\ InCall(c) /\ caller'[c].pc \in {"idle", "close"} /\ caller'[c].todo = <<>>
  /\ \/ pending' = pending \ {caller[c].id}
     \/ pending' = pending /\ ~Expects(c)
  /\ ide => ide'
  /\ turnMu' = (IF turnMu = c THEN "free" ELSE turnMu)
     \/ (turnMu' = "free" /\ caller[c].pc = "read")
  /\ \/ caller'[c].pc = "idle" /\ session' = session /\ session # "starting"
     \/ caller'[c].pc = "idle" /\ session' = session /\ caller[c].pc = "read"
     \/ caller'[c].pc = "idle" /\ session = "starting" /\ session' = "open"
     \/ caller'[c].pc = "close" /\ session = "starting" /\ session' = "closing"
  /\ nextID' = nextID

Others(c) == \A d \in Callers \ {c} : caller'[d] = caller[d]

LEMMA SucceedEffect ==
  ASSUME IInv, NEW c \in Callers, Succeed(c), caller[c].pc \in {"wait", "drain"}, nextID' = nextID
  PROVE  Others(c) /\ (GoesOn(c) \/ Returns(c))
<1>1. caller \in [Callers -> CallerType] /\ InCall(c)
  BY DEF IInv, TypeOK, InCall
<1>2. pending' = pending \ {caller[c].id} /\ ide' = (ide \/ Op(c) = "ide")
  BY DEF Succeed
<1>3. CASE Len(caller[c].todo) > 1
  <2>1. caller' = [caller EXCEPT ![c] = [Idle EXCEPT !.pc = "call", !.todo = Tail(caller[c].todo)]]
        /\ UNCHANGED <<session, turnMu>>
    BY <1>3 DEF Succeed
  <2>2. caller'[c].pc = "call" /\ caller'[c].todo = Tail(caller[c].todo) /\ Others(c)
    BY <1>1, <2>1 DEF Others, Idle
  <2> QED
    BY <1>1, <1>2, <1>3, <2>1, <2>2 DEF GoesOn
<1>4. CASE ~(Len(caller[c].todo) > 1)
  <2>1. /\ caller' = [caller EXCEPT ![c] = Idle]
        /\ session' = IF session = "starting" THEN "open" ELSE session
        /\ turnMu' = IF turnMu = c THEN "free" ELSE turnMu
    BY <1>4 DEF Succeed
  <2>2. caller'[c].pc = "idle" /\ caller'[c].todo = <<>> /\ Others(c)
    BY <1>1, <2>1, IdleTypes DEF Others
  <2> QED
    BY <1>1, <1>2, <2>1, <2>2 DEF Returns
<1> QED
  BY <1>3, <1>4

LEMMA FailEffect ==
  ASSUME IInv, NEW c \in Callers, Fail(c), InCall(c), nextID' = nextID
  PROVE  Others(c) /\ Returns(c)
<1>1. caller \in [Callers -> CallerType]
  BY DEF IInv, TypeOK
<1>2. pending' = pending \ {caller[c].id} /\ ide' = ide /\ turnMu' = IF turnMu = c THEN "free" ELSE turnMu
  BY DEF Fail
<1>3. \/ session = "starting" /\ session' = "closing" /\ caller' = [caller EXCEPT ![c] = [Idle EXCEPT !.pc = "close"]]
      \/ session # "starting" /\ session' = session /\ caller' = [caller EXCEPT ![c] = Idle]
  BY DEF Fail
<1>4. \/ session = "starting" /\ session' = "closing" /\ caller'[c].pc = "close"
      \/ session # "starting" /\ session' = session /\ caller'[c].pc = "idle"
  BY <1>1, <1>3 DEF Idle
<1>5. caller'[c].todo = <<>> /\ Others(c)
  BY <1>1, <1>3 DEF Idle, Others
<1> QED
  BY <1>2, <1>4, <1>5 DEF Returns

LEMMA CallerEffect ==
  ASSUME IInv, NEW c \in Callers, CallerStep(c)
  PROVE  /\ UNCHANGED <<provider, ctx, done, up, cur>> /\ Others(c)
         /\ Locks(c) \/ Registers(c) \/ Moves(c) \/ GoesOn(c) \/ Returns(c)
<1>t. caller \in [Callers -> CallerType] /\ turnMu \in Callers \cup {"free"}
  BY DEF IInv, TypeOK
<1>u. caller[c] \in CallerType
  BY <1>t
<1> USE DEF client, channels, process, agent
<1>1. CASE LockTurn(c)
  <2>1. Locks(c) /\ Others(c)
    BY <1>1, <1>t, <1>u DEF LockTurn, Locks, Others, CallerType
  <2> QED
    BY <1>1, <2>1 DEF LockTurn
<1>2. CASE Register(c)
  <2>1. Registers(c) /\ Others(c)
    BY <1>2, <1>t, <1>u DEF Register, Registers, Others, CallerType
  <2> QED
    BY <1>2, <2>1 DEF Register
<1>3. CASE Write(c)
  <2>1. Moves(c) /\ Others(c)
    BY <1>3, <1>t, <1>u DEF Write, Moves, Others, CallerType, InCall
  <2> QED
    BY <1>3, <2>1 DEF Write
<1>4. CASE GiveUp(c)
  <2>1. InCall(c) /\ Fail(c) /\ nextID' = nextID
    BY <1>4 DEF GiveUp, InCall
  <2> QED
    BY <1>4, <2>1, FailEffect DEF GiveUp
<1>5. CASE CallReturned(c)
  <2>1. caller[c].pc = "wait" /\ Succeed(c) /\ nextID' = nextID
    BY <1>5 DEF CallReturned, Answered
  <2> QED
    BY <1>5, <2>1, SucceedEffect DEF CallReturned
<1>6. CASE CallFailed(c)
  <2>1. InCall(c) /\ Fail(c) /\ nextID' = nextID
    BY <1>6 DEF CallFailed, Answered, InCall
  <2> QED
    BY <1>6, <2>1, FailEffect DEF CallFailed
<1>7. CASE TurnStarted(c)
  <2>1. caller[c].pc = "wait" /\ Op(c) = "turn"
    BY <1>7 DEF TurnStarted, Answered
  <2>2. caller'[c].pc = "read" /\ caller'[c].todo = caller[c].todo /\ caller'[c].id = caller[c].id /\ Others(c)
    BY <1>7, <1>t, <1>u DEF TurnStarted, Others, CallerType
  <2>3. Moves(c)
    BY <1>7, <2>1, <2>2 DEF TurnStarted, Moves, InCall
  <2> QED
    BY <1>7, <2>2, <2>3 DEF TurnStarted
<1>8. CASE CodexEvent(c)
  <2>1. /\ caller[c].pc = "read" /\ InCall(c) /\ ~Expects(c) /\ nextID' = nextID
        /\ UNCHANGED <<provider, ctx, done, up, cur>>
    BY <1>8 DEF CodexEvent, InCall, Expects
  <2>2. CASE Fail(c)
    BY <2>1, <2>2, FailEffect
  <2>3. CASE ~Fail(c)
    <3>1. \/ /\ caller' = [caller EXCEPT ![c] = Idle] /\ turnMu' = "free"
             /\ UNCHANGED <<session, ide, pending>>
          \/ /\ caller' = [caller EXCEPT ![c].text = TextOf(c, Head(events))]
             /\ UNCHANGED <<session, turnMu, ide, pending>>
      BY <1>8, <2>3 DEF CodexEvent
    <3>2. Others(c)
      BY <3>1, <1>t DEF Others
    <3>3. CASE /\ caller' = [caller EXCEPT ![c] = Idle] /\ turnMu' = "free"
               /\ UNCHANGED <<session, ide, pending>>
      <4>1. caller'[c].pc = "idle" /\ caller'[c].todo = <<>>
        BY <3>3, <1>t, IdleTypes
      <4>2. Returns(c)
        BY <2>1, <3>3, <4>1 DEF Returns
      <4> QED
        BY <2>1, <3>2, <4>2
    <3>4. CASE /\ caller' = [caller EXCEPT ![c].text = TextOf(c, Head(events))]
               /\ UNCHANGED <<session, turnMu, ide, pending>>
      <4>1. caller'[c].pc = "read" /\ caller'[c].todo = caller[c].todo /\ caller'[c].id = caller[c].id
        BY <2>1, <3>4, <1>t, <1>u DEF CallerType
      <4>2. Op(c) = "turn"
        BY <2>1 DEF IInv, CountInv
      <4>3. Moves(c)
        BY <2>1, <3>4, <4>1, <4>2 DEF Moves
      <4> QED
        BY <2>1, <3>2, <4>3
    <3> QED
      BY <3>1, <3>3, <3>4
  <2> QED
    BY <2>2, <2>3
<1>9. CASE CopilotEvent(c)
  <2>1. /\ caller'[c].pc = caller[c].pc /\ caller'[c].todo = caller[c].todo /\ caller'[c].id = caller[c].id
        /\ Others(c) /\ caller[c].pc \in {"wait", "drain"}
    BY <1>9, <1>t, <1>u DEF CopilotEvent, Others, CallerType
  <2>2. Moves(c)
    BY <1>9, <2>1 DEF CopilotEvent, Moves, InCall
  <2> QED
    BY <1>9, <2>1, <2>2 DEF CopilotEvent
<1>10. CASE TakeResponse(c)
  <2>1. Moves(c) /\ Others(c)
    BY <1>10, <1>t, <1>u DEF TakeResponse, Moves, Others, CallerType, InCall
  <2> QED
    BY <1>10, <2>1 DEF TakeResponse
<1>11. CASE FinishTurn(c)
  <2>1. caller[c].pc = "drain" /\ InCall(c) /\ nextID' = nextID /\ (Succeed(c) \/ Fail(c))
    BY <1>11 DEF FinishTurn, InCall
  <2> QED
    BY <1>11, <2>1, SucceedEffect, FailEffect DEF FinishTurn
<1> QED
  BY <1>1, <1>2, <1>3, <1>4, <1>5, <1>6, <1>7, <1>8, <1>9, <1>10, <1>11 DEF CallerStep

-----------------------------------------------------------------------------
(* The invariant is kept *)

\* Every other step leaves the goroutines alone, or lets an idle one begin.
Apart == UNCHANGED <<caller, turnMu, ide, nextID, pending, provider>>
Begins(c) ==
  /\ caller[c].pc = "idle" /\ Busy(c)' /\ ~InCall(c)'
  /\ Others(c) /\ UNCHANGED <<turnMu, ide, nextID, pending, provider>>
  /\ caller'[c].todo # <<>>

\* The operations: what is entered, and what the owner may be at.
LEMMA EnterEffect ==
  ASSUME IInv, NEW c \in Callers, NEW steps \in Seq(Ops), steps # <<>>, Enter(c, steps)
  PROVE  /\ Begins(c) /\ session = "open" /\ caller'[c].todo = steps
         /\ caller'[c].pc = IF steps = <<"settings">> THEN "call" ELSE "lock"
         /\ UNCHANGED <<session, ctx, done, up, cur>>
<1>1. caller \in [Callers -> CallerType]
  BY DEF IInv, TypeOK
<1> DEFINE pc == IF steps = <<"settings">> THEN "call" ELSE "lock"
<1>2. caller' = [caller EXCEPT ![c] = [Idle EXCEPT !.pc = pc, !.todo = steps]] /\ pc \in {"call", "lock"}
  BY DEF Enter
<1>p. pc = IF steps = <<"settings">> THEN "call" ELSE "lock"
  OBVIOUS
<1> HIDE DEF pc
<1>3. caller'[c].pc = pc /\ caller'[c].todo = steps /\ Others(c)
  BY <1>1, <1>2 DEF Idle, Others
<1>4. caller[c].pc = "idle"
  BY DEF Enter
<1>5. Busy(c)' /\ ~InCall(c)'
  BY <1>2, <1>3 DEF Busy, InCall
<1> QED
  BY <1>3, <1>4, <1>5, <1>p DEF Enter, Begins, process, agent

LEMMA StartEffect ==
  ASSUME IInv, StartSession
  PROVE  /\ Begins("worker") /\ session = "none" /\ session' = "starting" /\ up' = TRUE
         /\ caller'["worker"].pc = "call" /\ caller'["worker"].todo = <<"initialize", "new">>
         /\ UNCHANGED <<ctx, done, cur>>
<1>1. caller \in [Callers -> CallerType] /\ "worker" \in Callers
  BY DEF IInv, TypeOK, Callers
<1>2. caller' = [caller EXCEPT !["worker"] = [Idle EXCEPT !.pc = "call", !.todo = <<"initialize", "new">>]]
  BY DEF StartSession
<1>3. caller'["worker"].pc = "call" /\ caller'["worker"].todo = <<"initialize", "new">> /\ Others("worker")
  BY <1>1, <1>2 DEF Idle, Others
<1>4. caller["worker"].pc = "idle"
  BY <1>1 DEF IInv, LifeInv, StartSession
<1>5. Busy("worker")' /\ ~InCall("worker")' /\ <<"initialize", "new">> # <<>>
  BY <1>3 DEF Busy, InCall
<1> QED
  BY <1>3, <1>4, <1>5 DEF StartSession, Begins, process

LEMMA OperationEffect ==
  ASSUME IInv, RunTurn \/ SetModel
  PROVE  \E c \in Callers, steps \in Seq(Ops) :
           /\ Enter(c, steps) /\ steps # <<>>
           /\ provider = "copilot" => steps \in Seq(Ops \ {"turn"})
           /\ provider # "copilot" => steps \in Seq(Ops \ Prompting)
           /\ steps = <<"settings">> \/ steps \in Seq(Turns)
<1>1. /\ {<<"turn">>, <<"prompt">>, <<"model", "prompt">>, <<"settings">>, <<"model">>} \subseteq Seq(Ops)
      /\ {<<"prompt">>, <<"model", "prompt">>, <<"model">>} \subseteq Seq(Ops \ {"turn"})
      /\ <<>> \notin {<<"turn">>, <<"prompt">>, <<"model", "prompt">>, <<"settings">>, <<"model">>}
      /\ {<<"turn">>, <<"settings">>} \subseteq Seq(Ops \ Prompting)
      /\ {<<"turn">>, <<"prompt">>, <<"model", "prompt">>, <<"model">>} \subseteq Seq(Turns)
  BY DEF Ops, Turns, Prompting
<1>2. "worker" \in Callers /\ "input" \in Callers
  BY DEF Callers
<1>3. CASE RunTurn
  <2>1. \/ provider = "codex" /\ Enter("worker", <<"turn">>)
        \/ provider = "copilot" /\ Enter("worker", <<"prompt">>)
        \/ provider = "copilot" /\ Enter("worker", <<"model", "prompt">>)
    BY <1>3 DEF RunTurn
  <2> QED
    BY <2>1, <1>1, <1>2
<1>4. CASE SetModel
  <2>1. \/ provider = "codex" /\ Enter("input", <<"settings">>)
        \/ provider = "copilot" /\ Enter("input", <<"model">>)
    BY <1>4, SessionAssumption DEF SetModel, IInv, TypeOK
  <2> QED
    BY <2>1, <1>1, <1>2
<1> QED
  BY <1>3, <1>4

\* The owner closes: before, meanwhile and after nobody uses the session.
Closes ==
  /\ \A c \in Callers : caller[c].pc \in {"idle", "close"}
  /\ \A c \in Callers : caller'[c].pc \in {"idle", "close"}
  /\ UNCHANGED <<turnMu, ide, nextID, pending, provider, up, cur>>
  /\ caller'["worker"].todo = <<>> /\ Others("worker")

LEMMA CloseEffect ==
  ASSUME IInv, Close \/ Closed
  PROVE  Closes /\ caller["input"].pc = "idle"
<1>1. caller \in [Callers -> CallerType] /\ "worker" \in Callers /\ Callers = {"worker", "input"}
  BY DEF IInv, TypeOK, Callers
<1>2. \A c \in Callers : caller[c].pc \in {"idle", "close"}
  BY <1>1 DEF IInv, LifeInv, Close, Closed
<1>3. caller["input"].pc = "idle"
  BY <1>1, <1>2 DEF IInv, LifeInv
<1>4. \/ caller' = [caller EXCEPT !["worker"] = [Idle EXCEPT !.pc = "close"]]
      \/ caller' = [caller EXCEPT !["worker"] = Idle]
  BY DEF Close, Closed
<1>5. caller'["worker"].pc \in {"idle", "close"} /\ caller'["worker"].todo = <<>> /\ Others("worker")
  BY <1>1, <1>4 DEF Idle, Others
<1>6. caller'["input"].pc = "idle"
  BY <1>1, <1>3, <1>5 DEF Others
<1> QED
  BY <1>1, <1>2, <1>3, <1>5, <1>6 DEF Closes, Close, Closed, agent

\* All other steps are of the reader, the waiter, the requests and the agent.
Elsewhere ==
  \/ Cancel \/ CancelProcess \/ ReaderStep \/ ReaderEnds \/ Reap \/ HandleRequest
  \/ AgentStep \/ AgentNotes \/ AgentDies \/ UNCHANGED vars

LEMMA ApartEffect == Elsewhere => Apart /\ session' = session /\ (up' => up)
BY DEF Elsewhere, Apart, Cancel, CancelProcess, ReaderStep, ReadResponse, ReadRequest, ReadEvent, SendEvent,
  ReaderEnds, Reap, HandleRequest, AgentStep, AgentTakes, AgentSays, AgentAsks, AgentEnds, AgentNotes, AgentDies,
  vars, client, agent

LEMMA Steps ==
  [Next]_vars => \/ StartSession \/ RunTurn \/ SetModel \/ Close \/ Closed \/ Elsewhere
                 \/ \E c \in Callers : CallerStep(c)
BY DEF Next, Elsewhere, Closing

LEMMA LongTail == ASSUME NEW S, NEW s \in Seq(S), Len(s) > 1 PROVE Tail(s) # <<>>
<1>1. s # <<>> /\ Len(s) \in Nat
  BY LenProperties, EmptySeq
<1>2. Len(Tail(s)) = Len(s) - 1 /\ Tail(s) \in Seq(S)
  BY <1>1, HeadTailProperties
<1>3. Len(Tail(s)) # 0
  BY <1>1, <1>2
<1> QED
  BY <1>2, <1>3, EmptySeq

LEMMA NextCaller == IInv /\ [Next]_vars => CallerInv'
<1> SUFFICES ASSUME IInv, [Next]_vars PROVE CallerInv'
  OBVIOUS
<1>t. CallerInv /\ TypeOK
  BY DEF IInv
<1>n. nextID \in Nat
  BY <1>t, Bounds DEF TypeOK
<1> USE DEF client, channels, process, agent
<1>1. ASSUME NEW c \in Callers, CallerStep(c) PROVE CallerInv'
  <2>1. Others(c) /\ (Locks(c) \/ Registers(c) \/ Moves(c) \/ GoesOn(c) \/ Returns(c))
    BY <1>1, CallerEffect
  <2>t. caller[c].todo \in Seq(Ops)
    BY <1>t, CallerMoves
  <2>2. Busy(c)' => caller'[c].todo # <<>>
    <3>1. CASE Locks(c)
      BY <3>1, <1>t, <2>t DEF Locks, CallerInv, Busy
    <3>2. CASE Registers(c) \/ Moves(c)
      BY <3>2, <1>t DEF Registers, Moves, CallerInv, Busy, InCall
    <3>3. CASE GoesOn(c)
      <4>1. Tail(caller[c].todo) # <<>>
        BY <3>3, <2>t, LongTail DEF GoesOn
      <4> QED
        BY <3>3, <4>1 DEF GoesOn
    <3>4. CASE Returns(c)
      BY <3>4 DEF Returns, Busy
    <3> QED
      BY <2>1, <3>1, <3>2, <3>3, <3>4
  <2>3. InCall(c)' => caller'[c].id # 0
    BY <2>1, <1>t, <1>n DEF Locks, Registers, Moves, GoesOn, Returns, InCall, CallerInv
  <2>4. turnMu' = c => Busy(c)' /\ caller'[c].pc # "lock"
    <3>1. CASE Returns(c)
      <4>1. turnMu' # c
        BY <3>1 DEF Returns, Callers
      <4> QED
        BY <4>1
    <3>2. CASE ~Returns(c)
      BY <3>2, <2>1 DEF Locks, Registers, Moves, GoesOn, Busy
    <3> QED
      BY <3>1, <3>2
  <2>5. \A d \in Callers \ {c} : turnMu' = d => turnMu = d
    BY <2>1 DEF Locks, Registers, Moves, GoesOn, Returns, Callers
  <2>6. ASSUME NEW i \in pending' PROVE \E d \in Callers : Expects(d)' /\ caller'[d].id = i
    <3>1. CASE i \notin pending
      <4>1. Registers(c) /\ i = nextID + 1
        BY <3>1, <2>1, <2>6 DEF Locks, Registers, Moves, GoesOn, Returns
      <4> QED
        BY <4>1 DEF Registers, Expects
    <3>2. CASE i \in pending
      <4>1. PICK d \in Callers : Expects(d) /\ caller[d].id = i
        BY <3>2, <1>t DEF CallerInv
      <4>2. CASE d # c
        BY <4>1, <4>2, <2>1 DEF Others, Expects
      <4>3. CASE d = c
        <5>1. Moves(c) /\ pending' = pending
          BY <4>1, <4>3, <2>1, <2>6 DEF Locks, Registers, Moves, GoesOn, Returns, Expects
        <5>2. pending' # pending \ {caller[c].id}
          BY <5>1, <3>2, <4>1, <4>3
        <5> QED
          BY <5>1, <5>2, <4>1, <4>3 DEF Moves, Expects
      <4> QED
        BY <4>2, <4>3
    <3> QED
      BY <3>1, <3>2
  <2>7. \A d \in Callers \ {c} : caller'[d] = caller[d]
    BY <2>1 DEF Others
  <2> QED
    BY <2>2, <2>3, <2>4, <2>5, <2>6, <2>7, <1>t DEF CallerInv, Busy, InCall
<1>2. ASSUME NEW c \in Callers, Begins(c) PROVE CallerInv'
  BY <1>2, <1>t DEF Begins, CallerInv, Busy, InCall, Expects, Others
<1>3. ASSUME Apart PROVE CallerInv'
  BY <1>3, <1>t DEF Apart, CallerInv, Busy, InCall, Expects
<1>4. CASE StartSession
  <2>1. "worker" \in Callers
    BY DEF Callers
  <2> QED
    BY <1>2, <1>4, <2>1, StartEffect
<1>5. CASE RunTurn \/ SetModel
  BY <1>2, <1>5, OperationEffect, EnterEffect
<1>6. CASE Close \/ Closed
  BY <1>6, <1>t, CloseEffect DEF Closes, CallerInv, Busy, InCall, Expects
<1>7. CASE Elsewhere
  BY <1>3, <1>7, ApartEffect
<1> QED
  BY <1>1, <1>4, <1>5, <1>6, <1>7, Steps

LEMMA NextLife == IInv /\ [Next]_vars => LifeInv'
<1> SUFFICES ASSUME IInv, [Next]_vars PROVE LifeInv'
  OBVIOUS
<1>t. LifeInv
  BY DEF IInv
<1>c. Callers = {"worker", "input"}
  BY DEF Callers
<1>1. ASSUME NEW c \in Callers, CallerStep(c) PROVE LifeInv'
  <2>1. Others(c) /\ (Locks(c) \/ Registers(c) \/ Moves(c) \/ GoesOn(c) \/ Returns(c)) /\ UNCHANGED <<done, up>>
    BY <1>1, CallerEffect
  <2>2. Busy(c) /\ session \notin {"none", "closed", "closing"} /\ (session = "starting" => c = "worker")
    <3>1. Busy(c)
      BY <2>1 DEF Locks, Registers, Moves, GoesOn, Returns, Busy, InCall
    <3> QED
      BY <3>1, <1>t, <1>c DEF LifeInv, Busy
  <2>3. CASE caller'[c].pc \notin {"idle", "close"}
    <3>1. session' = session
      BY <2>1, <2>3 DEF Locks, Registers, Moves, GoesOn, Returns
    <3> QED
      BY <2>1, <2>2, <2>3, <3>1, <1>t, <1>c DEF LifeInv, Others
  <2>4. CASE caller'[c].pc \in {"idle", "close"}
    <3>1. Returns(c)
      BY <2>1, <2>4 DEF Locks, Registers, Moves, GoesOn
    <3>2. CASE caller'[c].pc = "close"
      <4>1. session = "starting" /\ session' = "closing" /\ c = "worker"
        BY <3>1, <3>2, <2>2 DEF Returns
      <4> QED
        BY <2>1, <3>2, <4>1, <1>t, <1>c DEF LifeInv, Others
    <3>3. CASE caller'[c].pc = "idle"
      <4>1. session' = session \/ (session = "starting" /\ session' = "open")
        BY <3>1, <3>3 DEF Returns
      <4> QED
        BY <2>1, <2>2, <3>3, <4>1, <1>t, <1>c DEF LifeInv, Others
    <3> QED
      BY <2>4, <3>2, <3>3
  <2> QED
    BY <2>3, <2>4
<1>2. CASE StartSession
  BY <1>2, <1>t, <1>c, StartEffect DEF LifeInv, Begins, Others
<1>3. CASE RunTurn \/ SetModel
  <2>1. PICK c \in Callers, steps \in Seq(Ops) : Enter(c, steps) /\ steps # <<>>
    BY <1>3, OperationEffect
  <2>2. Begins(c) /\ session = "open" /\ UNCHANGED <<session, done, up>>
    BY <2>1, EnterEffect
  <2>3. Others(c) /\ Busy(c)'
    BY <2>2 DEF Begins
  <2>4. caller'[c].pc # "close"
    BY <2>3 DEF Busy
  <2> QED
    BY <2>2, <2>3, <2>4, <1>t, <1>c DEF LifeInv, Others
<1>4. CASE Close
  <2>1. caller'["worker"].pc = "close" /\ caller'["input"].pc = "idle"
    BY <1>4, <1>c, CloseEffect DEF Close, Idle, IInv, TypeOK, Closes, Others
  <2> QED
    BY <1>4, <2>1, <1>t, <1>c DEF Close, LifeInv, process, agent
<1>5. CASE Closed
  <2>1. caller'["worker"].pc = "idle" /\ caller'["input"].pc = "idle"
    BY <1>5, <1>c, CloseEffect, IdleTypes DEF Closed, IInv, TypeOK, Closes, Others
  <2> QED
    BY <1>5, <2>1, <1>t, <1>c DEF Closed, LifeInv, process, agent
<1>6. CASE Elsewhere
  <2>1. caller' = caller /\ session' = session /\ (up' => up)
    BY <1>6, ApartEffect DEF Apart
  <2>2. done' => done \/ (~up /\ session # "none")
    BY <1>6 DEF Elsewhere, Cancel, CancelProcess, ReaderStep, ReadResponse, ReadRequest, ReadEvent, SendEvent,
       ReaderEnds, Reap, HandleRequest, AgentStep, AgentTakes, AgentSays, AgentAsks, AgentEnds, AgentNotes, AgentDies,
       vars, process
  <2>3. done => done'
    BY <1>6 DEF Elsewhere, Cancel, CancelProcess, ReaderStep, ReadResponse, ReadRequest, ReadEvent, SendEvent,
       ReaderEnds, Reap, HandleRequest, AgentStep, AgentTakes, AgentSays, AgentAsks, AgentEnds, AgentNotes, AgentDies,
       vars, process
  <2> QED
    BY <2>1, <2>2, <2>3, <1>t, <1>c DEF LifeInv
<1> QED
  BY <1>1, <1>2, <1>3, <1>4, <1>5, <1>6, Steps

\* How much is ahead of a goroutine that is in a call, and of one that is not.
LEMMA AheadFacts ==
  ASSUME IInv, NEW c \in Callers
  PROVE  /\ caller[c].todo \in Seq(Ops) /\ Len(caller[c].todo) \in Nat
         /\ Ahead(c) \in Nat /\ Ahead(c) <= Len(caller[c].todo)
         /\ InCall(c) => caller[c].todo # <<>> /\ Len(caller[c].todo) >= 1 /\ Ahead(c) = Len(caller[c].todo) - 1
         /\ Spare \in {0, 1}
<1>1. caller[c].todo \in Seq(Ops) /\ Len(caller[c].todo) \in Nat
  <2>1. caller[c].todo \in Seq(Ops)
    BY CallerMoves DEF IInv
  <2> QED
    BY <2>1, LenProperties
<1>2. InCall(c) => Busy(c) /\ caller[c].pc \notin {"lock", "call"}
  BY DEF InCall, Busy
<1>3. InCall(c) => caller[c].todo # <<>> /\ Len(caller[c].todo) >= 1
  BY <1>1, <1>2 DEF IInv, CallerInv
<1>4. InCall(c) => Ahead(c) = Len(caller[c].todo) - 1
  BY <1>2 DEF Ahead
<1>5. Ahead(c) \in Nat /\ Ahead(c) <= Len(caller[c].todo)
  BY <1>1, <1>3 DEF Ahead
<1> QED
  BY <1>1, <1>3, <1>4, <1>5 DEF Spare

\* Reading is a matter of Codex.
LEMMA ReadsCodex == IInv => \A c \in Callers : caller[c].pc = "read" => provider # "copilot"
<1> SUFFICES ASSUME IInv, NEW c \in Callers, caller[c].pc = "read", provider = "copilot" PROVE FALSE
  OBVIOUS
<1>1. Op(c) = "turn" /\ caller[c].todo \in Seq(Ops \ {"turn"})
  BY DEF IInv, CountInv
<1>2. caller[c].todo # <<>>
  BY AheadFacts DEF InCall
<1>3. Head(caller[c].todo) \in Ops \ {"turn"}
  BY <1>1, <1>2, HeadTailProperties
<1> QED
  BY <1>1, <1>3 DEF Op

\* What a goroutine registers, or gives back, it had counted before.
LEMMA CallerCounts ==
  ASSUME IInv, NEW c \in Callers, CallerStep(c)
  PROVE  nextID' + Ahead(c)' + Spare' <= nextID + Ahead(c) + Spare /\ Ahead(c)' \in Nat /\ Spare' \in {0, 1}
<1>1. UNCHANGED provider /\ (Locks(c) \/ Registers(c) \/ Moves(c) \/ GoesOn(c) \/ Returns(c))
  BY CallerEffect
<1>2. nextID \in Nat /\ turnMu \in Callers \cup {"free"}
  BY Bounds DEF IInv, TypeOK
<1>3. /\ caller[c].todo \in Seq(Ops) /\ Len(caller[c].todo) \in Nat /\ Ahead(c) \in Nat
      /\ InCall(c) => caller[c].todo # <<>> /\ Len(caller[c].todo) >= 1 /\ Ahead(c) = Len(caller[c].todo) - 1
      /\ Spare \in {0, 1}
  BY AheadFacts
<1>4. Spare' \in {0, 1}
  BY DEF Spare
<1>f. "free" \notin Callers
  BY DEF Callers
<1>5. CASE Locks(c)
  <2>1. Ahead(c) = Len(caller[c].todo) /\ Ahead(c)' = Len(caller'[c].todo) /\ nextID' = nextID
    BY <1>5 DEF Locks, Ahead
  <2>2. Spare' = 0
    BY <1>5, <1>f DEF Locks, Spare
  <2>3. CASE provider = "copilot" /\ ~ide
    <3>1. caller'[c].todo = <<"ide">> \o caller[c].todo /\ Spare = 1
      BY <1>5, <2>3 DEF Locks, Spare
    <3>2. Len(caller'[c].todo) = Len(caller[c].todo) + 1
      BY <3>1, <1>3
    <3> QED
      BY <2>1, <2>2, <3>1, <3>2, <1>2, <1>3
  <2>4. CASE ~(provider = "copilot" /\ ~ide)
    <3>1. caller'[c].todo = caller[c].todo
      BY <1>5, <2>4 DEF Locks
    <3> QED
      BY <2>1, <2>2, <3>1, <1>2, <1>3
  <2> QED
    BY <2>3, <2>4
<1>6. CASE Registers(c)
  <2>1. Ahead(c) = Len(caller[c].todo) /\ Len(caller[c].todo) >= 1 /\ caller'[c].pc = "write" /\ Busy(c)
    <3>1. Busy(c) /\ caller'[c].pc = "write" /\ Ahead(c) = Len(caller[c].todo)
      BY <1>6 DEF Registers, Busy, Ahead
    <3>2. caller[c].todo # <<>>
      BY <3>1 DEF IInv, CallerInv
    <3> QED
      BY <3>1, <3>2, <1>3
  <2>2. InCall(c)'
    BY <2>1 DEF InCall
  <2>3. Ahead(c)' = Len(caller[c].todo) - 1
    BY <1>6, <2>1, <2>2 DEF Ahead, Registers
  <2>4. Spare' = Spare /\ nextID' = nextID + 1
    BY <1>1, <1>6 DEF Spare, Registers
  <2>5. Ahead(c)' = Ahead(c) - 1 /\ Ahead(c)' \in Nat /\ Ahead(c) \in Nat
    BY <2>1, <2>3, <1>3
  <2>6. Spare \in {0, 1} /\ nextID \in Nat
    BY <1>2, <1>3
  <2>7. nextID' + Ahead(c)' + Spare' <= nextID + Ahead(c) + Spare
    BY <2>4, <2>5, <2>6
  <2> QED
    BY <2>5, <2>7, <1>4
<1>7. CASE Moves(c)
  <2>1. InCall(c) /\ InCall(c)' /\ caller'[c].pc \notin {"lock", "call"} /\ caller'[c].todo = caller[c].todo
    BY <1>7 DEF Moves, InCall
  <2>2. Ahead(c)' = Ahead(c)
    BY <2>1, <1>3 DEF Ahead
  <2>3. Spare' = Spare /\ nextID' = nextID
    BY <1>1, <1>7 DEF Spare, Moves
  <2> QED
    BY <2>2, <2>3, <1>2, <1>3
<1>8. CASE GoesOn(c)
  <2>1. InCall(c) /\ caller'[c].pc = "call" /\ caller'[c].todo = Tail(caller[c].todo)
    BY <1>8 DEF GoesOn
  <2>2. Len(Tail(caller[c].todo)) = Len(caller[c].todo) - 1
    BY <2>1, <1>3, HeadTailProperties
  <2>3. Ahead(c)' = Ahead(c)
    BY <2>1, <2>2, <1>3 DEF Ahead
  <2>4. Spare' <= Spare /\ nextID' = nextID
    <3>1. (ide => ide') /\ turnMu' = turnMu /\ nextID' = nextID
      BY <1>8 DEF GoesOn
    <3> QED
      BY <1>1, <3>1 DEF Spare
  <2> QED
    BY <2>3, <2>4, <1>2, <1>3, <1>4
<1>9. CASE Returns(c)
  <2>1. InCall(c) /\ nextID' = nextID /\ caller'[c].pc \in {"idle", "close"} /\ (ide => ide')
    BY <1>9 DEF Returns
  <2>2. Ahead(c)' = 0 /\ Ahead(c) = Len(caller[c].todo) - 1
    BY <2>1, <1>3 DEF Ahead, InCall
  <2>3. CASE Spare' = 1 /\ Spare = 0
    <3>1. provider = "copilot" /\ ~ide /\ turnMu # "free" /\ turnMu' = "free"
      BY <2>1, <2>3, <1>1 DEF Spare
    <3>2. turnMu = c
      BY <1>9, <3>1, ReadsCodex DEF Returns
    <3>3. Len(caller[c].todo) >= 2
      BY <3>1, <3>2 DEF IInv, CountInv
    <3> QED
      BY <2>1, <2>2, <2>3, <3>3, <1>2, <1>3
  <2>4. CASE Spare' <= Spare
    BY <2>1, <2>2, <2>4, <1>2, <1>3, <1>4
  <2> QED
    BY <2>3, <2>4, <1>3, <1>4
<1> QED
  BY <1>1, <1>4, <1>5, <1>6, <1>7, <1>8, <1>9

LEMMA NextBound ==
  IInv /\ [Next]_vars /\ session' # "none" => nextID' + Ahead("worker")' + Ahead("input")' + Spare' <= MaxCall
<1> SUFFICES ASSUME IInv, [Next]_vars, session' # "none"
             PROVE  nextID' + Ahead("worker")' + Ahead("input")' + Spare' <= MaxCall
  OBVIOUS
<1>c. Callers = {"worker", "input"}
  BY DEF Callers
<1>t. /\ nextID \in Nat /\ MaxCall \in Nat /\ MaxCall >= 3
      /\ session # "none" => nextID + Ahead("worker") + Ahead("input") + Spare <= MaxCall
  BY Bounds, SessionAssumption DEF IInv, TypeOK, CountInv
<1>a. \A d \in Callers : Ahead(d) \in Nat /\ Len(caller[d].todo) \in Nat /\ Ahead(d) <= Len(caller[d].todo)
  BY AheadFacts
<1>s. Spare \in {0, 1}
  BY DEF Spare
<1>o. ASSUME NEW c \in Callers, Others(c) PROVE \A d \in Callers \ {c} : Ahead(d)' = Ahead(d)
  BY <1>o DEF Others, Ahead, InCall
<1>1. ASSUME NEW c \in Callers, CallerStep(c) PROVE nextID' + Ahead("worker")' + Ahead("input")' + Spare' <= MaxCall
  <2>1. Others(c) /\ (Locks(c) \/ Registers(c) \/ Moves(c) \/ GoesOn(c) \/ Returns(c))
    BY <1>1, CallerEffect
  <2>2. session # "none"
    <3>1. Busy(c)
      BY <2>1 DEF Locks, Registers, Moves, GoesOn, Returns, Busy, InCall
    <3>2. caller[c].pc # "idle"
      BY <3>1 DEF Busy
    <3> QED
      BY <3>2 DEF IInv, LifeInv
  <2>3. nextID' + Ahead(c)' + Spare' <= nextID + Ahead(c) + Spare /\ Ahead(c)' \in Nat /\ Spare' \in {0, 1}
    BY <1>1, CallerCounts
  <2>4. nextID' \in Nat
    BY <2>1, <1>t DEF Locks, Registers, Moves, GoesOn, Returns
  <2>5. \A d \in Callers \ {c} : Ahead(d)' = Ahead(d)
    BY <2>1, <1>o
  <2>6. CASE c = "worker"
    <3>1. Ahead("input")' = Ahead("input") /\ Ahead("input") \in Nat /\ Ahead("worker") \in Nat
      BY <2>5, <2>6, <1>a, <1>c
    <3> QED
      BY <2>2, <2>3, <2>4, <2>6, <3>1, <1>t, <1>s
  <2>7. CASE c = "input"
    <3>1. Ahead("worker")' = Ahead("worker") /\ Ahead("input") \in Nat /\ Ahead("worker") \in Nat
      BY <2>5, <2>7, <1>a, <1>c
    <3> QED
      BY <2>2, <2>3, <2>4, <2>7, <3>1, <1>t, <1>s
  <2> QED
    BY <2>6, <2>7, <1>c
<1>2. CASE StartSession
  <2>1. /\ Begins("worker") /\ session = "none"
        /\ caller'["worker"].pc = "call" /\ caller'["worker"].todo = <<"initialize", "new">>
    BY <1>2, StartEffect
  <2>2. nextID' = 0 /\ caller'["input"].pc = "idle"
    BY <2>1, <1>c DEF Begins, Others, IInv, LifeInv, CountInv
  <2>3. Ahead("worker")' = 2 /\ Ahead("input")' = 0
    BY <2>1, <2>2 DEF Ahead, InCall
  <2>4. Spare' \in {0, 1}
    BY DEF Spare
  <2> QED
    BY <2>2, <2>3, <2>4, <1>t
<1>3. CASE RunTurn \/ SetModel
  <2>1. PICK c \in Callers, steps \in Seq(Ops) : Enter(c, steps) /\ steps # <<>>
    BY <1>3, OperationEffect
  <2>2. Begins(c) /\ caller'[c].todo = steps
    BY <2>1, EnterEffect
  <2>3. Ahead(c)' <= Len(steps) /\ Ahead(c)' \in Nat /\ Len(steps) \in Nat
    <3>1. Busy(c)' /\ ~InCall(c)'
      BY <2>2 DEF Begins
    <3>2. Ahead(c)' = Len(steps)
      BY <2>2, <3>1 DEF Ahead, Busy, InCall
    <3> QED
      BY <3>2, <2>1
  <2> DEFINE w == Len(caller["worker"].todo)
             i == Len(caller["input"].todo)
             k == Len(steps)
             spare == IF provider = "copilot" /\ ide THEN 0 ELSE 1
  <2>4. nextID + w + i + k + spare <= MaxCall
    BY <2>1 DEF Enter
  <2>5. w \in Nat /\ i \in Nat /\ k \in Nat /\ spare \in Nat
    BY <2>3, <1>a, <1>c
  <2>6. Spare' \in Nat /\ Spare' <= spare
    BY <2>2 DEF Spare, Begins
  <2>7. nextID' = nextID /\ \A d \in Callers \ {c} : Ahead(d)' = Ahead(d)
    BY <2>2, <1>o DEF Begins
  <2>8. c = "worker" => /\ Ahead("worker")' <= k /\ Ahead("worker")' \in Nat
                        /\ Ahead("input")' <= i /\ Ahead("input")' \in Nat
    BY <2>3, <2>7, <1>a, <1>c
  <2>9. c = "input" => /\ Ahead("input")' <= k /\ Ahead("input")' \in Nat
                       /\ Ahead("worker")' <= w /\ Ahead("worker")' \in Nat
    BY <2>3, <2>7, <1>a, <1>c
  <2> HIDE DEF w, i, k, spare
  <2>10. nextID' + Ahead("worker")' + Ahead("input")' + Spare' <= nextID + w + i + k + spare
    BY <2>5, <2>6, <2>7, <2>8, <2>9, <1>c, <1>t
  <2>11. Ahead("worker")' \in Nat /\ Ahead("input")' \in Nat /\ nextID' \in Nat
    BY <2>7, <2>8, <2>9, <1>c, <1>t
  <2> QED
    BY <2>4, <2>5, <2>6, <2>10, <2>11, <1>t
<1>4. CASE Close \/ Closed
  <2>1. Closes
    BY <1>4, CloseEffect
  <2>2. \A d \in Callers : Ahead(d)' = 0 /\ Ahead(d) = 0
    BY <2>1 DEF Closes, Ahead, InCall
  <2>3. nextID' = nextID /\ Spare' = Spare
    BY <2>1 DEF Closes, Spare
  <2>4. session # "none"
    BY <1>4 DEF Close, Closed, IInv, LifeInv
  <2>5. Ahead("worker")' = 0 /\ Ahead("input")' = 0 /\ Ahead("worker") = 0 /\ Ahead("input") = 0
    BY <2>2, <1>c
  <2> QED
    BY <2>3, <2>4, <2>5, <1>t, <1>s
<1>5. CASE Elsewhere
  <2>1. Apart /\ session' = session
    BY <1>5, ApartEffect
  <2>2. nextID' = nextID /\ Spare' = Spare /\ Ahead("worker")' = Ahead("worker") /\ Ahead("input")' = Ahead("input")
    BY <2>1 DEF Apart, Spare, Ahead, InCall
  <2> QED
    BY <2>1, <2>2, <1>t
<1> QED
  BY <1>1, <1>2, <1>3, <1>4, <1>5, Steps

LEMMA NextCount == IInv /\ [Next]_vars => CountInv'
<1> SUFFICES ASSUME IInv, [Next]_vars PROVE CountInv'
  OBVIOUS
<1>t. CountInv
  BY DEF IInv
<1>c. Callers = {"worker", "input"} /\ "free" \notin Callers
  BY DEF Callers
<1>b. session' # "none" => nextID' + Ahead("worker")' + Ahead("input")' + Spare' <= MaxCall
  BY NextBound
<1>1. ASSUME NEW c \in Callers, CallerStep(c) PROVE CountInv'
  <2>1. /\ Others(c) /\ UNCHANGED provider
        /\ Locks(c) \/ Registers(c) \/ Moves(c) \/ GoesOn(c) \/ Returns(c)
    BY <1>1, CallerEffect
  <2>t. /\ caller[c].todo \in Seq(Ops) /\ (provider = "copilot" => caller[c].todo \in Seq(Ops \ {"turn"}))
        /\ InCall(c) => caller[c].todo # <<>>
    BY <1>t, AheadFacts DEF CountInv
  <2>b. Busy(c) /\ caller[c].todo # <<>>
    <3>1. Busy(c)
      BY <2>1 DEF Locks, Registers, Moves, GoesOn, Returns, Busy, InCall
    <3> QED
      BY <3>1 DEF IInv, CallerInv
  <2>2. session' # "none"
    <3>1. session # "none"
      BY <2>b DEF IInv, LifeInv, Busy
    <3> QED
      BY <2>1, <3>1 DEF Locks, Registers, Moves, GoesOn, Returns
  <2>3. provider = "copilot" /\ ~ide' /\ turnMu' = c => Head(caller'[c].todo) = "ide" /\ Len(caller'[c].todo) >= 2
    <3> SUFFICES ASSUME provider = "copilot", ~ide', turnMu' = c
                 PROVE  Head(caller'[c].todo) = "ide" /\ Len(caller'[c].todo) >= 2
      OBVIOUS
    <3>1. CASE Locks(c)
      <4>1. caller'[c].todo = <<"ide">> \o caller[c].todo
        BY <3>1 DEF Locks
      <4>2. Len(caller[c].todo) >= 1
        BY <2>b, <2>t
      <4> QED
        BY <4>1, <4>2, <2>t
    <3>2. CASE Registers(c) \/ Moves(c)
      BY <3>2, <1>t DEF Registers, Moves, CountInv
    <3>3. CASE GoesOn(c)
      <4>1. ~ide /\ Op(c) # "ide" /\ turnMu = c
        BY <3>3 DEF GoesOn
      <4> QED
        BY <4>1, <1>t DEF CountInv, Op
    <3>4. CASE Returns(c)
      <4>1. turnMu' # c
        BY <3>4, <1>c DEF Returns
      <4> QED
        BY <4>1
    <3> QED
      BY <2>1, <3>1, <3>2, <3>3, <3>4
  <2>4. caller'[c].pc = "read" => Op(c)' = "turn"
    BY <2>1 DEF Locks, Registers, Moves, GoesOn, Returns, Op
  <2>5. provider = "copilot" => caller'[c].todo \in Seq(Ops \ {"turn"})
    <3> SUFFICES ASSUME provider = "copilot" PROVE caller'[c].todo \in Seq(Ops \ {"turn"})
      OBVIOUS
    <3>1. CASE Locks(c)
      <4>1. <<"ide">> \in Seq(Ops \ {"turn"})
        BY DEF Ops
      <4>2. <<"ide">> \o caller[c].todo \in Seq(Ops \ {"turn"})
        BY <4>1, <2>t, ConcatProperties
      <4> QED
        BY <3>1, <4>2, <2>t DEF Locks
    <3>2. CASE Registers(c) \/ Moves(c)
      BY <3>2, <2>t DEF Registers, Moves
    <3>3. CASE GoesOn(c)
      <4>1. Tail(caller[c].todo) \in Seq(Ops \ {"turn"})
        BY <2>b, <2>t, HeadTailProperties
      <4> QED
        BY <3>3, <4>1 DEF GoesOn
    <3>4. CASE Returns(c)
      BY <3>4 DEF Returns
    <3> QED
      BY <2>1, <3>1, <3>2, <3>3, <3>4
  <2>6. (ide => ide') /\ \A d \in Callers \ {c} : turnMu' = d => turnMu = d
    <3>1. ide => ide'
      BY <2>1 DEF Locks, Registers, Moves, GoesOn, Returns
    <3>2. turnMu' \in {turnMu, c, "free"}
      BY <2>1 DEF Locks, Registers, Moves, GoesOn, Returns
    <3> QED
      BY <3>1, <3>2, <1>c
  <2>7. \A d \in Callers \ {c} : caller'[d] = caller[d] /\ Op(d)' = Op(d)
    BY <2>1 DEF Others, Op
  <2> QED
    BY <2>1, <2>2, <2>3, <2>4, <2>5, <2>6, <2>7, <1>b, <1>t DEF CountInv
<1>2. ASSUME NEW c \in Callers, Begins(c), session' # "none",
             provider = "copilot" => caller'[c].todo \in Seq(Ops \ {"turn"})
      PROVE  CountInv'
  <2>1. Others(c) /\ UNCHANGED <<turnMu, ide, nextID, provider>> /\ ~InCall(c)' /\ caller[c].pc = "idle"
    BY <1>2 DEF Begins
  <2>2. caller'[c].pc # "read" /\ turnMu # c
    BY <2>1 DEF InCall, IInv, CallerInv, Busy
  <2>3. \A d \in Callers \ {c} : caller'[d] = caller[d] /\ Op(d)' = Op(d)
    BY <2>1 DEF Others, Op
  <2> QED
    BY <1>2, <2>1, <2>2, <2>3, <1>b, <1>t DEF CountInv
<1>3. CASE StartSession
  <2>1. "worker" \in Callers /\ <<"initialize", "new">> \in Seq(Ops \ {"turn"})
    BY DEF Callers, Ops
  <2>2. Begins("worker") /\ session' # "none" /\ caller'["worker"].todo = <<"initialize", "new">>
    BY <1>3, StartEffect
  <2> QED
    BY <2>1, <2>2, <1>2
<1>4. CASE RunTurn \/ SetModel
  <2>1. PICK c \in Callers, steps \in Seq(Ops) :
          Enter(c, steps) /\ steps # <<>> /\ (provider = "copilot" => steps \in Seq(Ops \ {"turn"}))
    BY <1>4, OperationEffect
  <2>2. Begins(c) /\ session' = session /\ session = "open" /\ caller'[c].todo = steps
    BY <2>1, EnterEffect
  <2> QED
    BY <2>1, <2>2, <1>2
<1>5. CASE Close \/ Closed
  <2>1. Closes /\ session' # "none"
    BY <1>5, CloseEffect DEF Close, Closed
  <2>2. \A d \in Callers : caller'[d].pc # "read" /\ turnMu # d
    BY <2>1 DEF Closes, IInv, CallerInv, Busy
  <2>3. \A d \in Callers : caller'[d].todo = caller[d].todo \/ caller'[d].todo = <<>>
    BY <2>1, <1>c DEF Closes, Others
  <2>4. <<>> \in Seq(Ops \ {"turn"})
    OBVIOUS
  <2>5. UNCHANGED <<turnMu, ide, nextID, provider>>
    BY <2>1 DEF Closes
  <2> QED
    BY <2>1, <2>2, <2>3, <2>4, <2>5, <1>b, <1>t DEF CountInv
<1>6. CASE Elsewhere
  <2>1. Apart /\ session' = session
    BY <1>6, ApartEffect
  <2> QED
    BY <2>1, <1>b, <1>t DEF Apart, CountInv, Op
<1> QED
  BY <1>1, <1>3, <1>4, <1>5, <1>6, Steps

LEMMA NextAgent == IInv /\ [Next]_vars => AgentInv'
<1> SUFFICES ASSUME IInv, [Next]_vars PROVE AgentInv'
  OBVIOUS
<1>1. CASE AgentTakes
  <2>1. Head(inbox) \in Call
    BY <1>1 DEF AgentTakes, IInv, TypeOK
  <2>2. cur' = cur \/ cur' = Head(inbox)
    BY <1>1 DEF AgentTakes
  <2> QED
    BY <2>1, <2>2 DEF IInv, AgentInv, Call
<1>2. cur' = cur \/ cur' = NoTurn => AgentInv'
  BY DEF IInv, AgentInv
<1>3. CASE ~AgentTakes
  <2>1. ASSUME NEW c \in Callers, CallerStep(c) PROVE cur' = cur
    BY <2>1, CallerEffect
  <2>2. CASE StartSession
    BY <2>2, <1>2, StartEffect
  <2>3. CASE RunTurn \/ SetModel
    BY <2>3, <1>2, OperationEffect, EnterEffect
  <2>4. CASE Close \/ Closed
    BY <2>4, <1>2, CloseEffect DEF Closes
  <2>5. CASE Elsewhere
    <3>1. cur' = cur \/ cur' = NoTurn
      BY <2>5, <1>3 DEF Elsewhere, Cancel, CancelProcess, ReaderStep, ReadResponse, ReadRequest, ReadEvent, SendEvent,
         ReaderEnds, Reap, HandleRequest, AgentStep, AgentSays, AgentAsks, AgentEnds, AgentNotes, AgentDies,
         vars, agent
    <3> QED
      BY <3>1, <1>2
  <2> QED
    BY <2>1, <2>2, <2>3, <2>4, <2>5, <1>2, Steps
<1> QED
  BY <1>1, <1>3

-----------------------------------------------------------------------------
(* Theorems *)

\* The invariant is inductive: whoever uses the session has something left to do
\* and ids to do it with, holds turnMu only while it does, and no call is expected
\* that nobody waits for.
THEOREM Inductive == Spec => []IInv
<1>1. Init => IInv
  BY InitInv
<1>2. IInv /\ [Next]_vars => IInv'
  BY NextType, NextCaller, NextLife, NextCount, NextAgent DEF IInv
<1> QED
  BY <1>1, <1>2, PTL DEF Spec

\* Every state of the two sessions is of its type; in particular no channel holds
\* more than its capacity and no call is made without an id.
THEOREM TypeCorrect == Spec => []TypeOK
<1>1. IInv => TypeOK
  BY DEF IInv
<1> QED
  BY <1>1, Inductive, PTL

\* A session that is closed, by its owner or because it could not be started, has
\* left no process, no call that waits and no lock held.
THEOREM NoAgentLeft == Spec => []NoAgentIsLeft
<1>1. IInv => NoAgentIsLeft
  <2> SUFFICES ASSUME IInv, session = "closed" PROVE ~up /\ done /\ pending = {} /\ turnMu = "free"
    BY DEF NoAgentIsLeft
  <2>1. done /\ ~up /\ \A c \in Callers : ~Busy(c) /\ ~Expects(c)
    BY DEF IInv, LifeInv, Busy, Expects
  <2>2. pending = {}
    BY <2>1 DEF IInv, CallerInv
  <2>3. turnMu = "free"
    BY <2>1 DEF IInv, CallerInv, TypeOK
  <2> QED
    BY <2>1, <2>2, <2>3
<1> QED
  BY <1>1, Inductive, PTL

-----------------------------------------------------------------------------
(* What a turn returns *)

\* The lists of calls are of turns or of other calls, and turns hold turnMu.
TurnInv ==
  \A c \in Callers :
    /\ caller[c].todo \in Seq(Turns) \/ caller[c].todo \in Seq(Ops \ Turns)
    /\ provider # "copilot" => caller[c].todo \in Seq(Ops \ Prompting)
    /\ (caller[c].pc = "call" \/ InCall(c)) /\ Op(c) \in Turns => turnMu = c
    /\ caller[c].pc = "lock" => caller[c].todo \in Seq(Turns)
    /\ caller[c].pc = "drain" => Op(c) \in Prompting

\* An id the agent has taken, and one it is done with.
Known(i) ==
  /\ i \in Ids /\ i <= nextID
  /\ \A p \in DOMAIN inbox : inbox[p].id # i
  /\ \A c \in Callers : caller[c].pc = "write" => caller[c].id # i
Over(i) == Known(i) /\ cur.id # i

\* What is on its way to whoever takes the events, in order.
Handed == IF reader.pc = "send" THEN <<reader.msg>> ELSE <<>>
Unread == IF reader.pc = "ended" THEN <<>> ELSE out
Live == events \o (Handed \o Unread)

Chunk(m, i) == m.kind = "event" /\ m.what = "said" /\ m.id = i

\* What tells that a turn has ended.
End(m, i) ==
  /\ m.id = i
  /\ IF provider = "copilot" THEN m.kind = "response" ELSE m.kind = "event" /\ m.what = "completed"

\* A call is written once, taken once, and only then something is told of it.
IdInv ==
  /\ \A p, q \in DOMAIN inbox : p # q => inbox[p].id # inbox[q].id
  /\ \A p \in DOMAIN inbox : inbox[p].id <= nextID /\ (provider = "copilot" => inbox[p].op # "turn")
  /\ \A c \in Callers : InCall(c) => caller[c].id <= nextID
  /\ \A c, d \in Callers : InCall(c) /\ InCall(d) /\ c # d => caller[c].id # caller[d].id
  /\ \A c \in Callers : caller[c].pc = "write" => \A p \in DOMAIN inbox : inbox[p].id # caller[c].id
  /\ cur.id # 0 => Known(cur.id)
  /\ \A p \in DOMAIN Live : Live[p].id # 0 => Known(Live[p].id)
  /\ \A i \in Ids : said[i] # 0 \/ response[i] # "none" => Known(i)
  /\ ~up => cur.id = 0 /\ inbox = <<>>

\* After its end nothing is told of a turn.
EndInv ==
  /\ \A p \in DOMAIN Live, i \in Ids : End(Live[p], i) => Over(i)
  /\ provider # "copilot" =>
       \A p \in DOMAIN Live, i \in Ids : End(Live[p], i) => Live[p].n \in {0, said[i]}
  /\ \A p, q \in DOMAIN Live, i \in Ids : p < q /\ End(Live[p], i) => ~Chunk(Live[q], i)
  /\ provider = "copilot" =>
       \A i \in Ids : response[i] # "none" =>
         Over(i) /\ \A p \in DOMAIN Live : p > Len(events) => ~Chunk(Live[p], i)
  /\ \A c \in Callers : caller[c].pc = "drain" => response[caller[c].id] # "none"

\* Who waits for a turn of Copilot, and who takes its chunks.
Awaits(c) == caller[c].pc \in {"wait", "drain"} /\ Op(c) \in Prompting

\* Chunks of Copilot do not tell their turn to the program: all must be of the one
\* that is waited for.
OneTurnInv ==
  provider = "copilot" /\ ~ctx =>
    /\ \A p \in DOMAIN inbox : inbox[p].op \in Prompting =>
         \E c \in Callers : Awaits(c) /\ caller[c].pc = "wait" /\ caller[c].id = inbox[p].id
    /\ cur.id # 0 => \E c \in Callers : Awaits(c) /\ caller[c].pc = "wait" /\ caller[c].id = cur.id
    /\ ~done => \A p \in DOMAIN Live : Live[p].what = "said" => \E c \in Callers : Awaits(c) /\ caller[c].id = Live[p].id
    /\ \A c \in Callers : Awaits(c) => \A p \in DOMAIN Live : Live[p].what = "said" => Live[p].id = caller[c].id

\* The text after t chunks.
TextAfter(t) == IF provider = "copilot" THEN [k \in 1 .. t |-> k] ELSE IF t = 0 THEN <<>> ELSE <<t>>

\* The chunks of a turn come in their order, from the one after t on.
Sorted(L, i, t, s) ==
  /\ \A p \in DOMAIN L : Chunk(L[p], i) =>
       /\ L[p].n \in t + 1 .. s
       /\ \A n \in t + 1 .. L[p].n - 1 : \E q \in DOMAIN L : q < p /\ Chunk(L[q], i) /\ L[q].n = n
  /\ \A p, q \in DOMAIN L : p < q /\ Chunk(L[p], i) /\ Chunk(L[q], i) => L[p].n < L[q].n
Covered(L, i, t, s) == \A n \in t + 1 .. s : \E p \in DOMAIN L : Chunk(L[p], i) /\ L[p].n = n

\* None of them is lost as long as the turn goes on and is read, or its end is on its way.
Whole(i) ==
  \/ cur.id = i /\ reader.pc # "ended"
  \/ \E p \in DOMAIN Live : End(Live[p], i)
  \/ provider = "copilot" /\ response[i] # "none"

Turning(c) == caller[c].pc \in {"wait", "read", "drain"} /\ Op(c) \in Turns

\* A turn with text x has got t of its messages.
Progress(i, x, t) ==
  /\ t \in 0 .. said[i] /\ x = TextAfter(t)
  /\ Sorted(Live, i, t, said[i])
  /\ Whole(i) => Covered(Live, i, t, said[i])

TextInv ==
  /\ \A c \in Callers : caller[c].pc = "write" => caller[c].text = <<>>
  /\ ~ctx => \A c \in Callers : Turning(c) => \E t \in 0 .. MaxSaid : Progress(caller[c].id, caller[c].text, t)

ResultInv == result.id # 0 => Over(result.id)

RInv == TurnInv /\ IdInv /\ EndInv /\ OneTurnInv /\ TextInv /\ ResultInv /\ ResultIsOfTurn

-----------------------------------------------------------------------------
(* Sequences, and what is live *)

LEMMA HeadAndTail == ASSUME NEW S, NEW s \in Seq(S), s # <<>> PROVE <<Head(s)>> \o Tail(s) = s
<1>1. /\ Head(s) \in S /\ Tail(s) \in Seq(S) /\ Len(Tail(s)) = Len(s) - 1 /\ Len(s) \in Nat
      /\ \A i \in 1 .. Len(Tail(s)) : Tail(s)[i] = s[i + 1]
  BY HeadTailProperties, LenProperties
<1>2. <<Head(s)>> \in Seq(S) /\ Len(<<Head(s)>>) = 1 /\ <<Head(s)>>[1] = s[1]
  BY <1>1
<1> DEFINE h == <<Head(s)>>
           r == Tail(s)
<1>3. /\ h \o r \in Seq(S) /\ Len(h \o r) = Len(h) + Len(r)
      /\ \A i \in 1 .. Len(h) + Len(r) : (h \o r)[i] = IF i <= Len(h) THEN h[i] ELSE r[i - Len(h)]
  BY <1>1, <1>2, ConcatProperties
<1> HIDE DEF h, r
<1>4. Len(h) = 1 /\ h[1] = s[1] /\ Len(r) = Len(s) - 1 /\ \A i \in 1 .. Len(r) : r[i] = s[i + 1]
  BY <1>1, <1>2 DEF h, r
<1>5. \A i \in 1 .. Len(s) : (h \o r)[i] = s[i]
  BY <1>1, <1>3, <1>4
<1> DEFINE all == h \o r
<1>6. all \in Seq(S) /\ Len(all) = Len(s) /\ \A i \in 1 .. Len(all) : all[i] = s[i]
  BY <1>1, <1>3, <1>4, <1>5
<1> HIDE DEF all
<1>7. all = s
  BY <1>6, SeqEqual
<1> QED
  BY <1>7 DEF all, h, r

LEMMA TailOfConcat ==
  ASSUME NEW S, NEW s \in Seq(S), NEW t \in Seq(S), s # <<>>
  PROVE  Tail(s) \o t = Tail(s \o t) /\ s \o t # <<>> /\ Head(s \o t) = Head(s)
<1>1. /\ Tail(s) \in Seq(S) /\ Len(Tail(s)) = Len(s) - 1 /\ Len(s) \in Nat /\ Len(t) \in Nat /\ Len(s) >= 1
      /\ \A i \in 1 .. Len(Tail(s)) : Tail(s)[i] = s[i + 1]
  BY HeadTailProperties, LenProperties, EmptySeq
<1>2. /\ s \o t \in Seq(S) /\ Len(s \o t) = Len(s) + Len(t)
      /\ \A i \in 1 .. Len(s) + Len(t) : (s \o t)[i] = IF i <= Len(s) THEN s[i] ELSE t[i - Len(s)]
  BY ConcatProperties
<1>3. s \o t # <<>>
  BY <1>1, <1>2, EmptySeq
<1> DEFINE c == s \o t
           r == Tail(s)
<1>4. /\ Tail(c) \in Seq(S) /\ Len(Tail(c)) = Len(c) - 1
      /\ \A i \in 1 .. Len(Tail(c)) : Tail(c)[i] = c[i + 1]
  BY <1>2, <1>3, HeadTailProperties
<1>5. /\ r \o t \in Seq(S) /\ Len(r \o t) = Len(r) + Len(t)
      /\ \A i \in 1 .. Len(r) + Len(t) : (r \o t)[i] = IF i <= Len(r) THEN r[i] ELSE t[i - Len(r)]
  BY <1>1, ConcatProperties
<1>h. Head(c) = Head(s)
  BY <1>1, <1>2
<1> DEFINE d == Tail(c)
           e == r \o t
<1>6. \A i \in 1 .. Len(e) : e[i] = d[i]
  <2> SUFFICES ASSUME NEW i \in 1 .. Len(e) PROVE e[i] = d[i]
    OBVIOUS
  <2>1. e[i] = IF i <= Len(s) - 1 THEN s[i + 1] ELSE t[i - (Len(s) - 1)]
    BY <1>1, <1>5
  <2>2. d[i] = c[i + 1] /\ i + 1 \in 1 .. Len(s) + Len(t)
    BY <1>1, <1>2, <1>4, <1>5
  <2>3. c[i + 1] = IF i + 1 <= Len(s) THEN s[i + 1] ELSE t[i + 1 - Len(s)]
    BY <1>2, <2>2
  <2> QED
    BY <2>1, <2>2, <2>3, <1>1
<1>7. Len(e) = Len(d)
  BY <1>1, <1>2, <1>4, <1>5
<1> HIDE DEF d, e
<1>8. d \in Seq(S) /\ e \in Seq(S)
  BY <1>4, <1>5 DEF d, e
<1>9. d = e
  BY <1>6, <1>7, <1>8, SeqEqual
<1> QED
  BY <1>3, <1>9, <1>h DEF d, e

LEMMA AppendToConcat ==
  ASSUME NEW S, NEW s \in Seq(S), NEW t \in Seq(S), NEW e \in S
  PROVE  s \o Append(t, e) = Append(s \o t, e)
<1>1. <<e>> \in Seq(S) /\ s \o t \in Seq(S)
  BY ConcatProperties
<1>2. Append(t, e) = t \o <<e>> /\ Append(s \o t, e) = (s \o t) \o <<e>>
  BY <1>1, AppendIsConcat
<1>3. (s \o t) \o <<e>> = s \o (t \o <<e>>)
  BY <1>1, ConcatAssociative
<1> QED
  BY <1>2, <1>3

LEMMA LiveType ==
  ASSUME TypeOK
  PROVE  /\ Live \in Seq(Message) /\ events \in Seq(Message) /\ Handed \in Seq(Message)
         /\ Unread \in Seq(Message) /\ Handed \o Unread \in Seq(Message)
         /\ Len(events) \in Nat /\ Len(Live) \in Nat /\ Len(events) <= Len(Live)
         /\ DOMAIN Live = 1 .. Len(Live)
         /\ \A p \in 1 .. Len(events) : Live[p] = events[p]
         /\ \A p \in DOMAIN Live : Live[p] \in Message
<1>1. events \in Seq(Message) /\ out \in Seq(Message) /\ reader.msg \in Message
  BY DEF TypeOK, ReaderType
<1>2. Handed \in Seq(Message) /\ Unread \in Seq(Message)
  BY <1>1 DEF Handed, Unread
<1>3. Handed \o Unread \in Seq(Message) /\ Len(Handed \o Unread) \in Nat /\ Len(events) \in Nat
  BY <1>1, <1>2, ConcatProperties, LenProperties
<1> DEFINE rest == Handed \o Unread
<1> HIDE DEF rest
<1>4. rest \in Seq(Message) /\ Len(rest) \in Nat /\ Live = events \o rest
  BY <1>3 DEF rest, Live
<1>5. /\ Live \in Seq(Message) /\ Len(Live) = Len(events) + Len(rest)
      /\ \A i \in 1 .. Len(events) + Len(rest) :
           Live[i] = IF i <= Len(events) THEN events[i] ELSE rest[i - Len(events)]
  BY <1>1, <1>4, ConcatProperties
<1>6. DOMAIN Live = 1 .. Len(Live) /\ Len(Live) \in Nat /\ \A p \in 1 .. Len(Live) : Live[p] \in Message
  BY <1>5, LenProperties, ElementOfSeq
<1>7. \A p \in 1 .. Len(events) : Live[p] = events[p]
  BY <1>3, <1>4, <1>5
<1> QED
  BY <1>1, <1>2, <1>3, <1>4, <1>5, <1>6, <1>7

\* The reader hands an event on: it stays in its place.
LEMMA HandLive ==
  ASSUME TypeOK, ReadEvent \/ SendEvent
  PROVE  Live' = Live /\ Len(events)' >= Len(events)
<1>1. events \in Seq(Message) /\ out \in Seq(Message) /\ reader.msg \in Message /\ Len(events) \in Nat
  BY LenProperties DEF TypeOK, ReaderType
<1>2. CASE ReadEvent
  <2>1. Handed = <<>> /\ Unread = out /\ out # <<>>
    BY <1>2 DEF ReadEvent, Handed, Unread
  <2>2. Handed' = <<Head(out)>> /\ Unread' = Tail(out) /\ events' = events
    BY <1>2 DEF ReadEvent, Handed, Unread
  <2>3. <<Head(out)>> \o Tail(out) = out /\ <<>> \o out = out
    BY <1>1, <2>1, HeadAndTail, ConcatEmptySeq
  <2> QED
    BY <1>1, <2>1, <2>2, <2>3 DEF Live
<1>3. CASE SendEvent
  <2>1. Handed = <<reader.msg>> /\ Unread = out
    BY <1>3 DEF SendEvent, Handed, Unread
  <2>2. Handed' = <<>> /\ Unread' = out /\ events' = Append(events, reader.msg)
    BY <1>3 DEF SendEvent, Handed, Unread, Reading, agent
  <2>3. <<>> \o out = out /\ Append(events, reader.msg) = events \o <<reader.msg>>
        /\ (events \o <<reader.msg>>) \o out = events \o (<<reader.msg>> \o out)
        /\ Len(Append(events, reader.msg)) = Len(events) + 1
    BY <1>1, ConcatEmptySeq, AppendIsConcat, ConcatAssociative, AppendProperties
  <2> QED
    BY <1>1, <2>1, <2>2, <2>3 DEF Live
<1> QED
  BY <1>2, <1>3

\* The reader takes something else.
LEMMA SkipLive ==
  ASSUME TypeOK, ReadResponse \/ ReadRequest
  PROVE  /\ events' = events /\ Len(events) < Len(Live) /\ Live[Len(events) + 1] = Head(out)
         /\ Len(Live') = Len(Live) - 1
         /\ \A p \in 1 .. Len(Live) - 1 : Live'[p] = IF p <= Len(events) THEN Live[p] ELSE Live[p + 1]
<1>1. events \in Seq(Message) /\ out \in Seq(Message) /\ out # <<>> /\ Len(events) \in Nat
  BY LenProperties DEF TypeOK, ReadResponse, ReadRequest
<1>2. Handed = <<>> /\ Unread = out /\ Handed' = <<>> /\ Unread' = Tail(out) /\ events' = events
  BY DEF ReadResponse, ReadRequest, Handed, Unread, channels
<1>3. /\ Tail(out) \in Seq(Message) /\ Len(Tail(out)) = Len(out) - 1 /\ Len(out) \in Nat /\ Len(out) >= 1
      /\ \A i \in 1 .. Len(Tail(out)) : Tail(out)[i] = out[i + 1]
  BY <1>1, HeadTailProperties, LenProperties, EmptySeq
<1>4. Live = events \o out /\ Live' = events \o Tail(out)
  BY <1>1, <1>2, <1>3, ConcatEmptySeq DEF Live
<1>5. /\ Len(Live) = Len(events) + Len(out)
      /\ \A i \in 1 .. Len(events) + Len(out) : Live[i] = IF i <= Len(events) THEN events[i] ELSE out[i - Len(events)]
  BY <1>1, <1>4, ConcatProperties
<1> DEFINE r == Tail(out)
<1> HIDE DEF r
<1>6. r \in Seq(Message) /\ Len(r) = Len(out) - 1 /\ \A i \in 1 .. Len(r) : r[i] = out[i + 1]
  BY <1>3 DEF r
<1>7. /\ Len(Live') = Len(events) + Len(r)
      /\ \A i \in 1 .. Len(events) + Len(r) : Live'[i] = IF i <= Len(events) THEN events[i] ELSE r[i - Len(events)]
  <2>1. Live' = events \o r
    BY <1>4 DEF r
  <2> QED
    BY <1>1, <1>6, <2>1, ConcatProperties
<1>8. ASSUME NEW p \in 1 .. Len(Live) - 1
      PROVE  Live'[p] = IF p <= Len(events) THEN Live[p] ELSE Live[p + 1]
  <2>1. p \in 1 .. Len(events) + Len(r) /\ p \in 1 .. Len(events) + Len(out) /\ p + 1 \in 1 .. Len(events) + Len(out)
    BY <1>1, <1>3, <1>5, <1>6, <1>8
  <2>2. CASE p <= Len(events)
    BY <1>5, <1>7, <2>1, <2>2
  <2>3. CASE ~(p <= Len(events))
    <3>1. p - Len(events) \in 1 .. Len(r) /\ p + 1 - Len(events) = p - Len(events) + 1
      BY <1>1, <1>3, <1>6, <2>1, <2>3
    <3>2. Live'[p] = r[p - Len(events)] /\ Live[p + 1] = out[p + 1 - Len(events)]
      BY <1>1, <1>5, <1>7, <2>1, <2>3
    <3> QED
      BY <2>3, <3>1, <3>2, <1>6
  <2> QED
    BY <2>2, <2>3
<1>9. Live[Len(events) + 1] = out[1] /\ Head(out) = out[1]
  BY <1>1, <1>3, <1>5
<1> QED
  BY <1>1, <1>2, <1>3, <1>5, <1>6, <1>7, <1>8, <1>9

\* A goroutine takes the first event.
LEMMA TakeLive ==
  ASSUME TypeOK, events # <<>>, events' = Tail(events), reader' = reader, out' = out
  PROVE  /\ Live' = Tail(Live) /\ Live # <<>> /\ Head(Live) = Head(events) /\ Live[1] = Head(events)
         /\ Len(events') = Len(events) - 1 /\ Len(events) >= 1 /\ Len(Live') = Len(Live) - 1
         /\ \A p \in 1 .. Len(Live) - 1 : Live'[p] = Live[p + 1]
<1>1. Handed' = Handed /\ Unread' = Unread
  BY DEF Handed, Unread
<1>2. events \in Seq(Message) /\ Handed \o Unread \in Seq(Message) /\ Live \in Seq(Message)
  BY LiveType
<1> DEFINE rest == Handed \o Unread
<1>3. Tail(events) \o rest = Tail(events \o rest) /\ events \o rest # <<>> /\ Head(events \o rest) = Head(events)
  BY <1>2, TailOfConcat
<1>4. Live' = Tail(Live) /\ Live # <<>> /\ Head(Live) = Head(events)
  BY <1>1, <1>3 DEF Live
<1>5. Len(Tail(events)) = Len(events) - 1 /\ Len(events) >= 1
  BY <1>2, HeadTailProperties, EmptySeq
<1>6. /\ Len(Tail(Live)) = Len(Live) - 1
      /\ \A i \in 1 .. Len(Tail(Live)) : Tail(Live)[i] = Live[i + 1]
  BY <1>2, <1>4, HeadTailProperties
<1>7. Head(Live) = Live[1]
  BY <1>2, <1>4
<1> QED
  BY <1>4, <1>5, <1>6, <1>7

\* The rest is lost.
LEMMA CutLive ==
  ASSUME TypeOK, Reap \/ ReaderEnds
  PROVE  /\ events' = events /\ Len(Live') \in Nat /\ Len(events) <= Len(Live') /\ Len(Live') <= Len(Live)
         /\ \A p \in 1 .. Len(Live') : Live'[p] = Live[p]
<1>1. /\ events \in Seq(Message) /\ Handed \in Seq(Message) /\ Unread \in Seq(Message)
      /\ Handed \o Unread \in Seq(Message)
  BY LiveType
<1>2. events' = events
  BY DEF Reap, ReaderEnds, channels
<1>3. \/ Handed' = Handed /\ Unread' = Unread
      \/ Handed' = Handed /\ Unread' = <<>>
      \/ Handed' = <<>> /\ Unread' = <<>>
  BY DEF Reap, ReaderEnds, channels, Handed, Unread, Reading
<1>e. <<>> \in Seq(Message)
  OBVIOUS
<1> DEFINE rest == Handed \o Unread
           kept == Handed' \o Unread'
<1>4. /\ kept \in Seq(Message) /\ Len(kept) \in Nat /\ Len(rest) \in Nat /\ Len(kept) <= Len(rest)
      /\ \A p \in 1 .. Len(kept) : kept[p] = rest[p]
  <2>1. CASE kept = rest
    BY <1>1, <2>1, LenProperties
  <2>2. CASE kept = <<>>
    BY <1>1, <2>2, LenProperties
  <2>3. CASE kept = Handed
    <3>1. /\ Len(rest) = Len(Handed) + Len(Unread) /\ Len(Handed) \in Nat /\ Len(Unread) \in Nat
          /\ \A p \in 1 .. Len(Handed) + Len(Unread) :
               rest[p] = IF p <= Len(Handed) THEN Handed[p] ELSE Unread[p - Len(Handed)]
      BY <1>1, ConcatProperties, LenProperties
    <3> HIDE DEF rest, kept
    <3> QED
      BY <1>1, <2>3, <3>1
  <2>4. kept = rest \/ kept = <<>> \/ kept = Handed
    BY <1>1, <1>3, <1>e, ConcatEmptySeq
  <2> QED
    BY <2>1, <2>2, <2>3, <2>4
<1>5. Live = events \o rest /\ Live' = events \o kept /\ rest \in Seq(Message)
  BY <1>1, <1>2 DEF Live
<1> HIDE DEF rest, kept
<1>6. /\ Len(Live) = Len(events) + Len(rest) /\ Len(events) \in Nat
      /\ \A i \in 1 .. Len(events) + Len(rest) : Live[i] = IF i <= Len(events) THEN events[i] ELSE rest[i - Len(events)]
  BY <1>1, <1>5, ConcatProperties, LenProperties
<1>7. /\ Len(Live') = Len(events) + Len(kept)
      /\ \A i \in 1 .. Len(events) + Len(kept) : Live'[i] = IF i <= Len(events) THEN events[i] ELSE kept[i - Len(events)]
  BY <1>1, <1>4, <1>5, ConcatProperties
<1>8. \A p \in 1 .. Len(Live') : Live'[p] = Live[p]
  <2> SUFFICES ASSUME NEW p \in 1 .. Len(Live') PROVE Live'[p] = Live[p]
    OBVIOUS
  <2>1. p \in 1 .. Len(events) + Len(kept) /\ p \in 1 .. Len(events) + Len(rest)
    BY <1>4, <1>6, <1>7
  <2>2. CASE p <= Len(events)
    BY <1>6, <1>7, <2>1, <2>2
  <2>3. CASE ~(p <= Len(events))
    <3>1. p - Len(events) \in 1 .. Len(kept)
      BY <1>4, <1>6, <2>1, <2>3
    <3> QED
      BY <1>4, <1>6, <1>7, <2>1, <2>3, <3>1
  <2> QED
    BY <2>2, <2>3
<1> QED
  BY <1>2, <1>4, <1>6, <1>7, <1>8

\* The agent tells something.
LEMMA TellLive ==
  ASSUME TypeOK, NEW m \in Message, Tells(m), events' = events, reader' = reader
  PROVE  Live' = IF reader.pc = "ended" THEN Live ELSE Append(Live, m)
<1>1. events \in Seq(Message) /\ Handed \in Seq(Message) /\ Unread \in Seq(Message) /\ Handed \o Unread \in Seq(Message)
  BY LiveType
<1>2. Handed' = Handed
  BY DEF Handed
<1>3. CASE reader.pc = "ended"
  BY <1>2, <1>3 DEF Live, Unread
<1>4. CASE reader.pc # "ended"
  <2>1. Unread' = Append(Unread, m)
    BY <1>4 DEF Unread, Tells
  <2>2. Handed \o Append(Unread, m) = Append(Handed \o Unread, m)
    BY <1>1, AppendToConcat
  <2>3. events \o Append(Handed \o Unread, m) = Append(events \o (Handed \o Unread), m)
    BY <1>1, AppendToConcat
  <2> QED
    BY <1>2, <1>4, <2>1, <2>2, <2>3 DEF Live
<1> QED
  BY <1>3, <1>4

-----------------------------------------------------------------------------
(* The goroutines and their turns *)

LEMMA ListsOfCalls ==
  ASSUME NEW s \in Seq(Ops), s \in Seq(Turns) \/ s \in Seq(Ops \ Turns), s # <<>>
  PROVE  /\ Tail(s) \in Seq(Turns) \/ Tail(s) \in Seq(Ops \ Turns)
         /\ s \in Seq(Ops \ Prompting) => Tail(s) \in Seq(Ops \ Prompting)
         /\ Tail(s) # <<>> /\ Head(Tail(s)) \in Turns => Head(s) \in Turns
<1>1. CASE s \in Seq(Turns)
  BY <1>1, HeadTailProperties
<1>2. CASE s \in Seq(Ops \ Turns)
  <2>1. Tail(s) \in Seq(Ops \ Turns)
    BY <1>2, HeadTailProperties
  <2>2. Tail(s) # <<>> => Head(Tail(s)) \notin Turns
    BY <2>1, HeadTailProperties
  <2> QED
    BY <2>1, <2>2, HeadTailProperties
<1> QED
  BY <1>1, <1>2

LEMMA NextTurn == IInv /\ TurnInv /\ [Next]_vars => TurnInv'
<1> SUFFICES ASSUME IInv, TurnInv, [Next]_vars PROVE TurnInv'
  OBVIOUS
<1>c. Callers = {"worker", "input"} /\ "free" \notin Callers
  BY DEF Callers
<1>1. ASSUME NEW c \in Callers, CallerStep(c) PROVE TurnInv'
  <2>1. /\ Others(c) /\ UNCHANGED provider
        /\ Locks(c) \/ Registers(c) \/ Moves(c) \/ GoesOn(c) \/ Returns(c)
    BY <1>1, CallerEffect
  <2>t. caller[c].todo \in Seq(Ops) /\ (caller[c].todo \in Seq(Turns) \/ caller[c].todo \in Seq(Ops \ Turns))
    BY AheadFacts DEF TurnInv
  <2>b. caller[c].todo # <<>>
    <3>1. Busy(c)
      BY <2>1 DEF Locks, Registers, Moves, GoesOn, Returns, Busy, InCall
    <3> QED
      BY <3>1 DEF IInv, CallerInv
  <2>2. /\ caller'[c].todo \in Seq(Turns) \/ caller'[c].todo \in Seq(Ops \ Turns)
        /\ provider # "copilot" => caller'[c].todo \in Seq(Ops \ Prompting)
    <3>1. CASE Locks(c)
      <4>1. caller[c].todo \in Seq(Turns) /\ <<"ide">> \in Seq(Turns)
        BY <3>1 DEF Locks, TurnInv, Turns, Prompting
      <4>2. <<"ide">> \o caller[c].todo \in Seq(Turns)
        BY <4>1, ConcatProperties
      <4>3. \/ caller'[c].todo = <<"ide">> \o caller[c].todo /\ provider = "copilot"
            \/ caller'[c].todo = caller[c].todo
        BY <3>1 DEF Locks
      <4> QED
        BY <4>1, <4>2, <4>3 DEF TurnInv
    <3>2. CASE Registers(c) \/ Moves(c)
      BY <3>2 DEF Registers, Moves, TurnInv
    <3>3. CASE GoesOn(c)
      BY <3>3, <2>t, <2>b, ListsOfCalls DEF GoesOn, TurnInv
    <3>4. CASE Returns(c)
      BY <3>4 DEF Returns
    <3> QED
      BY <2>1, <3>1, <3>2, <3>3, <3>4
  <2>3. (caller'[c].pc = "call" \/ InCall(c)') /\ Op(c)' \in Turns => turnMu' = c
    <3>1. CASE Locks(c)
      BY <3>1 DEF Locks
    <3>2. CASE Registers(c) \/ Moves(c)
      BY <3>2 DEF Registers, Moves, TurnInv, Op, InCall
    <3>3. CASE GoesOn(c)
      <4>1. Tail(caller[c].todo) # <<>> /\ Op(c)' = Head(Tail(caller[c].todo))
        BY <3>3, <2>t, LongTail DEF GoesOn, Op
      <4>2. Op(c)' \in Turns => Op(c) \in Turns
        BY <4>1, <2>t, <2>b, ListsOfCalls DEF Op
      <4> QED
        BY <3>3, <4>2 DEF GoesOn, TurnInv
    <3>4. CASE Returns(c)
      BY <3>4 DEF Returns, InCall
    <3> QED
      BY <2>1, <3>1, <3>2, <3>3, <3>4
  <2>4. \A d \in Callers \ {c} : turnMu = d => turnMu' = d
    <3>1. CASE Returns(c)
      <4>1. caller[c].pc = "read" => turnMu = c
        BY DEF IInv, CountInv, TurnInv, InCall, Turns
      <4> QED
        BY <3>1, <4>1 DEF Returns
    <3> QED
      BY <2>1, <3>1, <1>c DEF Locks, Registers, Moves, GoesOn
  <2>5. caller'[c].pc # "lock"
    BY <2>1 DEF Locks, Registers, Moves, GoesOn, Returns
  <2>6. caller'[c].pc = "drain" => Op(c)' \in Prompting
    <3>1. caller'[c].pc = "drain" => Moves(c)
      BY <2>1 DEF Locks, Registers, Moves, GoesOn, Returns
    <3> QED
      BY <3>1 DEF Moves, Op, TurnInv
  <2>7. \A d \in Callers \ {c} : caller'[d] = caller[d] /\ Op(d)' = Op(d) /\ (InCall(d)' => InCall(d))
    BY <2>1 DEF Others, Op, InCall
  <2>8. /\ caller'[c].todo \in Seq(Turns) \/ caller'[c].todo \in Seq(Ops \ Turns)
        /\ provider' # "copilot" => caller'[c].todo \in Seq(Ops \ Prompting)
        /\ caller'[c].pc = "lock" => caller'[c].todo \in Seq(Turns)
    BY <2>1, <2>2, <2>5
  <2> QED
    BY <2>1, <2>3, <2>4, <2>6, <2>7, <2>8 DEF TurnInv
<1>2. ASSUME NEW c \in Callers, Begins(c),
             caller'[c].todo \in Seq(Turns) \/ caller'[c].todo \in Seq(Ops \ Turns),
             provider # "copilot" => caller'[c].todo \in Seq(Ops \ Prompting),
             IF caller'[c].pc = "lock" THEN caller'[c].todo \in Seq(Turns) ELSE Op(c)' \notin Turns
      PROVE  TurnInv'
  <2>1. Others(c) /\ UNCHANGED <<turnMu, provider>> /\ ~InCall(c)' /\ caller'[c].pc # "drain"
    BY <1>2 DEF Begins, InCall
  <2>2. \A d \in Callers \ {c} : caller'[d] = caller[d] /\ Op(d)' = Op(d) /\ (InCall(d)' => InCall(d))
    BY <2>1 DEF Others, Op, InCall
  <2>3. caller'[c].pc = "lock" => caller'[c].pc # "call"
    OBVIOUS
  <2> QED
    BY <1>2, <2>1, <2>2, <2>3 DEF TurnInv
<1>3. CASE StartSession
  <2>1. /\ Begins("worker") /\ "worker" \in Callers
        /\ caller'["worker"].pc = "call" /\ caller'["worker"].todo = <<"initialize", "new">>
    BY <1>3, <1>c, StartEffect
  <2>2. /\ <<"initialize", "new">> \in Seq(Ops \ Turns) /\ <<"initialize", "new">> \in Seq(Ops \ Prompting)
        /\ "initialize" \notin Turns
    BY DEF Ops, Turns, Prompting
  <2>3. Op("worker")' = "initialize"
    BY <2>1 DEF Op
  <2> QED
    BY <1>2, <2>1, <2>2, <2>3
<1>4. CASE RunTurn \/ SetModel
  <2>1. PICK c \in Callers, steps \in Seq(Ops) :
          /\ Enter(c, steps) /\ steps # <<>>
          /\ provider # "copilot" => steps \in Seq(Ops \ Prompting)
          /\ steps = <<"settings">> \/ steps \in Seq(Turns)
    BY <1>4, OperationEffect
  <2>2. Begins(c) /\ caller'[c].todo = steps /\ caller'[c].pc = IF steps = <<"settings">> THEN "call" ELSE "lock"
    BY <2>1, EnterEffect
  <2>3. CASE steps = <<"settings">>
    <3>1. <<"settings">> \in Seq(Ops \ Turns) /\ "settings" \notin Turns
      BY DEF Ops, Turns, Prompting
    <3>2. Op(c)' = "settings" /\ caller'[c].pc = "call"
      BY <2>2, <2>3 DEF Op
    <3> QED
      BY <1>2, <2>1, <2>2, <2>3, <3>1, <3>2
  <2>4. CASE steps # <<"settings">>
    BY <1>2, <2>1, <2>2, <2>4
  <2> QED
    BY <2>3, <2>4
<1>5. CASE Close \/ Closed
  <2>1. Closes
    BY <1>5, CloseEffect
  <2>2. \A d \in Callers : caller'[d].pc \in {"idle", "close"} /\ (caller'[d].todo = caller[d].todo \/ caller'[d].todo = <<>>)
    BY <2>1, <1>c DEF Closes, Others
  <2>3. <<>> \in Seq(Turns) /\ <<>> \in Seq(Ops \ Prompting) /\ provider' = provider
    BY <2>1 DEF Closes
  <2> QED
    BY <2>2, <2>3 DEF TurnInv, InCall
<1>6. CASE Elsewhere
  <2>1. UNCHANGED <<caller, turnMu, provider>>
    BY <1>6, ApartEffect DEF Apart
  <2> QED
    BY <2>1 DEF TurnInv, InCall, Op
<1> QED
  BY <1>1, <1>3, <1>4, <1>5, <1>6, Steps

-----------------------------------------------------------------------------
(* Steps that tell nothing new *)

\* What stays live keeps its order, and f says where it was.
Embeds(f) ==
  /\ \A p \in DOMAIN Live' : Live'[p] = Live[f[p]]
  /\ \A p, q \in DOMAIN Live' : p < q => f[p] < f[q]
  /\ \A p \in DOMAIN Live' : p > Len(events)' => f[p] > Len(events)

\* A response that is new was live, and only what came before it can be an event now.
Answers(f) ==
  \A i \in Ids : response'[i] # "none" =>
    \/ response[i] # "none"
    \/ \E k \in DOMAIN Live : /\ Live[k].kind = "response" /\ Live[k].id = i
                              /\ \A p \in DOMAIN Live' : p > Len(events)' => f[p] > k

Embedded == \E f \in [DOMAIN Live' -> DOMAIN Live] : Embeds(f) /\ Answers(f)

Quiet ==
  /\ UNCHANGED <<provider, inbox, cur, said, nextID>> /\ (up => up')
  /\ \A c \in Callers : InCall(c)' =>
       /\ InCall(c) /\ caller'[c].id = caller[c].id
       /\ caller'[c].pc = "write" => caller[c].pc = "write"
       /\ caller'[c].pc = "drain" => response'[caller[c].id] # "none"
  /\ Embedded

LEMMA QuietBooks ==
  ASSUME IInv, IdInv, EndInv, Quiet
  PROVE  IdInv' /\ EndInv' /\ \A i \in Ids : Over(i) => Over(i)'
<1>1. PICK f \in [DOMAIN Live' -> DOMAIN Live] : Embeds(f) /\ Answers(f)
  BY DEF Quiet, Embedded
<1>q. /\ UNCHANGED <<provider, inbox, cur, said, nextID>> /\ (up => up')
      /\ \A c \in Callers : InCall(c)' =>
           /\ InCall(c) /\ caller'[c].id = caller[c].id
           /\ caller'[c].pc = "write" => caller[c].pc = "write"
           /\ caller'[c].pc = "drain" => response'[caller[c].id] # "none"
  BY DEF Quiet
<1>w. \A c \in Callers : caller'[c].pc = "write" => caller[c].pc = "write" /\ caller'[c].id = caller[c].id
  BY <1>q DEF InCall
<1>2. \A i : Known(i) => Known(i)'
  BY <1>q, <1>w DEF Known
<1>3. \A i : Over(i) => Over(i)'
  BY <1>2, <1>q DEF Over
<1>4. \A p \in DOMAIN Live' : f[p] \in DOMAIN Live /\ Live'[p] = Live[f[p]]
  BY <1>1 DEF Embeds
<1>5. IdInv'
  <2>1. \A p, q \in DOMAIN inbox' : p # q => inbox'[p].id # inbox'[q].id
    BY <1>q DEF IdInv
  <2>2. \A p \in DOMAIN inbox' : inbox'[p].id <= nextID' /\ (provider' = "copilot" => inbox'[p].op # "turn")
    BY <1>q DEF IdInv
  <2>3. \A c \in Callers : InCall(c)' => caller'[c].id <= nextID'
    BY <1>q DEF IdInv
  <2>4. \A c, d \in Callers : InCall(c)' /\ InCall(d)' /\ c # d => caller'[c].id # caller'[d].id
    BY <1>q DEF IdInv
  <2>5. \A c \in Callers : caller'[c].pc = "write" => \A p \in DOMAIN inbox' : inbox'[p].id # caller'[c].id
    BY <1>q, <1>w DEF IdInv
  <2>6. cur'.id # 0 => Known(cur.id)'
    BY <1>2, <1>q DEF IdInv
  <2>7. \A p \in DOMAIN Live' : Live'[p].id # 0 => Known(Live[p].id)'
    BY <1>2, <1>4 DEF IdInv
  <2>8. \A i \in Ids : said'[i] # 0 \/ response'[i] # "none" => Known(i)'
    <3> SUFFICES ASSUME NEW i \in Ids, said'[i] # 0 \/ response'[i] # "none" PROVE Known(i)
      BY <1>2
    <3>1. CASE said[i] # 0 \/ response[i] # "none"
      BY <3>1 DEF IdInv
    <3>2. CASE ~(said[i] # 0 \/ response[i] # "none")
      <4>1. \E k \in DOMAIN Live : Live[k].id = i
        BY <3>2, <1>1, <1>q DEF Answers
      <4> QED
        BY <4>1, Bounds DEF IdInv
    <3> QED
      BY <3>1, <3>2
  <2>9. ~up' => cur'.id = 0 /\ inbox' = <<>>
    BY <1>q DEF IdInv
  <2> QED
    BY <2>1, <2>2, <2>3, <2>4, <2>5, <2>6, <2>7, <2>8, <2>9 DEF IdInv
<1>6. EndInv'
  <2>1. \A p \in DOMAIN Live', i \in Ids : End(Live[p], i)' => End(Live[f[p]], i)
    BY <1>4, <1>q DEF End
  <2>2. \A p \in DOMAIN Live', i \in Ids : End(Live[p], i)' => Over(i)'
    BY <2>1, <1>3, <1>4 DEF EndInv
  <2>3. provider' # "copilot" => \A p \in DOMAIN Live', i \in Ids : End(Live[p], i)' => Live'[p].n \in {0, said'[i]}
    BY <2>1, <1>4, <1>q DEF EndInv
  <2>4. \A p, q \in DOMAIN Live', i \in Ids : p < q /\ End(Live[p], i)' => ~Chunk(Live[q], i)'
    BY <2>1, <1>1, <1>4 DEF EndInv, Embeds, Chunk
  <2>5. ASSUME provider' = "copilot", NEW i \in Ids, response'[i] # "none"
        PROVE  Over(i)' /\ \A p \in DOMAIN Live' : p > Len(events)' => ~Chunk(Live[p], i)'
    <3>1. CASE response[i] # "none"
      <4>1. Over(i) /\ \A p \in DOMAIN Live : p > Len(events) => ~Chunk(Live[p], i)
        BY <2>5, <3>1, <1>q DEF EndInv
      <4> QED
        BY <4>1, <1>1, <1>3, <1>4 DEF Embeds, Chunk
    <3>2. CASE response[i] = "none"
      <4>1. PICK k \in DOMAIN Live : /\ Live[k].kind = "response" /\ Live[k].id = i
                                     /\ \A p \in DOMAIN Live' : p > Len(events)' => f[p] > k
        BY <2>5, <3>2, <1>1 DEF Answers
      <4>2. End(Live[k], i)
        BY <4>1, <2>5, <1>q DEF End
      <4> QED
        BY <4>1, <4>2, <1>3, <1>4 DEF EndInv, Chunk
    <3> QED
      BY <3>1, <3>2
  <2>6. \A c \in Callers : caller'[c].pc = "drain" => response'[caller'[c].id] # "none"
    BY <1>q DEF InCall
  <2> QED
    BY <2>2, <2>3, <2>4, <2>5, <2>6 DEF EndInv
<1> QED
  BY <1>3, <1>5, <1>6

LEMMA SameLive ==
  ASSUME TypeOK, Live' = Live, Len(events)' \in Nat, Len(events)' >= Len(events),
         \A i \in Ids : response'[i] # "none" => response[i] # "none"
  PROVE  Embedded
<1> DEFINE f == [p \in DOMAIN Live |-> p]
<1>1. f \in [DOMAIN Live' -> DOMAIN Live] /\ \A p \in DOMAIN Live : f[p] = p
  OBVIOUS
<1>2. DOMAIN Live \subseteq Nat /\ Len(events) \in Nat
  BY LiveType
<1> HIDE DEF f
<1>3. Embeds(f)
  BY <1>1, <1>2 DEF Embeds
<1>4. Answers(f)
  BY DEF Answers
<1> QED
  BY <1>1, <1>3, <1>4 DEF Embedded

LEMMA TakeEmbedded ==
  ASSUME TypeOK, events # <<>>, events' = Tail(events), reader' = reader, out' = out,
         \A i \in Ids : response'[i] # "none" => response[i] # "none"
  PROVE  Embedded
<1>1. /\ Len(events') = Len(events) - 1 /\ Len(events) >= 1 /\ Len(Live') = Len(Live) - 1
      /\ \A p \in 1 .. Len(Live) - 1 : Live'[p] = Live[p + 1]
  BY TakeLive
<1>2. Len(Live) \in Nat /\ Len(events) \in Nat /\ DOMAIN Live = 1 .. Len(Live)
  BY LiveType
<1>3. DOMAIN Live' = 1 .. Len(Live) - 1
  <2>1. Live \in Seq(Message) /\ Live # <<>> /\ Live' = Tail(Live)
    BY LiveType, TakeLive
  <2>2. Live' \in Seq(Message)
    BY <2>1, HeadTailProperties
  <2> QED
    BY <1>1, <2>2, LenProperties
<1> DEFINE f == [p \in 1 .. Len(Live) - 1 |-> p + 1]
<1>4. f \in [DOMAIN Live' -> DOMAIN Live] /\ \A p \in DOMAIN Live' : f[p] = p + 1
  BY <1>2, <1>3
<1> HIDE DEF f
<1>5. Embeds(f)
  BY <1>1, <1>2, <1>3, <1>4 DEF Embeds
<1>6. Answers(f)
  BY DEF Answers
<1> QED
  BY <1>4, <1>5, <1>6 DEF Embedded

LEMMA SkipEmbedded == ASSUME TypeOK, ReadResponse \/ ReadRequest PROVE Embedded
<1>1. /\ events' = events /\ Len(events) < Len(Live) /\ Live[Len(events) + 1] = Head(out)
      /\ Len(Live') = Len(Live) - 1
      /\ \A p \in 1 .. Len(Live) - 1 : Live'[p] = IF p <= Len(events) THEN Live[p] ELSE Live[p + 1]
  BY SkipLive
<1>2. Len(Live) \in Nat /\ Len(events) \in Nat /\ DOMAIN Live = 1 .. Len(Live)
  BY LiveType
<1>3. DOMAIN Live' = 1 .. Len(Live) - 1
  <2>1. Live' = events' \o (Handed' \o Unread') /\ Handed' = <<>> /\ Unread' = Tail(out) /\ out # <<>>
    BY DEF ReadResponse, ReadRequest, Live, Handed, Unread, channels
  <2>2. Tail(out) \in Seq(Message) /\ events \in Seq(Message)
    BY <2>1, HeadTailProperties DEF TypeOK
  <2>3. Live' \in Seq(Message)
    BY <1>1, <2>1, <2>2, ConcatEmptySeq, ConcatProperties
  <2> QED
    BY <1>1, <2>3, LenProperties
<1> DEFINE f == [p \in 1 .. Len(Live) - 1 |-> IF p <= Len(events) THEN p ELSE p + 1]
<1>4. f \in [DOMAIN Live' -> DOMAIN Live] /\ \A p \in DOMAIN Live' : f[p] = IF p <= Len(events) THEN p ELSE p + 1
  BY <1>2, <1>3
<1> HIDE DEF f
<1>5. Embeds(f)
  <2>1. \A p \in DOMAIN Live' : Live'[p] = Live[f[p]]
    BY <1>1, <1>3, <1>4
  <2>2. \A p, q \in DOMAIN Live' : p < q => f[p] < f[q]
    BY <1>2, <1>3, <1>4
  <2>3. \A p \in DOMAIN Live' : p > Len(events) => f[p] > Len(events)
    BY <1>2, <1>3, <1>4
  <2> QED
    BY <2>1, <2>2, <2>3, <1>1 DEF Embeds
<1>6. Answers(f)
  <2> SUFFICES ASSUME NEW i \in Ids, response'[i] # "none", response[i] = "none"
               PROVE  \E k \in DOMAIN Live : /\ Live[k].kind = "response" /\ Live[k].id = i
                                             /\ \A p \in DOMAIN Live' : p > Len(events)' => f[p] > k
    BY DEF Answers
  <2>1. ReadResponse
    BY DEF ReadRequest, channels
  <2>2. Head(out).id = i /\ Head(out).kind = "response"
    BY <2>1 DEF ReadResponse, TypeOK
  <2>3. Len(events) + 1 \in DOMAIN Live /\ \A p \in DOMAIN Live' : p > Len(events) => f[p] > Len(events) + 1
    BY <1>1, <1>2, <1>3, <1>4
  <2> QED
    BY <2>2, <2>3, <1>1
<1> QED
  BY <1>4, <1>5, <1>6 DEF Embedded

LEMMA CutEmbedded == ASSUME TypeOK, Reap \/ ReaderEnds PROVE Embedded
<1>1. /\ events' = events /\ Len(Live') \in Nat /\ Len(events) <= Len(Live') /\ Len(Live') <= Len(Live)
      /\ \A p \in 1 .. Len(Live') : Live'[p] = Live[p]
  BY CutLive
<1>2. Len(Live) \in Nat /\ Len(events) \in Nat /\ DOMAIN Live = 1 .. Len(Live)
  BY LiveType
<1>3. DOMAIN Live' = 1 .. Len(Live')
  <2>1. out' \in Seq(Message) /\ reader' \in ReaderType
    <3>1. out' = out \/ out' = <<>>
      BY DEF Reap, ReaderEnds, agent
    <3>2. reader' = reader \/ reader' = [Reading EXCEPT !.pc = "ended"]
      BY DEF Reap, ReaderEnds, channels
    <3>3. <<>> \in Seq(Message)
      OBVIOUS
    <3>4. out' \in Seq(Message)
      BY <3>1, <3>3 DEF TypeOK
    <3>5. reader' \in ReaderType
      BY <3>2, IdleTypes DEF TypeOK
    <3> QED
      BY <3>4, <3>5
  <2>2. Handed' \in Seq(Message) /\ Unread' \in Seq(Message) /\ events' \in Seq(Message)
    BY <2>1, <1>1 DEF Handed, Unread, TypeOK, ReaderType
  <2>3. Live' \in Seq(Message)
    BY <2>2, ConcatProperties DEF Live
  <2> QED
    BY <2>3, LenProperties
<1>4. response' = response
  BY DEF Reap, ReaderEnds, channels
<1> DEFINE f == [p \in 1 .. Len(Live') |-> p]
<1>5. f \in [DOMAIN Live' -> DOMAIN Live] /\ \A p \in DOMAIN Live' : f[p] = p
  BY <1>1, <1>2, <1>3
<1> HIDE DEF f
<1>6. Embeds(f)
  BY <1>1, <1>2, <1>3, <1>5 DEF Embeds
<1>7. Answers(f)
  BY <1>4 DEF Answers
<1> QED
  BY <1>5, <1>6, <1>7 DEF Embedded

LEMMA CallIds == ASSUME IInv, NEW c \in Callers, InCall(c) PROVE caller[c].id \in Ids
<1>1. TypeOK /\ caller[c].id # 0
  BY DEF IInv, CallerInv
<1>2. caller[c].id \in 0 .. MaxCall
  BY <1>1, CallerMoves
<1> QED
  BY <1>1, <1>2, Bounds DEF Ids

\* What a goroutine that does not begin a call does to events and responses.
LEMMA CallerBooks ==
  ASSUME IInv, NEW c \in Callers, CallerStep(c), caller[c].pc # "call", ~Write(c)
  PROVE  /\ UNCHANGED <<provider, inbox, cur, said, nextID, up, reader, out, ctx, done>> /\ Others(c)
         /\ events' = events \/ (events # <<>> /\ events' = Tail(events))
         /\ \/ response' = response
            \/ /\ InCall(c) /\ caller'[c].pc # "drain"
               /\ response' = [response EXCEPT ![caller[c].id] = "none"]
         /\ InCall(c)' => /\ Moves(c)
                          /\ caller'[c].pc = "drain" => caller[c].pc = "drain" \/ response[caller[c].id] # "none"
<1>1. /\ Others(c) /\ UNCHANGED <<provider, ctx, done, up, cur>>
      /\ Locks(c) \/ Registers(c) \/ Moves(c) \/ GoesOn(c) \/ Returns(c)
  BY CallerEffect
<1>2. InCall(c)' => Moves(c)
  BY <1>1 DEF Locks, Registers, GoesOn, Returns, InCall
<1>t. caller \in [Callers -> CallerType] /\ caller[c] \in CallerType
  BY DEF IInv, TypeOK
<1>3. ~Register(c)
  BY DEF Register
<1> USE DEF client, channels, process, agent
<1>4. UNCHANGED <<inbox, said, nextID, reader, out>> /\ (events' = events \/ (events # <<>> /\ events' = Tail(events)))
  BY <1>3 DEF CallerStep, LockTurn, GiveUp, CallReturned, CallFailed, TurnStarted, CodexEvent, CopilotEvent,
     TakeResponse, FinishTurn
<1>5. CASE LockTurn(c) \/ CopilotEvent(c) \/ TakeResponse(c)
  <2>1. response' = response
    BY <1>5 DEF LockTurn, CopilotEvent, TakeResponse
  <2>2. InCall(c)' /\ caller'[c].pc = "drain" => caller[c].pc = "drain" \/ response[caller[c].id] # "none"
    BY <1>5, <1>t DEF LockTurn, CopilotEvent, TakeResponse, CallerType
  <2> QED
    BY <1>1, <1>2, <1>4, <2>1, <2>2
<1>6. CASE GiveUp(c) \/ CallReturned(c) \/ CallFailed(c) \/ FinishTurn(c)
  <2>1. /\ InCall(c) /\ nextID' = nextID
        /\ Fail(c) \/ (Succeed(c) /\ caller[c].pc \in {"wait", "drain"})
    <3>1. CASE GiveUp(c)
      BY <3>1 DEF GiveUp, InCall
    <3>2. CASE CallReturned(c)
      BY <3>2 DEF CallReturned, Answered, InCall
    <3>3. CASE CallFailed(c)
      BY <3>3 DEF CallFailed, Answered, InCall
    <3>4. CASE FinishTurn(c)
      BY <3>4 DEF FinishTurn, InCall
    <3> QED
      BY <1>6, <3>1, <3>2, <3>3, <3>4
  <2>2. GoesOn(c) \/ Returns(c)
    BY <2>1, FailEffect, SucceedEffect
  <2>3. caller'[c].pc # "drain" /\ ~InCall(c)'
    BY <2>2 DEF GoesOn, Returns, InCall
  <2>4. response' = [response EXCEPT ![caller[c].id] = "none"]
    BY <2>1 DEF Fail, Succeed
  <2> QED
    BY <1>1, <1>2, <1>4, <2>1, <2>3, <2>4
<1>7. CASE TurnStarted(c)
  <2>1. InCall(c) /\ response' = [response EXCEPT ![caller[c].id] = "none"]
    BY <1>7 DEF TurnStarted, Answered, InCall
  <2>2. caller'[c].pc = "read"
    BY <1>7, <1>t DEF TurnStarted, CallerType
  <2> QED
    BY <1>1, <1>2, <1>4, <2>1, <2>2
<1>8. CASE CodexEvent(c)
  <2>1. caller[c].pc = "read" /\ InCall(c) /\ nextID' = nextID
    BY <1>8 DEF CodexEvent, InCall
  <2>2. CASE Fail(c)
    <3>1. Returns(c) /\ response' = [response EXCEPT ![caller[c].id] = "none"]
      BY <2>1, <2>2, FailEffect DEF Fail
    <3>2. caller'[c].pc # "drain" /\ ~InCall(c)'
      BY <3>1 DEF Returns, InCall
    <3> QED
      BY <1>1, <1>2, <1>4, <2>1, <3>1, <3>2
  <2>3. CASE ~Fail(c)
    <3>1. response' = response /\ (caller' = [caller EXCEPT ![c] = Idle] \/ caller' = [caller EXCEPT ![c].text = TextOf(c, Head(events))])
      BY <1>8, <2>3 DEF CodexEvent
    <3>2. caller'[c].pc # "drain"
      BY <3>1, <2>1, <1>t, IdleTypes DEF CallerType
    <3> QED
      BY <1>1, <1>2, <1>4, <3>1, <3>2
  <2> QED
    BY <2>2, <2>3
<1> QED
  BY <1>3, <1>5, <1>6, <1>7, <1>8 DEF CallerStep

LEMMA QuietCaller ==
  ASSUME IInv, IdInv, EndInv, NEW c \in Callers, CallerStep(c), caller[c].pc # "call", ~Write(c)
  PROVE  Quiet
<1>1. /\ UNCHANGED <<provider, inbox, cur, said, nextID, up, reader, out, ctx, done>> /\ Others(c)
      /\ events' = events \/ (events # <<>> /\ events' = Tail(events))
      /\ \/ response' = response
         \/ /\ InCall(c) /\ caller'[c].pc # "drain"
            /\ response' = [response EXCEPT ![caller[c].id] = "none"]
      /\ InCall(c)' => /\ Moves(c)
                       /\ caller'[c].pc = "drain" => caller[c].pc = "drain" \/ response[caller[c].id] # "none"
  BY CallerBooks
<1>t. TypeOK /\ response \in [Ids -> {"none", "ok", "error"}]
  BY DEF IInv, TypeOK
<1>2. \A i \in Ids : response'[i] # "none" => response[i] # "none"
  BY <1>1, <1>t
<1>3. Embedded
  <2>1. CASE events' = events
    <3>1. Live' = Live /\ Len(events)' \in Nat /\ Len(events)' >= Len(events)
      BY <1>1, <1>t, <2>1, LiveType DEF Live, Handed, Unread
    <3> QED
      BY <3>1, <1>2, <1>t, SameLive
  <2>2. CASE events # <<>> /\ events' = Tail(events)
    BY <1>1, <1>2, <1>t, <2>2, TakeEmbedded
  <2> QED
    BY <1>1, <2>1, <2>2
<1>4. ASSUME NEW d \in Callers, InCall(d)'
      PROVE  /\ InCall(d) /\ caller'[d].id = caller[d].id
             /\ caller'[d].pc = "write" => caller[d].pc = "write"
             /\ caller'[d].pc = "drain" => response'[caller[d].id] # "none"
  <2>1. CASE d = c
    <3>1. Moves(c) /\ (caller'[c].pc = "drain" => caller[c].pc = "drain" \/ response[caller[c].id] # "none")
      BY <1>1, <1>4, <2>1
    <3>2. caller'[c].pc = "drain" => response' = response
      BY <1>1
    <3> QED
      BY <2>1, <3>1, <3>2 DEF Moves, EndInv
  <2>2. CASE d # c
    <3>1. caller'[d] = caller[d] /\ InCall(d)
      BY <1>1, <1>4, <2>2 DEF Others, InCall
    <3>2. InCall(c) => caller[c].id # caller[d].id
      BY <2>2, <3>1 DEF IdInv
    <3>3. InCall(c) /\ InCall(d) => caller[c].id \in Ids /\ caller[d].id \in Ids
      BY CallIds
    <3>4. caller[d].pc = "drain" => response[caller[d].id] # "none"
      BY DEF EndInv
    <3> QED
      BY <1>1, <1>t, <3>1, <3>2, <3>3, <3>4
  <2> QED
    BY <2>1, <2>2
<1> QED
  BY <1>1, <1>3, <1>4 DEF Quiet

\* The goroutines and the rest of the program, but for what the agent does.
Resting ==
  \/ StartSession \/ RunTurn \/ SetModel \/ Close \/ Closed \/ Cancel \/ CancelProcess
  \/ ReaderStep \/ ReaderEnds \/ Reap \/ HandleRequest \/ UNCHANGED vars

LEMMA QuietRest == ASSUME IInv, IdInv, EndInv, TypeOK', Resting PROVE Quiet
<1>t. TypeOK /\ response \in [Ids -> {"none", "ok", "error"}]
  BY DEF IInv, TypeOK
<1>l. Len(events) \in Nat /\ Len(events)' \in Nat
  BY <1>t, LiveType, LenProperties DEF TypeOK
<1>1. UNCHANGED <<provider, inbox, cur, said, nextID>> /\ (up => up')
  BY DEF Resting, StartSession, RunTurn, SetModel, Enter, Close, Closed, Cancel, CancelProcess, ReaderStep,
     ReadResponse, ReadRequest, ReadEvent, SendEvent, ReaderEnds, Reap, HandleRequest, vars, client, channels, agent
<1>2. \A c \in Callers : InCall(c)' => InCall(c) /\ caller'[c] = caller[c]
  <2>1. CASE StartSession
    BY <2>1, StartEffect DEF Begins, Others, InCall
  <2>2. CASE RunTurn \/ SetModel
    <3>1. PICK c \in Callers, steps \in Seq(Ops) : Enter(c, steps) /\ steps # <<>>
      BY <2>2, OperationEffect
    <3>2. Begins(c)
      BY <3>1, EnterEffect
    <3> QED
      BY <3>2 DEF Begins, Others, InCall
  <2>3. CASE Close \/ Closed
    BY <2>3, CloseEffect DEF Closes, InCall
  <2>4. CASE Elsewhere
    BY <2>4, ApartEffect DEF Apart, InCall
  <2> QED
    BY <2>1, <2>2, <2>3, <2>4 DEF Resting, Elsewhere
<1>3. \A i \in Ids : response[i] # "none" => response'[i] # "none"
  <2>1. CASE ReadResponse
    <3>1. Head(out) \in Message
      BY <2>1, <1>t DEF ReadResponse, TypeOK
    <3>2. Head(out).what \in {"ok", "error"}
      BY <2>1, <3>1 DEF ReadResponse, Message
    <3> QED
      BY <2>1, <3>2, <1>t DEF ReadResponse
  <2>2. CASE ~ReadResponse
    <3>1. response' = response
      BY <2>2 DEF Resting, StartSession, RunTurn, SetModel, Enter, Close, Closed, Cancel, CancelProcess, ReaderStep,
         ReadRequest, ReadEvent, SendEvent, ReaderEnds, Reap, HandleRequest, vars, channels
    <3> QED
      BY <3>1
  <2> QED
    BY <2>1, <2>2
<1>4. Embedded
  <2>1. CASE ReadResponse \/ ReadRequest
    BY <2>1, <1>t, SkipEmbedded
  <2>2. CASE Reap \/ ReaderEnds
    BY <2>2, <1>t, CutEmbedded
  <2>3. CASE ReadEvent \/ SendEvent
    <3>1. response' = response
      BY <2>3 DEF ReadEvent, SendEvent
    <3> QED
      BY <2>3, <3>1, <1>t, <1>l, HandLive, SameLive
  <2>4. CASE StartSession \/ RunTurn \/ SetModel \/ Close \/ Closed \/ Cancel \/ CancelProcess \/ HandleRequest
             \/ UNCHANGED vars
    <3>1. UNCHANGED <<channels, out>>
      BY <2>4 DEF StartSession, RunTurn, SetModel, Enter, Close, Closed, Cancel, CancelProcess, HandleRequest, vars, agent
    <3>2. Live' = Live /\ Len(events)' >= Len(events) /\ response' = response
      BY <3>1, <1>l DEF channels, Live, Handed, Unread
    <3> QED
      BY <3>2, <1>l, <1>t, SameLive
  <2> QED
    BY <2>1, <2>2, <2>3, <2>4 DEF Resting, ReaderStep
<1>5. ASSUME NEW c \in Callers, InCall(c)'
      PROVE  /\ InCall(c) /\ caller'[c].id = caller[c].id
             /\ caller'[c].pc = "write" => caller[c].pc = "write"
             /\ caller'[c].pc = "drain" => response'[caller[c].id] # "none"
  <2>1. InCall(c) /\ caller'[c] = caller[c]
    BY <1>2, <1>5
  <2>2. caller[c].id \in Ids
    BY <2>1, CallIds
  <2>3. caller[c].pc = "drain" => response[caller[c].id] # "none"
    BY DEF EndInv
  <2> QED
    BY <2>1, <2>2, <2>3, <1>3
<1> QED
  BY <1>1, <1>4, <1>5 DEF Quiet

-----------------------------------------------------------------------------
(* Steps that tell or begin something *)

LEMMA AddLive ==
  ASSUME TypeOK, NEW m \in Message, Live' = Append(Live, m)
  PROVE  /\ DOMAIN Live' = 1 .. Len(Live) + 1 /\ Len(Live') = Len(Live) + 1
         /\ \A p \in DOMAIN Live : p \in DOMAIN Live' /\ Live'[p] = Live[p]
         /\ Len(Live) + 1 \in DOMAIN Live' /\ Live'[Len(Live) + 1] = m
         /\ \A p \in DOMAIN Live' : p \in DOMAIN Live \/ p = Len(Live) + 1
<1>1. Live \in Seq(Message) /\ Len(Live) \in Nat /\ DOMAIN Live = 1 .. Len(Live)
  BY LiveType
<1> DEFINE L == Live
           M == Append(L, m)
<1>2. /\ M \in Seq(Message) /\ Len(M) = Len(L) + 1 /\ M[Len(L) + 1] = m
      /\ \A p \in 1 .. Len(L) : M[p] = L[p]
  BY <1>1, AppendProperties
<1>3. DOMAIN M = 1 .. Len(L) + 1
  BY <1>2, LenProperties
<1> QED
  BY <1>1, <1>2, <1>3

\* The agent takes calls in their order, or is gone.
LEMMA InboxStays ==
  ASSUME IInv, IdInv, UNCHANGED <<caller, nextID, provider>>,
         inbox' = inbox \/ inbox' = <<>> \/ (inbox # <<>> /\ inbox' = Tail(inbox))
  PROVE  /\ \A p, q \in DOMAIN inbox' : p # q => inbox'[p].id # inbox'[q].id
         /\ \A p \in DOMAIN inbox' : inbox'[p].id <= nextID' /\ (provider' = "copilot" => inbox'[p].op # "turn")
         /\ \A c \in Callers : caller'[c].pc = "write" => \A p \in DOMAIN inbox' : inbox'[p].id # caller'[c].id
         /\ \A i : Known(i) => Known(i)'
         /\ \A p \in DOMAIN inbox' : \E q \in DOMAIN inbox : inbox'[p] = inbox[q]
<1>1. inbox \in Seq(Call) /\ Len(inbox) \in Nat /\ DOMAIN inbox = 1 .. Len(inbox)
  BY LenProperties DEF IInv, TypeOK
<1>2. CASE inbox' = inbox
  BY <1>2 DEF IdInv, Known
<1>3. CASE inbox' = <<>>
  BY <1>3 DEF IdInv, Known
<1>4. CASE inbox # <<>> /\ inbox' = Tail(inbox)
  <2>1. DOMAIN inbox' = 1 .. Len(inbox) - 1 /\ \A p \in 1 .. Len(inbox) - 1 : inbox'[p] = inbox[p + 1]
    BY <1>1, <1>4, HeadTailProperties, LenProperties
  <2>2. \A p \in DOMAIN inbox' : p + 1 \in DOMAIN inbox /\ inbox'[p] = inbox[p + 1]
    BY <1>1, <2>1
  <2>3. \A p, q \in DOMAIN inbox' : p # q => p + 1 # q + 1
    BY <1>1, <2>1
  <2> QED
    BY <2>2, <2>3 DEF IdInv, Known
<1> QED
  BY <1>2, <1>3, <1>4

\* The agent tells m, or the reader does not hear it.
LEMMA AgentBooks ==
  ASSUME IInv, IdInv, EndInv, NEW m \in Message, Live' = Live \/ Live' = Append(Live, m),
         UNCHANGED <<caller, nextID, provider, events, response>>,
         inbox' = inbox \/ inbox' = <<>> \/ (inbox # <<>> /\ inbox' = Tail(inbox)),
         m.id # 0 => Known(m.id)',
         \A i \in Ids : Over(i) => Over(i)',
         \A i \in Ids : End(m, i) => Over(i)' /\ (provider # "copilot" => m.n \in {0, said'[i]}),
         \A i \in Ids : Chunk(m, i) => ~Over(i),
         \A i \in Ids : said'[i] # said[i] => ~Over(i) /\ Known(i)',
         cur'.id # 0 => Known(cur.id)',
         ~up' => cur'.id = 0 /\ inbox' = <<>>
  PROVE  IdInv' /\ EndInv'
<1>t. TypeOK
  BY DEF IInv
<1>k. \A i : Known(i) => Known(i)'
  BY InboxStays
<1>l. /\ Len(Live) \in Nat /\ Len(events) \in Nat /\ Len(events) <= Len(Live) /\ DOMAIN Live = 1 .. Len(Live)
      /\ DOMAIN Live' \subseteq Nat
      /\ \A p \in DOMAIN Live' : (p \in DOMAIN Live /\ Live'[p] = Live[p]) \/ (p = Len(Live) + 1 /\ Live'[p] = m)
      /\ \A p \in DOMAIN Live' : p <= Len(Live) + 1
  <2>1. Len(Live) \in Nat /\ Len(events) \in Nat /\ Len(events) <= Len(Live) /\ DOMAIN Live = 1 .. Len(Live)
    BY <1>t, LiveType
  <2>2. CASE Live' = Live
    BY <2>1, <2>2
  <2>3. CASE Live' = Append(Live, m)
    BY <1>t, <2>1, <2>3, AddLive
  <2> QED
    BY <2>2, <2>3
<1>1. IdInv'
  <2>1. \A p \in DOMAIN Live' : Live'[p].id # 0 => Known(Live[p].id)'
    BY <1>k, <1>l DEF IdInv
  <2>2. \A i \in Ids : said'[i] # 0 \/ response'[i] # "none" => Known(i)'
    BY <1>k DEF IdInv
  <2>3. /\ \A c \in Callers : InCall(c)' => caller'[c].id <= nextID'
        /\ \A c, d \in Callers : InCall(c)' /\ InCall(d)' /\ c # d => caller'[c].id # caller'[d].id
    BY DEF IdInv, InCall
  <2>4. /\ \A p, q \in DOMAIN inbox' : p # q => inbox'[p].id # inbox'[q].id
        /\ \A p \in DOMAIN inbox' : inbox'[p].id <= nextID' /\ (provider' = "copilot" => inbox'[p].op # "turn")
        /\ \A c \in Callers : caller'[c].pc = "write" => \A p \in DOMAIN inbox' : inbox'[p].id # caller'[c].id
    BY InboxStays
  <2>5. (cur'.id # 0 => Known(cur.id)') /\ (~up' => cur'.id = 0 /\ inbox' = <<>>)
    OBVIOUS
  <2> QED
    BY <2>1, <2>2, <2>3, <2>4, <2>5 DEF IdInv
<1>e. \A p \in DOMAIN Live', i \in Ids : End(Live[p], i)' => IF p \in DOMAIN Live /\ Live'[p] = Live[p] THEN End(Live[p], i) ELSE End(m, i)
  BY <1>l DEF End
<1>2. EndInv'
  <2>1. \A p \in DOMAIN Live', i \in Ids : End(Live[p], i)' => Over(i)'
    BY <1>e DEF EndInv
  <2>2. provider' # "copilot" => \A p \in DOMAIN Live', i \in Ids : End(Live[p], i)' => Live'[p].n \in {0, said'[i]}
    <3> SUFFICES ASSUME provider # "copilot", NEW p \in DOMAIN Live', NEW i \in Ids, End(Live[p], i)'
                 PROVE  Live'[p].n \in {0, said'[i]}
      OBVIOUS
    <3>1. CASE p \in DOMAIN Live /\ Live'[p] = Live[p]
      <4>1. End(Live[p], i)
        BY <1>e, <3>1
      <4>2. Over(i) /\ Live[p].n \in {0, said[i]}
        BY <3>1, <4>1 DEF EndInv
      <4> QED
        BY <3>1, <4>2
    <3>2. CASE ~(p \in DOMAIN Live /\ Live'[p] = Live[p])
      BY <1>e, <1>l, <3>2
    <3> QED
      BY <3>1, <3>2
  <2>3. \A p, q \in DOMAIN Live', i \in Ids : p < q /\ End(Live[p], i)' => ~Chunk(Live[q], i)'
    <3> SUFFICES ASSUME NEW p \in DOMAIN Live', NEW q \in DOMAIN Live', NEW i \in Ids, p < q, End(Live[p], i)'
                 PROVE  ~Chunk(Live'[q], i)
      BY DEF Chunk
    <3>1. p \in DOMAIN Live /\ Live'[p] = Live[p]
      BY <1>l
    <3>2. End(Live[p], i)
      BY <1>e, <3>1
    <3>3. Over(i) /\ \A r \in DOMAIN Live : p < r => ~Chunk(Live[r], i)
      BY <3>1, <3>2 DEF EndInv
    <3> QED
      BY <3>3, <1>l
  <2>4. provider' = "copilot" =>
          \A i \in Ids : response'[i] # "none" =>
            Over(i)' /\ \A p \in DOMAIN Live' : p > Len(events)' => ~Chunk(Live[p], i)'
    <3> SUFFICES ASSUME provider = "copilot", NEW i \in Ids, response[i] # "none"
                 PROVE  Over(i)' /\ \A p \in DOMAIN Live' : p > Len(events) => ~Chunk(Live'[p], i)
      BY DEF Chunk
    <3>1. Over(i) /\ \A p \in DOMAIN Live : p > Len(events) => ~Chunk(Live[p], i)
      BY DEF EndInv
    <3> QED
      BY <3>1, <1>l
  <2>5. \A c \in Callers : caller'[c].pc = "drain" => response'[caller'[c].id] # "none"
    BY DEF EndInv
  <2> QED
    BY <2>1, <2>2, <2>3, <2>4, <2>5 DEF EndInv
<1> QED
  BY <1>1, <1>2

LEMMA ToldLive ==
  ASSUME TypeOK, NEW m \in Message, Tells(m), events' = events, reader' = reader
  PROVE  Live' = Live \/ Live' = Append(Live, m)
BY TellLive

LEMMA CurFacts ==
  ASSUME IInv, cur # NoTurn
  PROVE  cur.id \in Ids /\ cur.id # 0 /\ cur.id \in 0 .. MaxCall /\ said[cur.id] \in 0 .. MaxSaid
<1>1. cur.id \in Ids
  BY DEF IInv, AgentInv
<1>2. said \in [Ids -> 0 .. MaxSaid]
  BY DEF IInv, TypeOK
<1> QED
  BY <1>1, <1>2, Bounds

\* A message that says nothing of a turn.
LEMMA NothingSaid ==
  /\ Request \in Message /\ Request.id = 0 /\ \A i \in Ids : ~End(Request, i) /\ ~Chunk(Request, i)
  /\ Event(0, "note", 0) \in Message /\ Event(0, "note", 0).id = 0
  /\ \A i \in Ids : ~End(Event(0, "note", 0), i) /\ ~Chunk(Event(0, "note", 0), i)
<1>1. Request \in Message /\ Event(0, "note", 0) \in Message
  BY MessageTypes, Bounds
<1> QED
  BY <1>1, Bounds DEF Request, Event, End, Chunk

LEMMA AgentStepBooks ==
  ASSUME IInv, IdInv, EndInv, AgentStep \/ AgentNotes \/ AgentDies
  PROVE  IdInv' /\ EndInv' /\ (\A i : Known(i) => Known(i)') /\ (\A i \in Ids : Over(i) => Over(i)')
<1>t. TypeOK
  BY DEF IInv
<1>u. UNCHANGED <<caller, nextID, provider, events, response, reader>>
  BY DEF AgentStep, AgentTakes, AgentSays, AgentAsks, AgentEnds, AgentNotes, AgentDies, client, channels
<1>i. inbox' = inbox \/ inbox' = <<>> \/ (inbox # <<>> /\ inbox' = Tail(inbox))
  BY DEF AgentStep, AgentTakes, AgentSays, AgentAsks, AgentEnds, AgentNotes, AgentDies
<1>k. \A i : Known(i) => Known(i)'
  BY <1>u, <1>i, InboxStays
<1>n. NoTurn.id = 0 /\ 0 \notin Ids
  BY Bounds DEF NoTurn
<1>1. CASE AgentTakes
  <2>0. PICK call : call = Head(inbox)
    OBVIOUS
  <2>1. inbox \in Seq(Call) /\ inbox # <<>> /\ inbox' = Tail(inbox) /\ said' = said /\ up' = up
    BY <1>1, <1>t DEF AgentTakes, TypeOK
  <2>2. /\ call \in Call /\ 1 \in DOMAIN inbox /\ call = inbox[1]
        /\ \A p \in DOMAIN inbox' : p + 1 \in DOMAIN inbox /\ p + 1 # 1 /\ inbox'[p] = inbox[p + 1]
    <3>1. /\ Head(inbox) \in Call /\ Tail(inbox) \in Seq(Call) /\ Len(Tail(inbox)) = Len(inbox) - 1 /\ Len(inbox) \in Nat
          /\ \A p \in 1 .. Len(Tail(inbox)) : Tail(inbox)[p] = inbox[p + 1]
      BY <2>1, HeadTailProperties, LenProperties
    <3>2. DOMAIN inbox = 1 .. Len(inbox) /\ Len(inbox) >= 1 /\ DOMAIN Tail(inbox) = 1 .. Len(inbox) - 1
      BY <2>1, <3>1, EmptySeq, LenProperties
    <3> QED
      BY <2>0, <2>1, <3>1, <3>2
  <2>3. call.id \in Ids /\ call.id \in 0 .. MaxCall /\ call.id # 0
    BY <2>2, Bounds DEF Call
  <2>4. Known(call.id)' /\ ~Known(call.id)
    <3>1. call.id <= nextID /\ (\A p \in DOMAIN inbox' : inbox'[p].id # call.id)
      BY <2>2 DEF IdInv
    <3>2. \A c \in Callers : caller[c].pc = "write" => caller[c].id # call.id
      BY <2>2 DEF IdInv
    <3> QED
      BY <2>2, <2>3, <3>1, <3>2, <1>u DEF Known
  <2>5. cur' = cur \/ cur' = call
    BY <1>1, <2>0 DEF AgentTakes
  <2>6. \A i \in Ids : Over(i) => Over(i)'
    BY <1>k, <2>4, <2>5 DEF Over
  <2>7. cur'.id # 0 => Known(cur.id)'
    BY <1>k, <2>4, <2>5 DEF IdInv
  <2>8. ~up' => cur'.id = 0 /\ inbox' = <<>>
    BY <2>1 DEF IdInv
  <2>9. \/ UNCHANGED out
        \/ /\ cur' = cur \/ call.op = "turn"
           /\ \E what \in {"ok", "error"} : Tells(Response(call.id, what))
    BY <1>1, <2>0 DEF AgentTakes
  <2>10. CASE UNCHANGED out
    <3>1. Live' = Live
      BY <2>10, <1>u DEF Live, Handed, Unread
    <3> QED
      BY <3>1, <1>u, <1>i, <1>k, <2>1, <2>6, <2>7, <2>8, NothingSaid, AgentBooks
  <2>11. ASSUME cur' = cur \/ call.op = "turn", NEW what \in {"ok", "error"}, Tells(Response(call.id, what))
         PROVE  IdInv' /\ EndInv'
    <3>0. PICK m : m = Response(call.id, what)
      OBVIOUS
    <3>1. m \in Message /\ m.id = call.id /\ m.kind = "response"
      BY <2>3, <3>0, MessageTypes DEF Response
    <3>2. Tells(m)
      BY <2>11, <3>0
    <3>3. Live' = Live \/ Live' = Append(Live, m)
      BY <3>1, <3>2, <1>t, <1>u, ToldLive
    <3>4. \A i \in Ids : ~Chunk(m, i)
      BY <3>1 DEF Chunk
    <3>5. \A i \in Ids : End(m, i) => Over(i)' /\ provider = "copilot"
      <4>1. \A i \in Ids : End(m, i) => i = call.id /\ provider = "copilot"
        BY <3>1 DEF End
      <4>2. provider = "copilot" => call.op # "turn"
        BY <2>2 DEF IdInv
      <4>3. cur.id # call.id
        BY <2>3, <2>4 DEF IdInv
      <4> QED
        BY <4>1, <4>2, <4>3, <2>4, <2>11 DEF Over
    <3> QED
      BY <3>1, <3>3, <3>4, <3>5, <1>u, <1>i, <2>1, <2>4, <2>6, <2>7, <2>8, AgentBooks
  <2> QED
    BY <1>k, <2>6, <2>9, <2>10, <2>11
<1>2. CASE AgentSays
  <2>1. cur # NoTurn /\ inbox' = inbox /\ cur' = cur /\ up' = up /\ up
    BY <1>2 DEF AgentSays, Works, Tells
  <2>2. cur.id \in Ids /\ cur.id # 0 /\ cur.id \in 0 .. MaxCall /\ said[cur.id] \in 0 .. MaxSaid
    BY <2>1, CurFacts
  <2>3. Known(cur.id)
    BY <2>2 DEF IdInv
  <2> DEFINE n == said[cur.id] + 1
  <2>n. n \in 0 .. MaxSaid /\ n # 0
    BY <1>2, <2>2, Bounds DEF AgentSays
  <2>4. Tells(Event(cur.id, "said", n)) /\ said' = [said EXCEPT ![cur.id] = n]
    BY <1>2 DEF AgentSays
  <2> HIDE DEF n
  <2>m. PICK m : m = Event(cur.id, "said", n)
    OBVIOUS
  <2>5. m \in Message /\ m.id = cur.id /\ m.what = "said" /\ m.kind = "event"
    BY <2>2, <2>m, <2>n, MessageTypes DEF Event
  <2>6. Live' = Live \/ Live' = Append(Live, m)
    BY <2>4, <2>5, <2>m, <1>t, <1>u, ToldLive
  <2>7. \A i \in Ids : ~End(m, i) /\ (Chunk(m, i) => ~Over(i))
    BY <2>5 DEF End, Chunk, Over
  <2>8. \A i \in Ids : said'[i] # said[i] => ~Over(i) /\ Known(i)'
    <3>1. \A i \in Ids : said'[i] # said[i] => i = cur.id
      BY <2>4, <1>t DEF TypeOK
    <3> QED
      BY <3>1, <2>3, <1>k DEF Over
  <2>9. \A i \in Ids : Over(i) => Over(i)'
    BY <1>k, <2>1 DEF Over
  <2>10. Known(cur.id)' /\ Known(m.id)'
    <3>1. PICK j : j = cur.id
      OBVIOUS
    <3>2. Known(j)' /\ cur'.id = j /\ m.id = j
      BY <1>k, <2>1, <2>3, <2>5, <3>1
    <3> QED
      BY <3>2
  <2> QED
    BY <2>1, <2>5, <2>6, <2>7, <2>8, <2>9, <2>10, <1>k, <1>u, <1>i, AgentBooks
<1>3. CASE AgentAsks \/ AgentNotes
  <2>1. UNCHANGED <<inbox, cur, up, said>>
    BY <1>3 DEF AgentAsks, AgentNotes
  <2>2. \A i \in Ids : Over(i) => Over(i)'
    BY <1>k, <2>1 DEF Over
  <2>3. (cur'.id # 0 => Known(cur.id)') /\ (~up' => cur'.id = 0 /\ inbox' = <<>>)
    BY <1>k, <2>1 DEF IdInv
  <2>4. CASE AgentAsks
    <3>1. Live' = Live \/ Live' = Append(Live, Request)
      BY <2>4, <1>t, <1>u, NothingSaid, ToldLive DEF AgentAsks
    <3> QED
      BY <3>1, <1>u, <1>i, <1>k, <2>1, <2>2, <2>3, NothingSaid, AgentBooks
  <2>5. CASE AgentNotes
    <3>1. Live' = Live \/ Live' = Append(Live, Event(0, "note", 0))
      BY <2>5, <1>t, <1>u, NothingSaid, ToldLive DEF AgentNotes
    <3> QED
      BY <3>1, <1>u, <1>i, <1>k, <2>1, <2>2, <2>3, NothingSaid, AgentBooks
  <2> QED
    BY <1>3, <1>k, <2>2, <2>4, <2>5
<1>4. CASE AgentEnds
  <2>1. cur # NoTurn /\ inbox' = inbox /\ cur' = NoTurn /\ up' = up /\ up /\ said' = said
    BY <1>4 DEF AgentEnds, Works, Tells
  <2>2. cur.id \in Ids /\ cur.id # 0 /\ cur.id \in 0 .. MaxCall /\ said[cur.id] \in 0 .. MaxSaid /\ 0 \in 0 .. MaxSaid
    BY <2>1, CurFacts, Bounds
  <2>3. Known(cur.id)
    BY <2>2 DEF IdInv
  <2>4. \A i \in Ids : Known(i) => Over(i)'
    BY <1>k, <1>n, <2>1 DEF Over
  <2>5. \E m \in Message : /\ Tells(m) /\ m.id = cur.id /\ m.what # "said"
                           /\ provider # "copilot" => m.n \in {0, said[cur.id]}
    <3>1. \/ \E n \in {0, said[cur.id]} : Tells(Event(cur.id, "completed", n))
          \/ Tells(Event(cur.id, "failed", 0))
          \/ provider = "copilot" /\ Tells(Response(cur.id, "ok"))
          \/ provider = "copilot" /\ Tells(Response(cur.id, "error"))
      BY <1>4 DEF AgentEnds
    <3>2. \A n \in {0, said[cur.id]} : n \in 0 .. MaxSaid
      BY <2>2
    <3>3. \A n \in 0 .. MaxSaid : Event(cur.id, "completed", n) \in Message
      BY <2>2, MessageTypes
    <3>4. \A n : LET e == Event(cur.id, "completed", n) IN e.id = cur.id /\ e.what # "said" /\ e.n = n
      BY DEF Event
    <3>5. Event(cur.id, "failed", 0) \in Message /\ Response(cur.id, "ok") \in Message /\ Response(cur.id, "error") \in Message
      BY <2>2, MessageTypes
    <3>6. LET e == Event(cur.id, "failed", 0) IN e.id = cur.id /\ e.what # "said" /\ e.n = 0
      BY DEF Event
    <3>7. \A what \in {"ok", "error"} : Response(cur.id, what).id = cur.id /\ Response(cur.id, what).what # "said"
      BY DEF Response
    <3> QED
      BY <3>1, <3>2, <3>3, <3>4, <3>5, <3>6, <3>7
  <2>6. PICK m \in Message : /\ Tells(m) /\ m.id = cur.id /\ m.what # "said"
                             /\ provider # "copilot" => m.n \in {0, said[cur.id]}
    BY <2>5
  <2>7. Live' = Live \/ Live' = Append(Live, m)
    BY <2>6, <1>t, <1>u, ToldLive
  <2>8. \A i \in Ids : ~Chunk(m, i) /\ (End(m, i) => i = cur.id)
    BY <2>6 DEF Chunk, End
  <2>9. \A i \in Ids : End(m, i) => Over(i)' /\ (provider # "copilot" => m.n \in {0, said'[i]})
    BY <2>1, <2>3, <2>4, <2>6, <2>8
  <2>10. \A i \in Ids : Over(i) => Over(i)'
    BY <2>4 DEF Over
  <2>11. m.id # 0 => Known(m.id)'
    BY <1>k, <2>3, <2>6
  <2> QED
    BY <1>k, <1>u, <1>i, <1>n, <2>1, <2>6, <2>7, <2>8, <2>9, <2>10, <2>11, AgentBooks
<1>5. CASE AgentDies
  <2>1. inbox' = <<>> /\ cur' = NoTurn /\ said' = said /\ out' = out
    BY <1>5 DEF AgentDies
  <2>2. Live' = Live
    BY <2>1, <1>u DEF Live, Handed, Unread
  <2>3. \A i \in Ids : Over(i) => Over(i)'
    BY <1>k, <1>n, <2>1 DEF Over
  <2> QED
    BY <1>k, <1>u, <1>i, <1>n, <2>1, <2>2, <2>3, NothingSaid, AgentBooks
<1> QED
  BY <1>1, <1>2, <1>3, <1>4, <1>5 DEF AgentStep

\* Nothing is told or taken.
LEMMA SameBooks ==
  ASSUME IdInv, EndInv, UNCHANGED <<provider, cur, said, up, response, events, reader, out>>,
         \A i : Known(i) => Known(i)',
         \A c \in Callers : caller'[c].pc = "drain" => caller[c].pc = "drain" /\ caller'[c].id = caller[c].id
  PROVE  /\ Live' = Live /\ EndInv' /\ (\A i \in Ids : Over(i) => Over(i)')
         /\ (cur'.id # 0 => Known(cur.id)') /\ (\A p \in DOMAIN Live' : Live'[p].id # 0 => Known(Live[p].id)')
         /\ \A i \in Ids : said'[i] # 0 \/ response'[i] # "none" => Known(i)'
<1>1. Live' = Live
  BY DEF Live, Handed, Unread
<1>2. \A i \in Ids : Over(i) => Over(i)'
  BY DEF Over
<1>3. EndInv'
  <2>1. \A p \in DOMAIN Live', i \in Ids : End(Live[p], i)' = End(Live[p], i)
    BY <1>1 DEF End
  <2>2. \A p \in DOMAIN Live', i \in Ids : Chunk(Live[p], i)' = Chunk(Live[p], i)
    BY <1>1 DEF Chunk
  <2>3. /\ \A p \in DOMAIN Live', i \in Ids : End(Live[p], i)' => Over(i)'
        /\ provider' # "copilot" => \A p \in DOMAIN Live', i \in Ids : End(Live[p], i)' => Live'[p].n \in {0, said'[i]}
        /\ \A p, q \in DOMAIN Live', i \in Ids : p < q /\ End(Live[p], i)' => ~Chunk(Live[q], i)'
    BY <1>1, <1>2, <2>1, <2>2 DEF EndInv
  <2>4. provider' = "copilot" =>
          \A i \in Ids : response'[i] # "none" =>
            Over(i)' /\ \A p \in DOMAIN Live' : p > Len(events)' => ~Chunk(Live[p], i)'
    BY <1>1, <1>2, <2>2 DEF EndInv
  <2>5. \A c \in Callers : caller'[c].pc = "drain" => response'[caller'[c].id] # "none"
    BY DEF EndInv
  <2> QED
    BY <2>3, <2>4, <2>5 DEF EndInv
<1>4. cur'.id # 0 => Known(cur.id)'
  BY DEF IdInv
<1>5. \A p \in DOMAIN Live' : Live'[p].id # 0 => Known(Live[p].id)'
  BY <1>1 DEF IdInv
<1>6. \A i \in Ids : said'[i] # 0 \/ response'[i] # "none" => Known(i)'
  BY DEF IdInv
<1> QED
  BY <1>1, <1>2, <1>3, <1>4, <1>5, <1>6

LEMMA RegisterBooks ==
  ASSUME IInv, IdInv, EndInv, NEW c \in Callers, Register(c)
  PROVE  IdInv' /\ EndInv' /\ (\A i : Known(i) => Known(i)') /\ (\A i \in Ids : Over(i) => Over(i)')
<1>t. caller \in [Callers -> CallerType] /\ caller[c] \in CallerType /\ nextID \in Nat
  BY Bounds DEF IInv, TypeOK
<1>1. /\ UNCHANGED <<provider, cur, said, up, response, events, reader, out, inbox>> /\ Others(c)
      /\ nextID' = nextID + 1 /\ caller'[c].pc = "write" /\ caller'[c].id = nextID + 1
  BY <1>t DEF Register, Others, channels, agent, CallerType
<1>2. \A i : Known(i) => Known(i)'
  <2> SUFFICES ASSUME NEW i, Known(i) PROVE Known(i)'
    OBVIOUS
  <2>1. i \in Nat /\ i <= nextID
    BY Bounds DEF Known
  <2>2. i <= nextID' /\ i # nextID + 1
    BY <1>t, <1>1, <2>1
  <2>3. \A d \in Callers : caller'[d].pc = "write" => caller'[d].id # i
    BY <1>1, <2>2 DEF Others, Known
  <2> QED
    BY <1>1, <2>2, <2>3 DEF Known
<1>3. \A d \in Callers : caller'[d].pc = "drain" => caller[d].pc = "drain" /\ caller'[d].id = caller[d].id
  BY <1>1 DEF Others
<1>4. /\ Live' = Live /\ EndInv' /\ (\A i \in Ids : Over(i) => Over(i)')
      /\ (cur'.id # 0 => Known(cur.id)') /\ (\A p \in DOMAIN Live' : Live'[p].id # 0 => Known(Live[p].id)')
      /\ \A i \in Ids : said'[i] # 0 \/ response'[i] # "none" => Known(i)'
  BY <1>1, <1>2, <1>3, SameBooks
<1>5. /\ inbox \in Seq(Call) /\ DOMAIN inbox = 1 .. Len(inbox) /\ \A p \in DOMAIN inbox : inbox[p].id \in Nat
  <2>1. inbox \in Seq(Call)
    BY DEF IInv, TypeOK
  <2>2. \A p \in DOMAIN inbox : inbox[p] \in Call
    BY <2>1
  <2> QED
    BY <2>1, <2>2, LenProperties, Bounds DEF Call
<1>6. \A d \in Callers : d # c /\ InCall(d)' => InCall(d) /\ caller'[d] = caller[d] /\ caller[d].id \in Nat /\ caller[d].id <= nextID
  <2>1. \A d \in Callers : d # c /\ InCall(d)' => InCall(d) /\ caller'[d] = caller[d]
    BY <1>1 DEF Others, InCall
  <2>2. \A d \in Callers : InCall(d) => caller[d].id \in Nat
    BY CallIds, Bounds
  <2> QED
    BY <2>1, <2>2 DEF IdInv
<1>7. IdInv'
  <2>1. /\ \A p, q \in DOMAIN inbox' : p # q => inbox'[p].id # inbox'[q].id
        /\ \A p \in DOMAIN inbox' : inbox'[p].id <= nextID' /\ (provider' = "copilot" => inbox'[p].op # "turn")
    BY <1>t, <1>1, <1>5 DEF IdInv
  <2>2. \A d \in Callers : InCall(d)' => caller'[d].id <= nextID'
    BY <1>t, <1>1, <1>6
  <2>3. \A d, e \in Callers : InCall(d)' /\ InCall(e)' /\ d # e => caller'[d].id # caller'[e].id
    <3>1. \A d \in Callers : d # c /\ InCall(d)' => caller'[d].id # nextID + 1
      BY <1>t, <1>6
    <3> QED
      BY <3>1, <1>1, <1>6 DEF IdInv
  <2>4. \A d \in Callers : caller'[d].pc = "write" => \A p \in DOMAIN inbox' : inbox'[p].id # caller'[d].id
    <3>1. \A p \in DOMAIN inbox : inbox[p].id # nextID + 1
      BY <1>t, <1>5 DEF IdInv
    <3> QED
      BY <3>1, <1>1 DEF IdInv, Others
  <2>5. ~up' => cur'.id = 0 /\ inbox' = <<>>
    BY <1>1 DEF IdInv
  <2> QED
    BY <1>4, <2>1, <2>2, <2>3, <2>4, <2>5 DEF IdInv
<1> QED
  BY <1>2, <1>4, <1>7

LEMMA WriteEffect ==
  ASSUME IInv, NEW c \in Callers, Write(c)
  PROVE  /\ UNCHANGED <<provider, cur, said, up, response, events, reader, out, nextID>> /\ Others(c) /\ up
         /\ caller[c].pc = "write" /\ InCall(c) /\ caller'[c].pc = "wait" /\ caller'[c].id = caller[c].id
         /\ caller'[c].todo = caller[c].todo /\ caller'[c].text = caller[c].text /\ caller[c].id \in Ids
         /\ \E call \in Call :
              /\ call.id = caller[c].id /\ call.op = Op(c) /\ (provider = "copilot" => call.op # "turn")
              /\ DOMAIN inbox = 1 .. Len(inbox) /\ Len(inbox) \in Nat /\ DOMAIN inbox' = 1 .. Len(inbox) + 1
              /\ \A p \in 1 .. Len(inbox) : inbox'[p] = inbox[p]
              /\ inbox'[Len(inbox) + 1] = call
<1>t. caller \in [Callers -> CallerType] /\ caller[c] \in CallerType /\ inbox \in Seq(Call)
  BY DEF IInv, TypeOK
<1>1. /\ UNCHANGED <<provider, cur, said, up, response, events, reader, out, nextID>> /\ Others(c) /\ up
      /\ caller[c].pc = "write" /\ InCall(c) /\ caller'[c].pc = "wait" /\ caller'[c].id = caller[c].id
      /\ caller'[c].todo = caller[c].todo /\ caller'[c].text = caller[c].text
  BY <1>t DEF Write, Others, channels, CallerType, InCall
<1> DEFINE call == [id |-> caller[c].id, op |-> Op(c)]
<1>2. caller[c].id \in Ids /\ Op(c) \in Ops /\ (provider = "copilot" => Op(c) # "turn")
  <2>1. caller[c].id \in Ids
    BY <1>1, CallIds
  <2>2. caller[c].todo \in Seq(Ops) /\ caller[c].todo # <<>>
    BY <1>1, <1>t DEF IInv, CallerInv, Busy, CallerType
  <2>3. provider = "copilot" => caller[c].todo \in Seq(Ops \ {"turn"})
    BY DEF IInv, CountInv
  <2>4. Op(c) \in Ops
    BY <2>2 DEF Op
  <2>5. provider = "copilot" => Op(c) \in Ops \ {"turn"}
    BY <2>2, <2>3 DEF Op
  <2> QED
    BY <2>1, <2>4, <2>5
<1>3. call \in Call /\ call.id = caller[c].id /\ call.op = Op(c) /\ (provider = "copilot" => call.op # "turn")
  BY <1>2 DEF Call
<1>i. inbox' = Append(inbox, call)
  BY DEF Write
<1> HIDE DEF call
<1>4. /\ DOMAIN inbox = 1 .. Len(inbox) /\ Len(inbox) \in Nat /\ DOMAIN inbox' = 1 .. Len(inbox) + 1
      /\ \A p \in 1 .. Len(inbox) : inbox'[p] = inbox[p]
      /\ inbox'[Len(inbox) + 1] = call
  <2>1. /\ Append(inbox, call) \in Seq(Call) /\ Len(Append(inbox, call)) = Len(inbox) + 1
        /\ Append(inbox, call)[Len(inbox) + 1] = call
        /\ \A p \in 1 .. Len(inbox) : Append(inbox, call)[p] = inbox[p]
    BY <1>t, <1>3, AppendProperties
  <2>2. DOMAIN Append(inbox, call) = 1 .. Len(inbox) + 1
    BY <2>1, LenProperties
  <2> QED
    BY <1>t, <1>i, <2>1, <2>2, LenProperties
<1> QED
  BY <1>1, <1>2, <1>3, <1>4

LEMMA WriteBooks ==
  ASSUME IInv, IdInv, EndInv, NEW c \in Callers, Write(c)
  PROVE  IdInv' /\ EndInv' /\ (\A i : Known(i) => Known(i)') /\ (\A i \in Ids : Over(i) => Over(i)')
<1>1. /\ UNCHANGED <<provider, cur, said, up, response, events, reader, out, nextID>> /\ Others(c) /\ up
      /\ caller[c].pc = "write" /\ InCall(c) /\ caller'[c].pc = "wait" /\ caller'[c].id = caller[c].id
  BY WriteEffect
<1>2. PICK call \in Call :
        /\ call.id = caller[c].id /\ call.op = Op(c) /\ (provider = "copilot" => call.op # "turn")
        /\ DOMAIN inbox = 1 .. Len(inbox) /\ Len(inbox) \in Nat /\ DOMAIN inbox' = 1 .. Len(inbox) + 1
        /\ \A p \in 1 .. Len(inbox) : inbox'[p] = inbox[p]
        /\ inbox'[Len(inbox) + 1] = call
  BY WriteEffect
<1>3. call.id = caller[c].id /\ (provider = "copilot" => call.op # "turn")
  BY <1>2
<1>4. /\ DOMAIN inbox = 1 .. Len(inbox) /\ Len(inbox) \in Nat /\ DOMAIN inbox' = 1 .. Len(inbox) + 1
      /\ \A p \in 1 .. Len(inbox) : inbox'[p] = inbox[p]
      /\ inbox'[Len(inbox) + 1] = call
  BY <1>2
<1>5. \A p \in DOMAIN inbox' : (p \in DOMAIN inbox /\ inbox'[p] = inbox[p]) \/ (p = Len(inbox) + 1 /\ inbox'[p] = call)
  BY <1>4
<1>6. \A i : Known(i) => Known(i)'
  <2> SUFFICES ASSUME NEW i, Known(i) PROVE Known(i)'
    OBVIOUS
  <2>1. i # caller[c].id
    BY <1>1 DEF Known
  <2>2. \A p \in DOMAIN inbox' : inbox'[p].id # i
    BY <1>3, <1>5, <2>1 DEF Known
  <2>3. \A d \in Callers : caller'[d].pc = "write" => caller'[d].id # i
    BY <1>1, <2>1 DEF Others, Known
  <2> QED
    BY <1>1, <2>2, <2>3 DEF Known
<1>7. \A d \in Callers : caller'[d].pc = "drain" => caller[d].pc = "drain" /\ caller'[d].id = caller[d].id
  BY <1>1 DEF Others
<1>8. /\ Live' = Live /\ EndInv' /\ (\A i \in Ids : Over(i) => Over(i)')
      /\ (cur'.id # 0 => Known(cur.id)') /\ (\A p \in DOMAIN Live' : Live'[p].id # 0 => Known(Live[p].id)')
      /\ \A i \in Ids : said'[i] # 0 \/ response'[i] # "none" => Known(i)'
  BY <1>1, <1>6, <1>7, SameBooks
<1>9. \A d \in Callers : InCall(d)' => InCall(d) /\ caller'[d].id = caller[d].id
  BY <1>1 DEF Others, InCall
<1>10. IdInv'
  <2>1. \A p, q \in DOMAIN inbox' : p # q => inbox'[p].id # inbox'[q].id
    BY <1>1, <1>3, <1>4, <1>5 DEF IdInv
  <2>2. \A p \in DOMAIN inbox' : inbox'[p].id <= nextID' /\ (provider' = "copilot" => inbox'[p].op # "turn")
    BY <1>1, <1>3, <1>5 DEF IdInv
  <2>3. /\ \A d \in Callers : InCall(d)' => caller'[d].id <= nextID'
        /\ \A d, e \in Callers : InCall(d)' /\ InCall(e)' /\ d # e => caller'[d].id # caller'[e].id
    BY <1>1, <1>9 DEF IdInv
  <2>4. \A d \in Callers : caller'[d].pc = "write" => \A p \in DOMAIN inbox' : inbox'[p].id # caller'[d].id
    <3> SUFFICES ASSUME NEW d \in Callers, caller'[d].pc = "write", NEW p \in DOMAIN inbox'
                 PROVE  inbox'[p].id # caller'[d].id
      OBVIOUS
    <3>1. d # c /\ caller'[d] = caller[d] /\ InCall(d)
      BY <1>1 DEF Others, InCall
    <3>2. caller[d].id # caller[c].id
      BY <1>1, <3>1 DEF IdInv
    <3> QED
      BY <1>3, <1>5, <3>1, <3>2 DEF IdInv
  <2>5. ~up' => cur'.id = 0 /\ inbox' = <<>>
    BY <1>1
  <2> QED
    BY <1>8, <2>1, <2>2, <2>3, <2>4, <2>5 DEF IdInv
<1> QED
  BY <1>6, <1>8, <1>10

LEMMA NextBooks ==
  ASSUME IInv, IInv', IdInv, EndInv, [Next]_vars
  PROVE  IdInv' /\ EndInv' /\ \A i \in Ids : Over(i) => Over(i)'
<1>1. CASE Resting
  BY <1>1, QuietRest, QuietBooks DEF IInv
<1>2. ASSUME NEW c \in Callers, CallerStep(c)
      PROVE  IdInv' /\ EndInv' /\ \A i \in Ids : Over(i) => Over(i)'
  <2>1. CASE caller[c].pc = "call"
    <3>1. Register(c)
      BY <1>2, <2>1 DEF CallerStep, LockTurn, Write, GiveUp, CallReturned, CallFailed, TurnStarted, CodexEvent,
         CopilotEvent, TakeResponse, FinishTurn, Answered
    <3> QED
      BY <3>1, RegisterBooks
  <2>2. CASE Write(c)
    BY <2>2, WriteBooks
  <2>3. CASE caller[c].pc # "call" /\ ~Write(c)
    BY <1>2, <2>3, QuietCaller, QuietBooks
  <2> QED
    BY <2>1, <2>2, <2>3
<1>3. CASE AgentStep \/ AgentNotes \/ AgentDies
  BY <1>3, AgentStepBooks
<1>4. Resting \/ (\E c \in Callers : CallerStep(c)) \/ AgentStep \/ AgentNotes \/ AgentDies
  BY Steps DEF Elsewhere, Resting
<1> QED
  BY <1>1, <1>2, <1>3, <1>4

-----------------------------------------------------------------------------
(* One turn of Copilot at a time *)

\* turnMu lets one goroutine wait for a turn.
LEMMA OneAwaits ==
  ASSUME TurnInv, NEW c \in Callers, NEW d \in Callers,
         InCall(c) /\ Op(c) \in Turns, InCall(d) /\ Op(d) \in Turns
  PROVE  c = d
BY DEF TurnInv

\* The next state keeps to one turn if who waits and what is on its way comes from this one.
LEMMA OneTurnKept ==
  ASSUME TurnInv, OneTurnInv, provider' = provider, ctx => ctx', done => done',
         \A c \in Callers : Awaits(c)' => Awaits(c) /\ caller'[c].id = caller[c].id,
         \A p \in DOMAIN inbox' : \E q \in DOMAIN inbox : inbox'[p] = inbox[q],
         cur'.id # 0 => \/ cur'.id = cur.id
                        \/ \E q \in DOMAIN inbox : inbox[q].op \in Prompting /\ inbox[q].id = cur'.id,
         \A p \in DOMAIN Live' : Live'[p].what = "said" =>
           \/ \E q \in DOMAIN Live : Live[q].what = "said" /\ Live[q].id = Live'[p].id
           \/ cur.id # 0 /\ Live'[p].id = cur.id,
         \A c \in Callers : Awaits(c) /\ caller[c].pc = "wait" /\ ~ctx' =>
           \/ Awaits(c)' /\ caller'[c].pc = "wait" /\ caller'[c].id = caller[c].id
           \/ cur'.id # caller[c].id /\ \A p \in DOMAIN inbox' : inbox'[p].id # caller[c].id,
         \A c \in Callers : Awaits(c) /\ ~ctx' /\ ~done' =>
           \/ Awaits(c)' /\ caller'[c].id = caller[c].id
           \/ \A p \in DOMAIN Live' : Live'[p].what = "said" => Live'[p].id # caller[c].id
  PROVE  OneTurnInv'
<1> SUFFICES ASSUME provider = "copilot", ~ctx'
             PROVE  /\ \A p \in DOMAIN inbox' : inbox'[p].op \in Prompting =>
                         \E c \in Callers : Awaits(c)' /\ caller'[c].pc = "wait" /\ caller'[c].id = inbox'[p].id
                    /\ cur'.id # 0 => \E c \in Callers : Awaits(c)' /\ caller'[c].pc = "wait" /\ caller'[c].id = cur'.id
                    /\ ~done' => \A p \in DOMAIN Live' : Live'[p].what = "said"
                                   => \E c \in Callers : Awaits(c)' /\ caller'[c].id = Live'[p].id
                    /\ \A c \in Callers : Awaits(c)' => \A p \in DOMAIN Live' : Live'[p].what = "said"
                                                          => Live'[p].id = caller'[c].id
  BY DEF OneTurnInv
<1>i. /\ \A p \in DOMAIN inbox : inbox[p].op \in Prompting =>
           \E c \in Callers : Awaits(c) /\ caller[c].pc = "wait" /\ caller[c].id = inbox[p].id
      /\ cur.id # 0 => \E c \in Callers : Awaits(c) /\ caller[c].pc = "wait" /\ caller[c].id = cur.id
      /\ ~done => \A p \in DOMAIN Live : Live[p].what = "said" => \E c \in Callers : Awaits(c) /\ caller[c].id = Live[p].id
      /\ \A c \in Callers : Awaits(c) => \A p \in DOMAIN Live : Live[p].what = "said" => Live[p].id = caller[c].id
  BY DEF OneTurnInv
<1>u. \A c, d \in Callers : Awaits(c) /\ Awaits(d) => c = d
  BY OneAwaits DEF Awaits, InCall, Turns
<1>1. \A p \in DOMAIN inbox' : inbox'[p].op \in Prompting =>
        \E c \in Callers : Awaits(c)' /\ caller'[c].pc = "wait" /\ caller'[c].id = inbox'[p].id
  <2> SUFFICES ASSUME NEW p \in DOMAIN inbox', inbox'[p].op \in Prompting
               PROVE  \E c \in Callers : Awaits(c)' /\ caller'[c].pc = "wait" /\ caller'[c].id = inbox'[p].id
    OBVIOUS
  <2>1. PICK q \in DOMAIN inbox : inbox'[p] = inbox[q]
    OBVIOUS
  <2>2. PICK c \in Callers : Awaits(c) /\ caller[c].pc = "wait" /\ caller[c].id = inbox[q].id
    BY <1>i, <2>1
  <2> QED
    BY <2>1, <2>2
<1>2. ASSUME cur'.id # 0
      PROVE  \E c \in Callers : Awaits(c)' /\ caller'[c].pc = "wait" /\ caller'[c].id = cur'.id
  <2>1. PICK c \in Callers : Awaits(c) /\ caller[c].pc = "wait" /\ caller[c].id = cur'.id
    BY <1>i, <1>2
  <2> QED
    BY <2>1
<1>3. ASSUME NEW p \in DOMAIN Live', Live'[p].what = "said", ~done'
      PROVE  \E c \in Callers : Awaits(c)' /\ caller'[c].id = Live'[p].id
  <2>1. PICK c \in Callers : Awaits(c) /\ caller[c].id = Live'[p].id
    BY <1>i, <1>3
  <2> QED
    BY <1>3, <2>1
<1>4. ASSUME NEW c \in Callers, Awaits(c)', NEW p \in DOMAIN Live', Live'[p].what = "said"
      PROVE  Live'[p].id = caller'[c].id
  <2>1. Awaits(c) /\ caller'[c].id = caller[c].id
    BY <1>4
  <2>2. CASE \E q \in DOMAIN Live : Live[q].what = "said" /\ Live[q].id = Live'[p].id
    BY <1>i, <2>1, <2>2
  <2>3. CASE cur.id # 0 /\ Live'[p].id = cur.id
    <3>1. PICK d \in Callers : Awaits(d) /\ caller[d].id = cur.id
      BY <1>i, <2>3
    <3>2. d = c
      BY <1>u, <2>1, <3>1
    <3> QED
      BY <2>1, <2>3, <3>1, <3>2
  <2> QED
    BY <1>4, <2>2, <2>3
<1> QED
  BY <1>1, <1>2, <1>3, <1>4

LEMMA EmbeddedSaid ==
  ASSUME Embedded
  PROVE  \A p \in DOMAIN Live' : \E q \in DOMAIN Live : Live[q] = Live'[p]
BY DEF Embedded, Embeds

LEMMA RestCallers ==
  ASSUME IInv, Resting
  PROVE  \A c \in Callers : InCall(c) \/ InCall(c)' => InCall(c) /\ InCall(c)' /\ caller'[c] = caller[c]
<1>1. CASE StartSession
  BY <1>1, StartEffect DEF Begins, Others, InCall
<1>2. CASE RunTurn \/ SetModel
  <2>1. PICK c \in Callers, steps \in Seq(Ops) : Enter(c, steps) /\ steps # <<>>
    BY <1>2, OperationEffect
  <2>2. Begins(c)
    BY <2>1, EnterEffect
  <2> QED
    BY <2>2 DEF Begins, Others, InCall
<1>3. CASE Close \/ Closed
  BY <1>3, CloseEffect DEF Closes, InCall
<1>4. CASE Elsewhere
  BY <1>4, ApartEffect DEF Apart, InCall
<1> QED
  BY <1>1, <1>2, <1>3, <1>4 DEF Resting, Elsewhere

\* What is done of the context and the process is not undone.
LEMMA DoneStays == ASSUME IInv, [Next]_vars PROVE (ctx => ctx') /\ (done => done') /\ provider' = provider
<1>1. ASSUME NEW c \in Callers, CallerStep(c) PROVE UNCHANGED <<ctx, done, provider>>
  BY <1>1, CallerEffect
<1>2. CASE StartSession \/ RunTurn \/ SetModel \/ Close \/ Closed
  BY <1>2 DEF StartSession, RunTurn, SetModel, Enter, Close, Closed, process
<1>3. CASE Elsewhere
  BY <1>3 DEF Elsewhere, Cancel, CancelProcess, ReaderStep, ReadResponse, ReadRequest, ReadEvent, SendEvent,
     ReaderEnds, Reap, HandleRequest, AgentStep, AgentTakes, AgentSays, AgentAsks, AgentEnds, AgentNotes, AgentDies,
     vars, process
<1> QED
  BY <1>1, <1>2, <1>3, Steps

\* How a goroutine goes on that waits for a turn of Copilot.
LEMMA AwaitStep ==
  ASSUME IInv, IdInv, EndInv, provider = "copilot", ~ctx, NEW c \in Callers, CallerStep(c), Awaits(c)
  PROVE  \/ caller'[c].pc = caller[c].pc /\ caller'[c].todo = caller[c].todo /\ caller'[c].id = caller[c].id
            /\ CopilotEvent(c)
         \/ caller'[c].pc = "drain" /\ caller'[c].todo = caller[c].todo /\ caller'[c].id = caller[c].id
            /\ Over(caller[c].id) /\ TakeResponse(c)
         \/ done /\ GiveUp(c)
         \/ /\ caller[c].pc = "drain" /\ Live' = Live /\ FinishTurn(c)
            /\ \A p \in DOMAIN Live : ~Chunk(Live[p], caller[c].id)
<1>t. caller \in [Callers -> CallerType] /\ caller[c] \in CallerType /\ TypeOK
  BY DEF IInv, TypeOK
<1>1. caller[c].pc \in {"wait", "drain"} /\ Op(c) \in Prompting /\ InCall(c)
  BY DEF Awaits, InCall
<1>2. caller[c].id \in Ids
  BY <1>1, CallIds
<1>3. Op(c) \notin {"initialize", "new", "settings", "turn"}
  BY <1>1 DEF Prompting
<1>4. GiveUp(c) \/ CopilotEvent(c) \/ TakeResponse(c) \/ FinishTurn(c)
  BY <1>1, <1>3 DEF CallerStep, LockTurn, Register, Write, CallReturned, CallFailed, TurnStarted, CodexEvent
<1>5. CASE GiveUp(c)
  BY <1>1, <1>5 DEF GiveUp
<1>6. CASE CopilotEvent(c)
  BY <1>6, <1>t DEF CopilotEvent, CallerType
<1>7. CASE TakeResponse(c)
  <2>1. Over(caller[c].id)
    BY <1>2, <1>7 DEF TakeResponse, EndInv
  <2> QED
    BY <1>7, <1>t, <2>1 DEF TakeResponse, CallerType
<1>8. CASE FinishTurn(c)
  <2>1. caller[c].pc = "drain" /\ events = <<>>
    BY <1>8 DEF FinishTurn
  <2>2. Live' = Live
    BY <1>8 DEF FinishTurn, Live, Handed, Unread, agent
  <2>3. DOMAIN Live = 1 .. Len(Live) /\ Len(events) = 0
    BY <1>t, <2>1, LiveType
  <2>4. response[caller[c].id] # "none"
    BY <2>1 DEF EndInv
  <2>5. \A p \in DOMAIN Live : p > Len(events) => ~Chunk(Live[p], caller[c].id)
    BY <1>2, <2>4 DEF EndInv
  <2>6. \A p \in DOMAIN Live : p > 0
    BY <1>t, <2>3, LiveType
  <2> QED
    BY <1>8, <2>1, <2>2, <2>3, <2>5, <2>6
<1> QED
  BY <1>4, <1>5, <1>6, <1>7, <1>8

\* Only a call that is written comes to be waited for.
LEMMA AwaitsBefore ==
  ASSUME IInv, NEW c \in Callers, CallerStep(c), caller[c].pc # "call", ~Write(c), NEW d \in Callers, Awaits(d)'
  PROVE  Awaits(d) /\ caller'[d].id = caller[d].id
<1>1. Others(c) /\ (InCall(c)' => Moves(c))
  BY CallerBooks
<1>2. CASE d # c
  BY <1>1, <1>2 DEF Others, Awaits, Op
<1>3. CASE d = c
  <2>1. Moves(c) /\ caller'[c].pc \in {"wait", "drain"}
    BY <1>1, <1>3 DEF Awaits, InCall
  <2>2. caller'[c].todo = caller[c].todo /\ caller'[c].id = caller[c].id /\ InCall(c)
    BY <2>1 DEF Moves
  <2>3. Op(c) \in Prompting
    BY <1>3, <2>2 DEF Awaits, Op
  <2>4. caller[c].pc # "read"
    BY <2>3 DEF IInv, CountInv, Prompting
  <2>5. caller[c].pc # "write"
    <3> SUFFICES ASSUME caller[c].pc = "write" PROVE FALSE
      OBVIOUS
    <3>1. GiveUp(c)
      BY DEF CallerStep, LockTurn, Register, CallReturned, CallFailed, TurnStarted, CodexEvent, CopilotEvent, TakeResponse,
         FinishTurn, Answered
    <3>2. Fail(c) /\ nextID' = nextID
      BY <3>1 DEF GiveUp
    <3>3. Returns(c)
      BY <2>2, <3>2, FailEffect
    <3> QED
      BY <2>1, <3>3 DEF Returns
  <2> QED
    BY <1>3, <2>2, <2>3, <2>4, <2>5 DEF Awaits, InCall
<1> QED
  BY <1>2, <1>3

LEMMA NextOneTurn ==
  ASSUME IInv, IInv', TurnInv, IdInv, EndInv, OneTurnInv, [Next]_vars
  PROVE  OneTurnInv'
<1>t. TypeOK
  BY DEF IInv
<1>d. (ctx => ctx') /\ (done => done') /\ provider' = provider
  BY DoneStays
<1>1. CASE Resting
  <2>1. inbox' = inbox /\ cur' = cur /\ Embedded
    BY <1>1, QuietRest DEF Quiet, IInv
  <2>2. \A p \in DOMAIN Live' : \E q \in DOMAIN Live : Live[q] = Live'[p]
    BY <2>1, EmbeddedSaid
  <2>3. \A c \in Callers : InCall(c) \/ InCall(c)' => InCall(c) /\ InCall(c)' /\ caller'[c] = caller[c]
    BY <1>1, RestCallers
  <2>4. \A c \in Callers : Awaits(c) \/ Awaits(c)' => Awaits(c) /\ Awaits(c)' /\ caller'[c] = caller[c]
    BY <2>3 DEF Awaits, InCall, Op
  <2> QED
    BY <1>d, <2>1, <2>2, <2>4, OneTurnKept
<1>2. ASSUME NEW c \in Callers, CallerStep(c), caller[c].pc # "call", ~Write(c) PROVE OneTurnInv'
  <2>1. Quiet /\ UNCHANGED <<ctx, done, up, provider>> /\ Others(c)
    BY <1>2, QuietCaller, CallerEffect
  <2>2. inbox' = inbox /\ cur' = cur /\ Embedded
    BY <2>1 DEF Quiet
  <2>3. \A p \in DOMAIN Live' : \E q \in DOMAIN Live : Live[q] = Live'[p]
    BY <2>2, EmbeddedSaid
  <2>4. \A d \in Callers : Awaits(d)' => Awaits(d) /\ caller'[d].id = caller[d].id
    BY <1>2, AwaitsBefore
  <2>5. CASE provider # "copilot" \/ ctx
    BY <1>d, <2>5 DEF OneTurnInv
  <2>6. CASE provider = "copilot" /\ ~ctx
    <3>s. \A d \in Callers \ {c} : Awaits(d) => Awaits(d)' /\ caller'[d] = caller[d]
      BY <2>1 DEF Others, Awaits, Op
    <3>g. done => cur.id = 0 /\ inbox = <<>>
      BY DEF IInv, LifeInv, IdInv
    <3>c. Awaits(c) => caller[c].id # 0
      BY DEF IInv, CallerInv, Awaits, InCall
    <3>o. Over(caller[c].id) => cur.id # caller[c].id /\ \A p \in DOMAIN inbox : inbox[p].id # caller[c].id
      BY DEF Over, Known
    <3>1. Awaits(c) =>
            \/ caller'[c].pc = caller[c].pc /\ caller'[c].todo = caller[c].todo /\ caller'[c].id = caller[c].id
            \/ caller'[c].pc = "drain" /\ caller'[c].todo = caller[c].todo /\ caller'[c].id = caller[c].id
               /\ Over(caller[c].id)
            \/ done
            \/ /\ caller[c].pc = "drain" /\ Live' = Live
               /\ \A p \in DOMAIN Live : ~Chunk(Live[p], caller[c].id)
      BY <1>2, <2>6, AwaitStep
    <3>2. \A d \in Callers : Awaits(d) /\ caller[d].pc = "wait" /\ ~ctx' =>
            \/ Awaits(d)' /\ caller'[d].pc = "wait" /\ caller'[d].id = caller[d].id
            \/ cur'.id # caller[d].id /\ \A p \in DOMAIN inbox' : inbox'[p].id # caller[d].id
      <4> SUFFICES ASSUME NEW d \in Callers, Awaits(d), caller[d].pc = "wait"
                   PROVE  \/ Awaits(d)' /\ caller'[d].pc = "wait" /\ caller'[d].id = caller[d].id
                          \/ cur'.id # caller[d].id /\ \A p \in DOMAIN inbox' : inbox'[p].id # caller[d].id
        OBVIOUS
      <4>1. CASE d # c
        BY <3>s, <4>1
      <4>2. CASE d = c
        <5>1. CASE caller'[c].pc = caller[c].pc /\ caller'[c].todo = caller[c].todo /\ caller'[c].id = caller[c].id
          BY <4>2, <5>1 DEF Awaits, Op
        <5>2. CASE Over(caller[c].id)
          BY <2>2, <3>o, <4>2, <5>2
        <5>3. CASE done
          BY <2>2, <3>g, <3>c, <4>2, <5>3
        <5> QED
          BY <3>1, <4>2, <5>1, <5>2, <5>3
      <4> QED
        BY <4>1, <4>2
    <3>3. \A d \in Callers : Awaits(d) /\ ~ctx' /\ ~done' =>
            \/ Awaits(d)' /\ caller'[d].id = caller[d].id
            \/ \A p \in DOMAIN Live' : Live'[p].what = "said" => Live'[p].id # caller[d].id
      <4> SUFFICES ASSUME NEW d \in Callers, Awaits(d), ~done
                   PROVE  \/ Awaits(d)' /\ caller'[d].id = caller[d].id
                          \/ \A p \in DOMAIN Live' : Live'[p].what = "said" => Live'[p].id # caller[d].id
        BY <2>1
      <4>1. CASE d # c
        BY <3>s, <4>1
      <4>2. CASE d = c
        <5>1. CASE /\ caller'[c].pc \in {caller[c].pc, "drain"} /\ caller'[c].todo = caller[c].todo
                   /\ caller'[c].id = caller[c].id
          BY <4>2, <5>1 DEF Awaits, Op
        <5>2. CASE Live' = Live /\ \A p \in DOMAIN Live : ~Chunk(Live[p], caller[c].id)
          <6>1. \A p \in DOMAIN Live : Live[p] \in Message
            BY <1>t, LiveType
          <6>2. \A p \in DOMAIN Live : Live[p].what = "said" => Live[p].kind = "event"
            BY <6>1 DEF Message
          <6> QED
            BY <4>2, <5>2, <6>2 DEF Chunk
        <5> QED
          BY <3>1, <4>2, <5>1, <5>2
      <4> QED
        BY <4>1, <4>2
    <3> QED
      BY <1>d, <2>2, <2>3, <2>4, <3>2, <3>3, OneTurnKept
  <2> QED
    BY <2>5, <2>6
<1>3. ASSUME NEW c \in Callers, Register(c) PROVE OneTurnInv'
  <2>1. /\ UNCHANGED <<cur, events, reader, out, inbox>> /\ Others(c) /\ caller[c].pc = "call" /\ caller'[c].pc = "write"
    <3>1. caller \in [Callers -> CallerType] /\ caller[c] \in CallerType
      BY <1>t DEF TypeOK
    <3> QED
      BY <1>3, <3>1 DEF Register, Others, channels, agent, CallerType
  <2>2. Live' = Live
    BY <2>1 DEF Live, Handed, Unread
  <2>3. \A d \in Callers : Awaits(d) \/ Awaits(d)' => Awaits(d) /\ Awaits(d)' /\ caller'[d] = caller[d]
    BY <2>1 DEF Awaits, Op, Others
  <2> QED
    BY <1>d, <2>1, <2>2, <2>3, OneTurnKept
<1>5. CASE AgentStep \/ AgentNotes \/ AgentDies
  <2>1. UNCHANGED <<caller, ctx, done, events, reader>>
    BY <1>5 DEF AgentStep, AgentTakes, AgentSays, AgentAsks, AgentEnds, AgentNotes, AgentDies, client, channels, process
  <2>2. \A d \in Callers : Awaits(d) = Awaits(d)'
    BY <2>1 DEF Awaits, Op
  <2>3. inbox' = inbox \/ inbox' = <<>> \/ (inbox # <<>> /\ inbox' = Tail(inbox))
    BY <1>5 DEF AgentStep, AgentTakes, AgentSays, AgentAsks, AgentEnds, AgentNotes, AgentDies
  <2>4. nextID' = nextID
    BY <1>5 DEF AgentStep, AgentTakes, AgentSays, AgentAsks, AgentEnds, AgentNotes, AgentDies, client
  <2>5. \A p \in DOMAIN inbox' : \E q \in DOMAIN inbox : inbox'[p] = inbox[q]
    BY <1>d, <2>1, <2>3, <2>4, InboxStays
  <2>6. CASE provider # "copilot"
    BY <1>d, <2>6 DEF OneTurnInv
  <2>7. CASE provider = "copilot"
    <3>1. cur'.id # 0 => \/ cur'.id = cur.id
                         \/ \E q \in DOMAIN inbox : inbox[q].op \in Prompting /\ inbox[q].id = cur'.id
      <4>1. CASE AgentTakes
        <5>1. inbox \in Seq(Call) /\ inbox # <<>>
          BY <1>t, <4>1 DEF AgentTakes, TypeOK
        <5>2. 1 \in DOMAIN inbox /\ Head(inbox) = inbox[1]
          BY <5>1, EmptySeq, LenProperties
        <5>3. Head(inbox).op # "turn"
          BY <2>7, <5>2 DEF IdInv
        <5>4. cur' = cur \/ (cur' = Head(inbox) /\ Head(inbox).op \in Prompting)
          BY <4>1, <5>3 DEF AgentTakes
        <5> QED
          BY <5>2, <5>4
      <4>2. CASE ~AgentTakes
        <5>1. cur' = cur \/ cur' = NoTurn
          BY <1>5, <4>2 DEF AgentStep, AgentSays, AgentAsks, AgentEnds, AgentNotes, AgentDies
        <5> QED
          BY <5>1 DEF NoTurn
      <4> QED
        BY <4>1, <4>2
    <3>2. \A p \in DOMAIN Live' : Live'[p].what = "said" =>
            \/ \E q \in DOMAIN Live : Live[q].what = "said" /\ Live[q].id = Live'[p].id
            \/ cur.id # 0 /\ Live'[p].id = cur.id
      <4>1. \/ out' = out
            \/ \E m \in Message : Tells(m) /\ (m.what = "said" => cur.id # 0 /\ m.id = cur.id)
        <5>1. CASE AgentTakes
          <6>1. inbox \in Seq(Call) /\ inbox # <<>>
            BY <1>t, <5>1 DEF AgentTakes, TypeOK
          <6>2. Head(inbox).id \in 0 .. MaxCall
            <7>1. Head(inbox) \in Call
              BY <6>1
            <7> QED
              BY <7>1, Bounds DEF Call
          <6>3. \A what \in {"ok", "error"} : /\ Response(Head(inbox).id, what) \in Message
                                              /\ Response(Head(inbox).id, what).what # "said"
            BY <6>2, MessageTypes DEF Response
          <6>4. \/ out' = out
                \/ Tells(Response(Head(inbox).id, "ok")) \/ Tells(Response(Head(inbox).id, "error"))
            BY <5>1 DEF AgentTakes
          <6> QED
            BY <6>3, <6>4
        <5>2. CASE AgentSays
          <6>1. cur # NoTurn
            BY <5>2 DEF AgentSays, Works
          <6>2. cur.id \in Ids /\ cur.id # 0 /\ cur.id \in 0 .. MaxCall /\ said[cur.id] \in 0 .. MaxSaid
            BY <6>1, CurFacts
          <6> DEFINE n == said[cur.id] + 1
          <6>3. n \in 0 .. MaxSaid /\ n # 0
            BY <5>2, <6>2, Bounds DEF AgentSays
          <6>4. Tells(Event(cur.id, "said", n))
            BY <5>2 DEF AgentSays
          <6> HIDE DEF n
          <6>5. Event(cur.id, "said", n) \in Message /\ Event(cur.id, "said", n).id = cur.id
            BY <6>2, <6>3, MessageTypes DEF Event
          <6> QED
            BY <6>2, <6>4, <6>5
        <5>3. CASE AgentAsks \/ AgentNotes
          <6>1. Tells(Request) \/ Tells(Event(0, "note", 0))
            BY <5>3 DEF AgentAsks, AgentNotes
          <6>2. Request.what # "said" /\ Event(0, "note", 0).what # "said"
            BY DEF Request, Event
          <6> QED
            BY <6>1, <6>2, NothingSaid
        <5>4. CASE AgentEnds
          <6>1. cur # NoTurn
            BY <5>4 DEF AgentEnds, Works
          <6>2. cur.id \in 0 .. MaxCall
            BY <6>1, CurFacts
          <6>3. Tells(Response(cur.id, "ok")) \/ Tells(Response(cur.id, "error"))
            BY <2>7, <5>4 DEF AgentEnds
          <6>4. \A what \in {"ok", "error"} : /\ Response(cur.id, what) \in Message
                                              /\ Response(cur.id, what).what # "said"
            BY <6>2, MessageTypes DEF Response
          <6> QED
            BY <6>3, <6>4
        <5>5. CASE AgentDies
          BY <5>5 DEF AgentDies
        <5> QED
          BY <1>5, <5>1, <5>2, <5>3, <5>4, <5>5 DEF AgentStep
      <4>2. CASE out' = out
        <5>1. Live' = Live
          BY <2>1, <4>2 DEF Live, Handed, Unread
        <5> QED
          BY <5>1
      <4>3. ASSUME NEW m \in Message, Tells(m), m.what = "said" => cur.id # 0 /\ m.id = cur.id
            PROVE  \A p \in DOMAIN Live' : Live'[p].what = "said" =>
                     \/ \E q \in DOMAIN Live : Live[q].what = "said" /\ Live[q].id = Live'[p].id
                     \/ cur.id # 0 /\ Live'[p].id = cur.id
        <5>1. Live' = Live \/ Live' = Append(Live, m)
          BY <1>t, <2>1, <4>3, ToldLive
        <5>2. \A p \in DOMAIN Live' : (p \in DOMAIN Live /\ Live'[p] = Live[p]) \/ Live'[p] = m
          BY <1>t, <5>1, AddLive
        <5> QED
          BY <4>3, <5>2
      <4> QED
        BY <4>1, <4>2, <4>3
    <3> QED
      BY <1>d, <2>1, <2>2, <2>5, <3>1, <3>2, OneTurnKept
  <2> QED
    BY <2>6, <2>7
<1>4. ASSUME NEW c \in Callers, Write(c) PROVE OneTurnInv'
  <2>1. /\ UNCHANGED <<provider, cur, said, up, response, events, reader, out, nextID>> /\ Others(c) /\ up
        /\ caller[c].pc = "write" /\ InCall(c) /\ caller'[c].pc = "wait" /\ caller'[c].id = caller[c].id
        /\ caller'[c].todo = caller[c].todo
    BY <1>4, WriteEffect
  <2>2. PICK call \in Call :
          /\ call.id = caller[c].id /\ call.op = Op(c)
          /\ DOMAIN inbox = 1 .. Len(inbox) /\ Len(inbox) \in Nat /\ DOMAIN inbox' = 1 .. Len(inbox) + 1
          /\ \A p \in 1 .. Len(inbox) : inbox'[p] = inbox[p]
          /\ inbox'[Len(inbox) + 1] = call
    BY <1>4, WriteEffect
  <2>3. \A p \in DOMAIN inbox' : (p \in DOMAIN inbox /\ inbox'[p] = inbox[p]) \/ inbox'[p] = call
    BY <2>2
  <2>4. Live' = Live
    BY <2>1 DEF Live, Handed, Unread
  <2>5. CASE provider # "copilot" \/ ctx'
    BY <1>d, <2>5 DEF OneTurnInv
  <2>6. CASE provider = "copilot" /\ ~ctx'
    <3>i. /\ \A p \in DOMAIN inbox : inbox[p].op \in Prompting =>
               \E d \in Callers : Awaits(d) /\ caller[d].pc = "wait" /\ caller[d].id = inbox[p].id
          /\ cur.id # 0 => \E d \in Callers : Awaits(d) /\ caller[d].pc = "wait" /\ caller[d].id = cur.id
          /\ ~done => \A p \in DOMAIN Live : Live[p].what = "said" => \E d \in Callers : Awaits(d) /\ caller[d].id = Live[p].id
          /\ \A d \in Callers : Awaits(d) => \A p \in DOMAIN Live : Live[p].what = "said" => Live[p].id = caller[d].id
      BY <1>d, <2>6 DEF OneTurnInv
    <3>1. Op(c)' = Op(c) /\ ~Awaits(c) /\ (Awaits(c)' <=> Op(c) \in Prompting)
      BY <2>1 DEF Op, Awaits
    <3>2. \A d \in Callers \ {c} : caller'[d] = caller[d] /\ Awaits(d)' = Awaits(d)
      BY <2>1 DEF Others, Awaits, Op
    <3>3. ~done
      BY <2>1 DEF IInv, LifeInv
    <3>4. \A d \in Callers : Awaits(d) => d # c /\ Awaits(d)' /\ caller'[d] = caller[d]
      BY <3>1, <3>2
    <3>5. \A p \in DOMAIN inbox' : inbox'[p].op \in Prompting =>
            \E d \in Callers : Awaits(d)' /\ caller'[d].pc = "wait" /\ caller'[d].id = inbox'[p].id
      <4> SUFFICES ASSUME NEW p \in DOMAIN inbox', inbox'[p].op \in Prompting
                   PROVE  \E d \in Callers : Awaits(d)' /\ caller'[d].pc = "wait" /\ caller'[d].id = inbox'[p].id
        OBVIOUS
      <4>1. CASE inbox'[p] = call
        BY <2>1, <2>2, <3>1, <4>1
      <4>2. CASE p \in DOMAIN inbox /\ inbox'[p] = inbox[p]
        <5>1. PICK d \in Callers : Awaits(d) /\ caller[d].pc = "wait" /\ caller[d].id = inbox[p].id
          BY <3>i, <4>2
        <5> QED
          BY <3>4, <4>2, <5>1
      <4> QED
        BY <2>3, <4>1, <4>2
    <3>6. cur'.id # 0 => \E d \in Callers : Awaits(d)' /\ caller'[d].pc = "wait" /\ caller'[d].id = cur'.id
      BY <2>1, <3>i, <3>4
    <3>7. \A p \in DOMAIN Live' : Live'[p].what = "said" => \E d \in Callers : Awaits(d)' /\ caller'[d].id = Live'[p].id
      BY <2>4, <3>i, <3>3, <3>4
    <3>8. \A d \in Callers : Awaits(d)' => \A p \in DOMAIN Live' : Live'[p].what = "said" => Live'[p].id = caller'[d].id
      <4> SUFFICES ASSUME NEW d \in Callers, Awaits(d)', NEW p \in DOMAIN Live', Live'[p].what = "said"
                   PROVE  Live'[p].id = caller'[d].id
        OBVIOUS
      <4>1. CASE d # c
        BY <2>4, <3>i, <3>2, <4>1
      <4>2. CASE d = c
        <5>1. PICK e \in Callers : Awaits(e)
          BY <2>4, <3>i, <3>3
        <5>2. e = c
          BY <2>1, <3>1, <4>2, <5>1, OneAwaits DEF Awaits, InCall, Turns
        <5> QED
          BY <3>1, <5>1, <5>2
      <4> QED
        BY <4>1, <4>2
    <3> QED
      BY <3>5, <3>6, <3>7, <3>8 DEF OneTurnInv
  <2> QED
    BY <2>5, <2>6
<1>6. ASSUME NEW c \in Callers, CallerStep(c), caller[c].pc = "call" PROVE Register(c)
  BY <1>6 DEF CallerStep, LockTurn, Write, GiveUp, CallReturned, CallFailed, TurnStarted, CodexEvent, CopilotEvent,
     TakeResponse, FinishTurn, Answered
<1>7. Resting \/ (\E c \in Callers : CallerStep(c)) \/ AgentStep \/ AgentNotes \/ AgentDies
  BY Steps DEF Elsewhere, Resting
<1> QED
  BY <1>1, <1>2, <1>3, <1>4, <1>5, <1>6, <1>7

-----------------------------------------------------------------------------
(* The text of a turn *)

LEMMA SaidFacts == ASSUME TypeOK, NEW i \in Ids PROVE said[i] \in 0 .. MaxSaid /\ said[i] \in Nat
<1>1. said[i] \in 0 .. MaxSaid
  BY DEF TypeOK
<1> QED
  BY <1>1, Bounds

LEMMA ChunkFacts ==
  ASSUME TypeOK, NEW p \in DOMAIN Live
  PROVE  Live[p].n \in Nat /\ p \in Nat /\ (Live[p].what = "said" <=> \E i \in Ids \cup {0} : Chunk(Live[p], i))
<1>1. Live[p] \in Message /\ p \in Nat
  BY LiveType
<1>2. Live[p].n \in Nat /\ Live[p].id \in 0 .. MaxCall /\ (Live[p].what = "said" => Live[p].kind = "event")
  BY <1>1, Bounds DEF Message
<1>3. Live[p].id \in Ids \cup {0}
  BY <1>2, Bounds DEF Ids
<1> QED
  BY <1>1, <1>2, <1>3 DEF Chunk

LEMMA SameProgress ==
  ASSUME NEW i \in Ids, NEW x, NEW t, Progress(i, x, t), Live' = Live, provider' = provider, said'[i] = said[i],
         Whole(i)' => Whole(i) \/ said[i] = 0
  PROVE  Progress(i, x, t)'
<1>1. said[i] = 0 => Covered(Live, i, t, said[i])
  BY DEF Progress, Covered
<1> QED
  BY <1>1 DEF Progress, TextAfter, Sorted, Covered, Chunk

\* One message of something else goes.
LEMMA SkipProgress ==
  ASSUME TypeOK, NEW i \in Ids, NEW x, NEW t, Progress(i, x, t), provider' = provider, said'[i] = said[i],
         NEW k \in Nat, k < Len(Live), ~Chunk(Live[k + 1], i), DOMAIN Live' = 1 .. Len(Live) - 1,
         \A p \in 1 .. Len(Live) - 1 : Live'[p] = IF p <= k THEN Live[p] ELSE Live[p + 1],
         Whole(i)' => Whole(i)
  PROVE  Progress(i, x, t)'
<1>1. Len(Live) \in Nat /\ DOMAIN Live = 1 .. Len(Live)
  BY LiveType
<1> DEFINE f == [p \in 1 .. Len(Live) - 1 |-> IF p <= k THEN p ELSE p + 1]
           g == [p \in 1 .. Len(Live) |-> IF p <= k THEN p ELSE p - 1]
<1>2. /\ \A p \in DOMAIN Live' : f[p] \in DOMAIN Live /\ Live'[p] = Live[f[p]] /\ p \in Nat /\ f[p] \in Nat
      /\ \A p, q \in DOMAIN Live' : p < q => f[p] < f[q]
  BY <1>1
<1>3. \A p \in DOMAIN Live : p # k + 1 => g[p] \in DOMAIN Live' /\ f[g[p]] = p
  BY <1>1
<1>4. \A p \in DOMAIN Live', q \in DOMAIN Live : q # k + 1 /\ q < f[p] => g[q] < p
  BY <1>1
<1> HIDE DEF f, g
<1>5. \A q \in DOMAIN Live : Chunk(Live[q], i) => q # k + 1 /\ g[q] \in DOMAIN Live' /\ Live'[g[q]] = Live[q]
  BY <1>2, <1>3
<1> DEFINE s == said[i]
<1>6. Sorted(Live, i, t, s)' 
  <2>1. ASSUME NEW p \in DOMAIN Live', Chunk(Live'[p], i)
        PROVE  /\ Live'[p].n \in t + 1 .. s
               /\ \A n \in t + 1 .. Live'[p].n - 1 : \E q \in DOMAIN Live' : q < p /\ Chunk(Live'[q], i) /\ Live'[q].n = n
    <3>1. f[p] \in DOMAIN Live /\ Live'[p] = Live[f[p]]
      BY <1>2
    <3>2. /\ Live[f[p]].n \in t + 1 .. s
          /\ \A n \in t + 1 .. Live[f[p]].n - 1 : \E q \in DOMAIN Live : q < f[p] /\ Chunk(Live[q], i) /\ Live[q].n = n
      BY <2>1, <3>1 DEF Progress, Sorted
    <3> QED
      BY <1>4, <1>5, <3>1, <3>2
  <2>2. \A p, q \in DOMAIN Live' : p < q /\ Chunk(Live'[p], i) /\ Chunk(Live'[q], i) => Live'[p].n < Live'[q].n
    BY <1>2 DEF Progress, Sorted
  <2> QED
    BY <2>1, <2>2 DEF Sorted, Chunk
<1>7. Covered(Live, i, t, s) => Covered(Live, i, t, s)'
  BY <1>5 DEF Covered, Chunk
<1> QED
  BY <1>6, <1>7 DEF Progress, TextAfter

\* The rest is lost, but what comes before the end of the turn.
LEMMA CutProgress ==
  ASSUME TypeOK, NEW i \in Ids, NEW x, NEW t, Progress(i, x, t), provider' = provider, said'[i] = said[i],
         NEW k \in Nat, k <= Len(Live), DOMAIN Live' = 1 .. k, \A p \in 1 .. k : Live'[p] = Live[p],
         Whole(i)' => Whole(i) /\ \A p \in DOMAIN Live : Chunk(Live[p], i) => p <= k
  PROVE  Progress(i, x, t)'
<1>1. Len(Live) \in Nat /\ DOMAIN Live = 1 .. Len(Live)
  BY LiveType
<1>2. \A p \in DOMAIN Live' : p \in DOMAIN Live /\ Live'[p] = Live[p]
  BY <1>1
<1>3. \A p \in DOMAIN Live', q \in DOMAIN Live : q < p => q \in DOMAIN Live'
  BY <1>1
<1>4. Sorted(Live, i, t, said[i])'
  <2>1. ASSUME NEW p \in DOMAIN Live', Chunk(Live'[p], i)
        PROVE  /\ Live'[p].n \in t + 1 .. said[i]
               /\ \A n \in t + 1 .. Live'[p].n - 1 : \E q \in DOMAIN Live' : q < p /\ Chunk(Live'[q], i) /\ Live'[q].n = n
    <3>1. p \in DOMAIN Live /\ Live'[p] = Live[p]
      BY <1>2
    <3>2. /\ Live[p].n \in t + 1 .. said[i]
          /\ \A n \in t + 1 .. Live[p].n - 1 : \E q \in DOMAIN Live : q < p /\ Chunk(Live[q], i) /\ Live[q].n = n
      BY <2>1, <3>1 DEF Progress, Sorted
    <3> QED
      BY <1>2, <1>3, <3>1, <3>2
  <2>2. \A p, q \in DOMAIN Live' : p < q /\ Chunk(Live'[p], i) /\ Chunk(Live'[q], i) => Live'[p].n < Live'[q].n
    BY <1>2 DEF Progress, Sorted
  <2> QED
    BY <2>1, <2>2 DEF Sorted, Chunk
<1>5. Whole(i)' => Covered(Live, i, t, said[i])'
  <2> SUFFICES ASSUME Whole(i)', NEW n \in t + 1 .. said[i]
               PROVE  \E p \in DOMAIN Live' : Chunk(Live'[p], i) /\ Live'[p].n = n
    BY DEF Covered, Chunk
  <2>1. PICK p \in DOMAIN Live : Chunk(Live[p], i) /\ Live[p].n = n
    BY DEF Progress, Covered
  <2>2. p \in DOMAIN Live'
    BY <1>1, <2>1
  <2> QED
    BY <1>2, <2>1, <2>2
<1> QED
  BY <1>4, <1>5 DEF Progress, TextAfter

\* The agent tells something else.
LEMMA ToldProgress ==
  ASSUME TypeOK, NEW i \in Ids, NEW x, NEW t, Progress(i, x, t), provider' = provider, said'[i] = said[i],
         NEW m \in Message, Live' = Append(Live, m), ~Chunk(m, i), Whole(i)' => Whole(i) \/ said[i] = 0
  PROVE  Progress(i, x, t)'
<1>1. /\ Len(Live) \in Nat /\ DOMAIN Live = 1 .. Len(Live)
      /\ \A p \in DOMAIN Live : p \in DOMAIN Live' /\ Live'[p] = Live[p]
      /\ \A p \in DOMAIN Live' : (p \in DOMAIN Live /\ Live'[p] = Live[p]) \/ (p = Len(Live) + 1 /\ Live'[p] = m)
  BY LiveType, AddLive
<1>2. \A p \in DOMAIN Live' : Chunk(Live'[p], i) => p \in DOMAIN Live /\ Live'[p] = Live[p]
  BY <1>1
<1>3. Sorted(Live, i, t, said[i])'
  <2>1. ASSUME NEW p \in DOMAIN Live', Chunk(Live'[p], i)
        PROVE  /\ Live'[p].n \in t + 1 .. said[i]
               /\ \A n \in t + 1 .. Live'[p].n - 1 : \E q \in DOMAIN Live' : q < p /\ Chunk(Live'[q], i) /\ Live'[q].n = n
    <3>1. p \in DOMAIN Live /\ Live'[p] = Live[p]
      BY <1>2, <2>1
    <3>2. /\ Live[p].n \in t + 1 .. said[i]
          /\ \A n \in t + 1 .. Live[p].n - 1 : \E q \in DOMAIN Live : q < p /\ Chunk(Live[q], i) /\ Live[q].n = n
      BY <2>1, <3>1 DEF Progress, Sorted
    <3> QED
      BY <1>1, <3>1, <3>2
  <2>2. \A p, q \in DOMAIN Live' : p < q /\ Chunk(Live'[p], i) /\ Chunk(Live'[q], i) => Live'[p].n < Live'[q].n
    BY <1>2 DEF Progress, Sorted
  <2> QED
    BY <2>1, <2>2 DEF Sorted, Chunk
<1>4. Covered(Live, i, t, said[i]) => Covered(Live, i, t, said[i])'
  BY <1>1 DEF Covered, Chunk
<1>5. said[i] = 0 => Covered(Live, i, t, said[i])
  BY DEF Progress, Covered
<1> QED
  BY <1>3, <1>4, <1>5 DEF Progress, TextAfter

\* The agent says something.
LEMMA SaidProgress ==
  ASSUME TypeOK, NEW i \in Ids, NEW x, NEW t, Progress(i, x, t), provider' = provider, said'[i] = said[i] + 1,
         NEW m \in Message, m.n = said[i] + 1, Chunk(m, i),
         IF reader.pc = "ended" THEN Live' = Live /\ ~Whole(i)' ELSE Live' = Append(Live, m) /\ Whole(i)
  PROVE  Progress(i, x, t)'
<1>s. said[i] \in Nat /\ t \in 0 .. said[i] /\ t \in Nat
  BY SaidFacts DEF Progress
<1>p. /\ Sorted(Live, i, t, said[i]) /\ x = TextAfter(t) /\ TextAfter(t)' = TextAfter(t) /\ t \in 0 .. said'[i]
  BY <1>s DEF Progress, TextAfter
<1>1. CASE reader.pc = "ended"
  <2>1. Live' = Live /\ ~Whole(i)'
    BY <1>1
  <2>2. Sorted(Live, i, t, said[i])'
    <3>1. \A n : n \in t + 1 .. said[i] => n \in t + 1 .. said[i] + 1
      BY <1>s
    <3> QED
      BY <1>p, <2>1, <3>1 DEF Sorted, Chunk
  <2> QED
    BY <1>p, <2>1, <2>2 DEF Progress
<1>2. CASE reader.pc # "ended"
  <2>1. /\ Len(Live) \in Nat /\ DOMAIN Live = 1 .. Len(Live)
        /\ \A p \in DOMAIN Live : p \in DOMAIN Live' /\ Live'[p] = Live[p]
        /\ Len(Live) + 1 \in DOMAIN Live' /\ Live'[Len(Live) + 1] = m
        /\ \A p \in DOMAIN Live' : (p \in DOMAIN Live /\ Live'[p] = Live[p]) \/ (p = Len(Live) + 1 /\ Live'[p] = m)
    BY <1>2, LiveType, AddLive
  <2>2. Covered(Live, i, t, said[i])
    BY <1>2 DEF Progress
  <2>3. ASSUME NEW p \in DOMAIN Live', Chunk(Live'[p], i)
        PROVE  /\ Live'[p].n \in t + 1 .. said'[i]
               /\ \A n \in t + 1 .. Live'[p].n - 1 : \E q \in DOMAIN Live' : q < p /\ Chunk(Live'[q], i) /\ Live'[q].n = n
    <3>1. CASE p \in DOMAIN Live /\ Live'[p] = Live[p]
      <4>1. /\ Live[p].n \in t + 1 .. said[i]
            /\ \A n \in t + 1 .. Live[p].n - 1 : \E q \in DOMAIN Live : q < p /\ Chunk(Live[q], i) /\ Live[q].n = n
        BY <1>p, <2>3, <3>1 DEF Sorted
      <4>2. Live'[p].n \in t + 1 .. said'[i]
        BY <1>s, <3>1, <4>1
      <4> QED
        BY <2>1, <3>1, <4>1, <4>2
    <3>2. CASE p = Len(Live) + 1 /\ Live'[p] = m
      <4>1. Live'[p].n = said[i] + 1 /\ Live'[p].n - 1 = said[i]
        BY <1>s, <3>2
      <4>2. \A n \in t + 1 .. said[i] : \E q \in DOMAIN Live : Chunk(Live[q], i) /\ Live[q].n = n
        BY <2>2 DEF Covered
      <4>3. \A q \in DOMAIN Live : q < p
        BY <2>1, <3>2
      <4>4. Live'[p].n \in t + 1 .. said'[i]
        BY <1>s, <4>1
      <4> QED
        BY <2>1, <4>1, <4>2, <4>3, <4>4
    <3> QED
      BY <2>1, <3>1, <3>2
  <2>4. ASSUME NEW p \in DOMAIN Live', NEW q \in DOMAIN Live', p < q, Chunk(Live'[p], i), Chunk(Live'[q], i)
        PROVE  Live'[p].n < Live'[q].n
    <3>1. p \in DOMAIN Live /\ Live'[p] = Live[p]
      BY <2>1, <2>4
    <3>2. CASE q \in DOMAIN Live /\ Live'[q] = Live[q]
      BY <1>p, <2>4, <3>1, <3>2 DEF Sorted
    <3>3. CASE Live'[q] = m
      <4>1. Live[p].n \in t + 1 .. said[i]
        BY <1>p, <2>4, <3>1 DEF Sorted
      <4> QED
        BY <1>s, <3>1, <3>3, <4>1
    <3> QED
      BY <2>1, <3>2, <3>3
  <2>5. Sorted(Live, i, t, said[i])'
    BY <2>3, <2>4 DEF Sorted, Chunk
  <2>6. Covered(Live, i, t, said[i])'
    <3> SUFFICES ASSUME NEW n \in t + 1 .. said'[i] PROVE \E p \in DOMAIN Live' : Chunk(Live'[p], i) /\ Live'[p].n = n
      BY DEF Covered, Chunk
    <3>1. CASE n \in t + 1 .. said[i]
      BY <2>1, <2>2, <3>1 DEF Covered
    <3>2. CASE n = said[i] + 1
      BY <2>1, <3>2
    <3> QED
      BY <1>s, <3>1, <3>2
  <2> QED
    BY <1>p, <2>5, <2>6 DEF Progress
<1> QED
  BY <1>1, <1>2

LEMMA NextAnswer ==
  ASSUME NEW t \in Nat
  PROVE  TextAfter(t + 1) = IF provider = "copilot" THEN Append(TextAfter(t), t + 1) ELSE <<t + 1>>
<1>1. CASE provider # "copilot"
  BY <1>1 DEF TextAfter
<1>2. CASE provider = "copilot"
  <2> DEFINE a == [k \in 1 .. t |-> k]
             b == [k \in 1 .. t + 1 |-> k]
  <2>1. a \in Seq(Nat) /\ Len(a) = t /\ \A k \in 1 .. t : a[k] = k
    OBVIOUS
  <2>2. b \in Seq(Nat) /\ Len(b) = t + 1 /\ \A k \in 1 .. t + 1 : b[k] = k
    OBVIOUS
  <2> HIDE DEF a, b
  <2> DEFINE e == Append(a, t + 1)
  <2>3. e \in Seq(Nat) /\ Len(e) = t + 1 /\ e[t + 1] = t + 1 /\ \A k \in 1 .. t : e[k] = k
    BY <2>1, AppendProperties
  <2> HIDE DEF e
  <2>4. \A k \in 1 .. Len(e) : e[k] = b[k]
    BY <2>2, <2>3
  <2>5. e = b
    BY <2>2, <2>3, <2>4, SeqEqual
  <2> QED
    BY <1>2, <2>5 DEF TextAfter, a, b, e
<1> QED
  BY <1>1, <1>2

\* The first message of the turn that is on its way is the next one.
LEMMA TakeProgress ==
  ASSUME TypeOK, NEW i \in Ids, NEW x, NEW t, Progress(i, x, t), provider' = provider, said'[i] = said[i],
         events # <<>>, events' = Tail(events), UNCHANGED <<reader, out>>,
         Chunk(Head(events), i), Whole(i)' => Whole(i), DOMAIN Live' = 1 .. Len(Live')
  PROVE  Head(events).n = t + 1 /\ t \in Nat /\ \A y : y = TextAfter(t + 1) => Progress(i, y, t + 1)'
<1>1. /\ Live[1] = Head(events) /\ Len(events) >= 1 /\ Len(Live') = Len(Live) - 1
      /\ \A p \in 1 .. Len(Live) - 1 : Live'[p] = Live[p + 1]
  BY TakeLive
<1>2. /\ Len(Live) \in Nat /\ Len(events) \in Nat /\ DOMAIN Live = 1 .. Len(Live) /\ Len(events) <= Len(Live)
      /\ DOMAIN Live' = 1 .. Len(Live) - 1
  BY <1>1, LiveType
<1>3. 1 \in DOMAIN Live /\ \A p \in DOMAIN Live' : p + 1 \in DOMAIN Live /\ Live'[p] = Live[p + 1] /\ p + 1 > 1
  BY <1>1, <1>2
<1>4. \A p \in DOMAIN Live : p # 1 => p - 1 \in DOMAIN Live' /\ Live'[p - 1] = Live[p]
  BY <1>1, <1>2
<1>s. said[i] \in Nat /\ t \in 0 .. said[i] /\ t \in Nat /\ Sorted(Live, i, t, said[i])
  BY SaidFacts DEF Progress
<1>5. Live[1].n \in t + 1 .. said[i]
      /\ \A n \in t + 1 .. Live[1].n - 1 : \E q \in DOMAIN Live : q < 1 /\ Chunk(Live[q], i) /\ Live[q].n = n
  BY <1>1, <1>3, <1>s DEF Sorted
<1>6. Live[1].n = t + 1
  <2>1. \A q \in DOMAIN Live : ~(q < 1)
    BY <1>2
  <2>2. t + 1 \notin t + 1 .. Live[1].n - 1
    BY <1>5, <2>1
  <2> QED
    BY <1>s, <1>5, <2>2
<1>7. t + 1 \in 0 .. said[i] /\ t + 1 \in Nat
  BY <1>s, <1>5, <1>6
<1>8. Sorted(Live, i, t + 1, said[i])'
  <2>1. ASSUME NEW p \in DOMAIN Live', Chunk(Live'[p], i)
        PROVE  /\ Live'[p].n \in t + 1 + 1 .. said[i]
               /\ \A n \in t + 1 + 1 .. Live'[p].n - 1 : \E q \in DOMAIN Live' : q < p /\ Chunk(Live'[q], i) /\ Live'[q].n = n
    <3>1. p + 1 \in DOMAIN Live /\ Live'[p] = Live[p + 1] /\ 1 < p + 1
      BY <1>3
    <3>2. /\ Live[p + 1].n \in t + 1 .. said[i] /\ Live[1].n < Live[p + 1].n
          /\ \A n \in t + 1 .. Live[p + 1].n - 1 : \E q \in DOMAIN Live : q < p + 1 /\ Chunk(Live[q], i) /\ Live[q].n = n
      BY <1>1, <1>3, <1>s, <2>1, <3>1 DEF Sorted
    <3>3. Live'[p].n \in t + 1 + 1 .. said[i]
      BY <1>6, <1>s, <3>1, <3>2
    <3>4. ASSUME NEW n \in t + 1 + 1 .. Live'[p].n - 1
          PROVE  \E q \in DOMAIN Live' : q < p /\ Chunk(Live'[q], i) /\ Live'[q].n = n
      <4>1. n \in t + 1 .. Live[p + 1].n - 1 /\ n # t + 1
        BY <1>s, <3>1, <3>2, <3>4
      <4>2. PICK q \in DOMAIN Live : q < p + 1 /\ Chunk(Live[q], i) /\ Live[q].n = n
        BY <3>2, <4>1
      <4>3. q # 1
        BY <1>6, <4>1, <4>2
      <4>4. q - 1 \in DOMAIN Live' /\ Live'[q - 1] = Live[q] /\ q - 1 < p
        BY <1>2, <1>4, <4>2, <4>3
      <4> QED
        BY <4>2, <4>4
    <3> QED
      BY <3>3, <3>4
  <2>2. \A p, q \in DOMAIN Live' : p < q /\ Chunk(Live'[p], i) /\ Chunk(Live'[q], i) => Live'[p].n < Live'[q].n
    <3>1. \A p, q \in DOMAIN Live' : p < q => p + 1 < q + 1
      BY <1>2
    <3> QED
      BY <1>3, <1>s, <3>1 DEF Sorted
  <2> QED
    BY <2>1, <2>2 DEF Sorted, Chunk
<1>9. Whole(i)' => Covered(Live, i, t + 1, said[i])'
  <2> SUFFICES ASSUME Whole(i)', NEW n \in t + 1 + 1 .. said[i]
               PROVE  \E p \in DOMAIN Live' : Chunk(Live'[p], i) /\ Live'[p].n = n
    BY DEF Covered, Chunk
  <2>1. n \in t + 1 .. said[i] /\ n # t + 1
    BY <1>s
  <2>2. PICK p \in DOMAIN Live : Chunk(Live[p], i) /\ Live[p].n = n
    BY <2>1 DEF Progress, Covered
  <2>3. p # 1
    BY <1>6, <2>1, <2>2
  <2> QED
    BY <1>4, <2>2, <2>3
<1> QED
  BY <1>1, <1>6, <1>7, <1>8, <1>9, <1>s DEF Progress, TextAfter

LEMMA LiveDomain == ASSUME TypeOK' PROVE DOMAIN Live' = 1 .. Len(Live') /\ Len(Live') \in Nat
<1>1. events' \in Seq(Message) /\ out' \in Seq(Message) /\ reader'.msg \in Message
  BY DEF TypeOK, ReaderType
<1>2. Handed' \in Seq(Message) /\ Unread' \in Seq(Message)
  BY <1>1 DEF Handed, Unread
<1>3. Live' \in Seq(Message)
  BY <1>1, <1>2, ConcatProperties DEF Live
<1> QED
  BY <1>3, LenProperties

LEMMA WholeBefore ==
  ASSUME NEW i \in Ids, provider' = provider,
         cur'.id = i /\ reader'.pc # "ended" => cur.id = i /\ reader.pc # "ended",
         \A p \in DOMAIN Live' : \E q \in DOMAIN Live : Live[q] = Live'[p],
         response'[i] # "none" /\ provider = "copilot" => Whole(i)
  PROVE  Whole(i)' => Whole(i)
BY DEF Whole, End

\* What the goroutines take and the reader does loses nothing of a turn that goes on.
LEMMA RestProgress ==
  ASSUME IInv, IInv', IdInv, EndInv, Resting, NEW i \in Ids, NEW x, NEW t, Progress(i, x, t)
  PROVE  Progress(i, x, t)'
<1>t. TypeOK /\ TypeOK'
  BY DEF IInv
<1>1. UNCHANGED <<provider, cur, said>> /\ Embedded
  BY <1>t, QuietRest DEF Quiet
<1>2. \A p \in DOMAIN Live' : \E q \in DOMAIN Live : Live[q] = Live'[p]
  BY <1>1, EmbeddedSaid
<1>l. Len(Live) \in Nat /\ DOMAIN Live = 1 .. Len(Live) /\ DOMAIN Live' = 1 .. Len(Live') /\ Len(events) \in Nat
  BY <1>t, LiveType, LiveDomain
<1>3. CASE ReadResponse \/ ReadRequest
  <2>1. /\ events' = events /\ Len(events) < Len(Live) /\ Live[Len(events) + 1] = Head(out)
        /\ Len(Live') = Len(Live) - 1
        /\ \A p \in 1 .. Len(Live) - 1 : Live'[p] = IF p <= Len(events) THEN Live[p] ELSE Live[p + 1]
    BY <1>3, <1>t, SkipLive
  <2>2. Head(out).kind # "event" /\ reader' = reader
    BY <1>3 DEF ReadResponse, ReadRequest, channels
  <2>3. response'[i] # "none" /\ provider = "copilot" => Whole(i)
    <3>1. CASE response'[i] = response[i]
      BY <3>1 DEF Whole
    <3>2. CASE response'[i] # response[i]
      <4>1. ReadResponse
        BY <1>3, <3>2 DEF ReadRequest, channels
      <4>2. Head(out).id = i /\ Head(out).kind = "response"
        BY <1>t, <3>2, <4>1 DEF ReadResponse, TypeOK
      <4>3. Len(events) + 1 \in DOMAIN Live
        BY <1>l, <2>1
      <4> QED
        BY <2>1, <4>2, <4>3 DEF Whole, End
    <3> QED
      BY <3>1, <3>2
  <2>4. Whole(i)' => Whole(i)
    BY <1>1, <1>2, <2>2, <2>3, WholeBefore
  <2>5. ~Chunk(Live[Len(events) + 1], i) /\ DOMAIN Live' = 1 .. Len(Live) - 1
    BY <1>l, <2>1, <2>2 DEF Chunk
  <2> QED
    BY <1>1, <1>l, <1>t, <2>1, <2>4, <2>5, SkipProgress
<1>4. CASE Reap \/ ReaderEnds
  <2>1. /\ events' = events /\ Len(Live') \in Nat /\ Len(events) <= Len(Live') /\ Len(Live') <= Len(Live)
        /\ \A p \in 1 .. Len(Live') : Live'[p] = Live[p]
    BY <1>4, <1>t, CutLive
  <2>2. ~(cur'.id = i /\ reader'.pc # "ended")
    <3>1. CASE Reap
      <4>1. cur.id = 0
        BY <3>1 DEF Reap, IdInv
      <4> QED
        BY <1>1, <4>1, Bounds
    <3>2. CASE ReaderEnds
      BY <3>2 DEF ReaderEnds, Reading
    <3> QED
      BY <1>4, <3>1, <3>2
  <2>3. response' = response
    BY <1>4 DEF Reap, ReaderEnds, channels
  <2>4. response'[i] # "none" /\ provider = "copilot" => Whole(i)
    BY <2>3 DEF Whole
  <2>5. Whole(i)' => Whole(i)
    BY <1>1, <1>2, <2>2, <2>4, WholeBefore
  <2>6. ASSUME Whole(i)', NEW q \in DOMAIN Live, Chunk(Live[q], i) PROVE q <= Len(Live')
    <3>1. CASE \E p \in DOMAIN Live' : End(Live[p], i)'
      <4>1. PICK p \in DOMAIN Live' : End(Live[p], i)'
        BY <3>1
      <4>2. p \in DOMAIN Live /\ End(Live[p], i) /\ p <= Len(Live') /\ p \in Nat
        BY <1>1, <1>l, <2>1, <4>1 DEF End
      <4>3. ~(p < q)
        BY <2>6, <4>2 DEF EndInv
      <4> QED
        BY <1>l, <2>1, <4>2, <4>3
    <3>2. CASE provider = "copilot" /\ response[i] # "none"
      <4>1. ~(q > Len(events))
        BY <2>6, <3>2 DEF EndInv
      <4> QED
        BY <1>l, <2>1, <4>1
    <3> QED
      BY <1>1, <2>2, <2>3, <2>6, <3>1, <3>2 DEF Whole
  <2> QED
    BY <1>1, <1>l, <1>t, <2>1, <2>5, <2>6, CutProgress
<1>5. CASE ~(ReadResponse \/ ReadRequest \/ Reap \/ ReaderEnds)
  <2>1. Live' = Live /\ (reader'.pc # "ended" => reader.pc # "ended") /\ response' = response
    <3>1. CASE ReadEvent \/ SendEvent
      <4>1. Live' = Live
        BY <1>t, <3>1, HandLive
      <4> QED
        BY <3>1, <4>1 DEF ReadEvent, SendEvent
    <3>2. CASE ~(ReadEvent \/ SendEvent)
      <4>1. UNCHANGED <<channels, out>>
        BY <1>5, <3>2 DEF Resting, ReaderStep, StartSession, RunTurn, SetModel, Enter, Close, Closed, Cancel,
           CancelProcess, HandleRequest, vars, agent
      <4> QED
        BY <4>1 DEF channels, Live, Handed, Unread
    <3> QED
      BY <3>1, <3>2
  <2>2. response'[i] # "none" /\ provider = "copilot" => Whole(i)
    BY <2>1 DEF Whole
  <2>3. Whole(i)' => Whole(i)
    BY <1>1, <1>2, <2>1, <2>2, WholeBefore
  <2> QED
    BY <1>1, <2>1, <2>3, SameProgress
<1> QED
  BY <1>3, <1>4, <1>5

LEMMA CallerProgress ==
  ASSUME IInv, NEW d \in Callers, CallerStep(d), events' = events, NEW i \in Ids, NEW x, NEW t, Progress(i, x, t)
  PROVE  Progress(i, x, t)'
<1>1. /\ UNCHANGED <<provider, cur, said, reader, out>>
      /\ response' = response \/ (InCall(d) /\ response' = [response EXCEPT ![caller[d].id] = "none"])
  <2>1. CASE Register(d) \/ Write(d)
    BY <2>1 DEF Register, Write, channels, agent
  <2>2. CASE ~Register(d) /\ ~Write(d)
    <3>1. caller[d].pc # "call"
      BY <2>2 DEF CallerStep, LockTurn, GiveUp, CallReturned, CallFailed, TurnStarted, CodexEvent, CopilotEvent,
         TakeResponse, FinishTurn, Answered
    <3> QED
      BY <2>2, <3>1, CallerBooks
  <2> QED
    BY <2>1, <2>2
<1>2. Live' = Live
  BY <1>1 DEF Live, Handed, Unread
<1>3. response'[i] # "none" => response[i] # "none"
  BY <1>1 DEF IInv, TypeOK
<1>4. response'[i] # "none" /\ provider = "copilot" => Whole(i)
  BY <1>3 DEF Whole
<1>5. Whole(i)' => Whole(i)
  BY <1>1, <1>2, <1>4, WholeBefore
<1> QED
  BY <1>1, <1>2, <1>5, SameProgress

\* The agent tells something that is not the text of this turn.
LEMMA OtherTold ==
  ASSUME TypeOK, NEW i \in Ids, NEW x, NEW t, Progress(i, x, t), UNCHANGED <<provider, events, reader, response>>,
         said'[i] = said[i], NEW m \in Message, Tells(m), ~Chunk(m, i), End(m, i) => cur.id = i \/ said[i] = 0,
         cur'.id = i => cur.id = i \/ said[i] = 0
  PROVE  Progress(i, x, t)'
<1>1. Live' = IF reader.pc = "ended" THEN Live ELSE Append(Live, m)
  BY TellLive
<1>2. \A p \in DOMAIN Live' : (p \in DOMAIN Live /\ Live'[p] = Live[p]) \/ (Live'[p] = m /\ reader.pc # "ended")
  BY <1>1, AddLive
<1>3. \A p \in DOMAIN Live' : End(Live[p], i)' => Whole(i) \/ said[i] = 0
  BY <1>2 DEF End, Whole
<1>4. Whole(i)' => Whole(i) \/ said[i] = 0
  BY <1>3 DEF Whole
<1>5. CASE reader.pc = "ended"
  BY <1>1, <1>4, <1>5, SameProgress
<1>6. CASE reader.pc # "ended"
  BY <1>1, <1>4, <1>6, ToldProgress
<1> QED
  BY <1>5, <1>6

LEMMA AgentProgress ==
  ASSUME IInv, IdInv, EndInv, AgentStep \/ AgentNotes \/ AgentDies, NEW i \in Ids, NEW x, NEW t, Progress(i, x, t)
  PROVE  Progress(i, x, t)'
<1>t. TypeOK
  BY DEF IInv
<1>u. UNCHANGED <<provider, events, reader, response>>
  BY DEF AgentStep, AgentTakes, AgentSays, AgentAsks, AgentEnds, AgentNotes, AgentDies, client, channels
<1>n. NoTurn.id # i
  BY Bounds DEF NoTurn
<1>o. ASSUME out' = out, said' = said, cur'.id = i => cur.id = i \/ said[i] = 0 PROVE Progress(i, x, t)'
  <2>1. Live' = Live
    BY <1>o, <1>u DEF Live, Handed, Unread
  <2>2. \A p \in DOMAIN Live' : End(Live[p], i)' => Whole(i)
    BY <1>u, <2>1 DEF End, Whole
  <2>3. Whole(i)' => Whole(i) \/ said[i] = 0
    BY <1>o, <1>u, <2>2 DEF Whole
  <2> QED
    BY <1>o, <1>u, <2>1, <2>3, SameProgress
<1>1. CASE AgentTakes
  <2>0. PICK call : call = Head(inbox)
    OBVIOUS
  <2>1. inbox \in Seq(Call) /\ inbox # <<>> /\ said' = said
    BY <1>1, <1>t DEF AgentTakes, TypeOK
  <2>2. call \in Call /\ 1 \in DOMAIN inbox /\ call = inbox[1]
    BY <2>0, <2>1, EmptySeq, LenProperties
  <2>3. call.id \in 0 .. MaxCall
    BY <2>2, Bounds DEF Call
  <2>4. call.id = i => said[i] = 0
    <3>1. ~Known(call.id)
      BY <2>2 DEF Known
    <3> QED
      BY <3>1 DEF IdInv
  <2>5. cur'.id = i => cur.id = i \/ said[i] = 0
    <3>1. cur' = cur \/ cur' = call
      BY <1>1, <2>0 DEF AgentTakes
    <3> QED
      BY <2>4, <3>1
  <2>6. out' = out \/ \E what \in {"ok", "error"} : Tells(Response(call.id, what))
    BY <1>1, <2>0 DEF AgentTakes
  <2>7. CASE out' = out
    BY <1>o, <2>1, <2>5, <2>7
  <2>8. ASSUME NEW what \in {"ok", "error"}, Tells(Response(call.id, what)) PROVE Progress(i, x, t)'
    <3>1. Response(call.id, what) \in Message
      BY <2>3, MessageTypes
    <3>2. ~Chunk(Response(call.id, what), i) /\ (End(Response(call.id, what), i) => said[i] = 0)
      BY <2>4 DEF Chunk, End, Response
    <3> QED
      BY <1>t, <1>u, <2>1, <2>5, <2>8, <3>1, <3>2, OtherTold
  <2> QED
    BY <2>6, <2>7, <2>8
<1>2. CASE AgentSays
  <2>1. cur # NoTurn /\ cur' = cur
    BY <1>2 DEF AgentSays, Works
  <2>2. cur.id \in Ids /\ cur.id # 0 /\ cur.id \in 0 .. MaxCall /\ said[cur.id] \in 0 .. MaxSaid
    BY <2>1, CurFacts
  <2> DEFINE n == said[cur.id] + 1
  <2>n. n \in 0 .. MaxSaid /\ n # 0
    BY <1>2, <2>2, Bounds DEF AgentSays
  <2>4. Tells(Event(cur.id, "said", n)) /\ said' = [said EXCEPT ![cur.id] = n]
    BY <1>2 DEF AgentSays
  <2>k. n = said[cur.id] + 1
    OBVIOUS
  <2> HIDE DEF n
  <2>m. PICK m : m = Event(cur.id, "said", n)
    OBVIOUS
  <2>5. m \in Message /\ m.id = cur.id /\ m.what = "said" /\ m.kind = "event" /\ m.n = n /\ Tells(m)
    BY <2>2, <2>4, <2>m, <2>n, MessageTypes DEF Event
  <2>6. CASE cur.id = i
    <3>1. said'[i] = said[i] + 1
      BY <2>4, <2>k, <2>6, <1>t DEF TypeOK
    <3>2. Chunk(m, i) /\ m.n = said[i] + 1
      BY <2>5, <2>6, <2>k DEF Chunk
    <3>3. Live' = IF reader.pc = "ended" THEN Live ELSE Append(Live, m)
      BY <1>t, <1>u, <2>5, TellLive
    <3>4. CASE reader.pc = "ended"
      <4>1. ~\E p \in DOMAIN Live : End(Live[p], i)
        BY <2>6 DEF EndInv, Over
      <4>2. ~(provider = "copilot" /\ response[i] # "none")
        BY <2>6 DEF EndInv, Over
      <4>3. ~\E p \in DOMAIN Live' : End(Live[p], i)'
        BY <1>u, <3>3, <3>4, <4>1 DEF End
      <4>4. ~Whole(i)'
        BY <1>u, <3>4, <4>2, <4>3 DEF Whole
      <4> QED
        BY <1>t, <1>u, <2>5, <3>1, <3>2, <3>3, <3>4, <4>4, SaidProgress
    <3>5. CASE reader.pc # "ended"
      <4>1. Whole(i)
        BY <2>6, <3>5 DEF Whole
      <4> QED
        BY <1>t, <1>u, <2>5, <3>1, <3>2, <3>3, <3>5, <4>1, SaidProgress
    <3> QED
      BY <3>4, <3>5
  <2>7. CASE cur.id # i
    <3>1. said'[i] = said[i]
      BY <2>4, <2>7, <1>t DEF TypeOK
    <3>2. ~Chunk(m, i) /\ ~End(m, i)
      BY <2>5, <2>7 DEF Chunk, End
    <3> QED
      BY <1>t, <1>u, <2>1, <2>5, <3>1, <3>2, OtherTold
  <2> QED
    BY <2>6, <2>7
<1>3. CASE AgentAsks \/ AgentNotes
  <2>1. cur' = cur /\ said' = said /\ (Tells(Request) \/ Tells(Event(0, "note", 0)))
    BY <1>3 DEF AgentAsks, AgentNotes
  <2> QED
    BY <1>t, <1>u, <2>1, NothingSaid, OtherTold
<1>4. CASE AgentEnds
  <2>1. cur # NoTurn /\ cur' = NoTurn /\ said' = said
    BY <1>4 DEF AgentEnds, Works
  <2>2. cur.id \in 0 .. MaxCall /\ said[cur.id] \in 0 .. MaxSaid /\ 0 \in 0 .. MaxSaid
    BY <2>1, CurFacts, Bounds
  <2>3. \E m \in Message : Tells(m) /\ m.id = cur.id /\ m.what # "said"
    <3>1. \/ \E n \in {0, said[cur.id]} : Tells(Event(cur.id, "completed", n))
          \/ Tells(Event(cur.id, "failed", 0))
          \/ Tells(Response(cur.id, "ok")) \/ Tells(Response(cur.id, "error"))
      BY <1>4 DEF AgentEnds
    <3>2. \A n \in {0, said[cur.id]} : n \in 0 .. MaxSaid
      BY <2>2
    <3>3. /\ \A n \in 0 .. MaxSaid : Event(cur.id, "completed", n) \in Message
          /\ Event(cur.id, "failed", 0) \in Message
          /\ Response(cur.id, "ok") \in Message /\ Response(cur.id, "error") \in Message
      BY <2>2, MessageTypes
    <3>4. /\ \A n : Event(cur.id, "completed", n).id = cur.id /\ Event(cur.id, "completed", n).what # "said"
          /\ Event(cur.id, "failed", 0).id = cur.id /\ Event(cur.id, "failed", 0).what # "said"
          /\ \A what \in {"ok", "error"} : Response(cur.id, what).id = cur.id /\ Response(cur.id, what).what # "said"
      BY DEF Event, Response
    <3> QED
      BY <3>1, <3>2, <3>3, <3>4
  <2>4. PICK m \in Message : Tells(m) /\ m.id = cur.id /\ m.what # "said"
    BY <2>3
  <2>5. ~Chunk(m, i) /\ (End(m, i) => cur.id = i)
    BY <2>4 DEF Chunk, End
  <2> QED
    BY <1>t, <1>u, <1>n, <2>1, <2>4, <2>5, OtherTold
<1>5. CASE AgentDies
  <2>1. out' = out /\ said' = said /\ cur' = NoTurn
    BY <1>5 DEF AgentDies
  <2> QED
    BY <1>n, <1>o, <2>1
<1> QED
  BY <1>1, <1>2, <1>3, <1>4, <1>5 DEF AgentStep

LEMMA TakenProgress ==
  ASSUME IInv, IInv', UNCHANGED <<provider, cur, said, reader, out, response>>, events # <<>>, events' = Tail(events),
         NEW i \in Ids, NEW x, NEW t, Progress(i, x, t)
  PROVE  /\ ~Chunk(Head(events), i) => Progress(i, x, t)'
         /\ Chunk(Head(events), i) => /\ Head(events).n = t + 1 /\ t \in Nat
                                      /\ \A y : y = TextAfter(t + 1) => Progress(i, y, t + 1)'
<1>t. TypeOK /\ TypeOK'
  BY DEF IInv
<1>1. /\ Live[1] = Head(events) /\ Len(events) >= 1 /\ Len(Live') = Len(Live) - 1
      /\ \A p \in 1 .. Len(Live) - 1 : Live'[p] = Live[p + 1]
  BY <1>t, TakeLive
<1>2. Len(Live) \in Nat /\ DOMAIN Live = 1 .. Len(Live) /\ DOMAIN Live' = 1 .. Len(Live') /\ Len(events) <= Len(Live)
      /\ Len(events) \in Nat
  BY <1>t, LiveType, LiveDomain
<1>3. \A p \in DOMAIN Live' : \E q \in DOMAIN Live : Live[q] = Live'[p]
  <2>1. \A p \in DOMAIN Live' : p + 1 \in DOMAIN Live /\ Live'[p] = Live[p + 1]
    BY <1>1, <1>2
  <2> QED
    BY <2>1
<1>4. response'[i] # "none" /\ provider = "copilot" => Whole(i)
  BY DEF Whole
<1>5. Whole(i)' => Whole(i)
  BY <1>3, <1>4, WholeBefore
<1>6. CASE ~Chunk(Head(events), i)
  <2>1. /\ 0 \in Nat /\ 0 < Len(Live) /\ ~Chunk(Live[0 + 1], i) /\ DOMAIN Live' = 1 .. Len(Live) - 1
        /\ \A p \in 1 .. Len(Live) - 1 : Live'[p] = IF p <= 0 THEN Live[p] ELSE Live[p + 1]
    BY <1>1, <1>2, <1>6
  <2> QED
    BY <1>t, <1>5, <1>6, <2>1, SkipProgress
<1>7. CASE Chunk(Head(events), i)
  BY <1>t, <1>2, <1>5, <1>7, TakeProgress
<1> QED
  BY <1>6, <1>7

\* A goroutine takes an event while its turn goes on.
LEMMA TakerProgress ==
  ASSUME IInv, IInv', TurnInv, OneTurnInv, ~ctx, NEW c \in Callers, CodexEvent(c) \/ CopilotEvent(c),
         Turning(c), Turning(c)', NEW i \in Ids, i = caller[c].id, NEW t, Progress(i, caller[c].text, t)
  PROVE  \E u : Progress(i, caller[c].text, u)'
<1>t. TypeOK /\ caller \in [Callers -> CallerType] /\ caller[c] \in CallerType
  BY DEF IInv, TypeOK
<1>1. UNCHANGED <<provider, cur, said, reader, out, response>> /\ events # <<>> /\ events' = Tail(events)
  <2>1. CASE CopilotEvent(c)
    BY <2>1 DEF CopilotEvent, agent
  <2>2. CASE CodexEvent(c)
    <3>1. ~Fail(c)
      <4> SUFFICES ASSUME Fail(c) PROVE FALSE
        OBVIOUS
      <4>1. Returns(c)
        BY <2>2, FailEffect DEF CodexEvent, InCall
      <4> QED
        BY <4>1 DEF Returns, Turning
    <3> QED
      BY <2>2, <3>1 DEF CodexEvent, agent
  <2> QED
    BY <2>1, <2>2
<1>h. /\ Head(events) \in Message /\ 1 \in DOMAIN Live /\ Live[1] = Head(events)
  <2>1. Live[1] = Head(events) /\ Len(events) >= 1
    BY <1>t, <1>1, TakeLive
  <2>2. 1 \in DOMAIN Live
    BY <1>t, <2>1, LiveType
  <2> QED
    BY <1>t, <2>1, <2>2, LiveType
<1> DEFINE h == Head(events)
<1>2. PICK x : x = caller[c].text
  OBVIOUS
<1>3. PICK y : y = caller'[c].text
  OBVIOUS
<1>4. /\ ~Chunk(h, i) => Progress(i, x, t)'
      /\ Chunk(h, i) => /\ h.n = t + 1 /\ t \in Nat
                        /\ \A z : z = TextAfter(t + 1) => Progress(i, z, t + 1)'
  BY <1>1, <1>2, TakenProgress
<1> HIDE DEF h
<1>5. IF Chunk(h, i) THEN y = TextAfter(t + 1) ELSE y = x
  <2>1. CASE CodexEvent(c)
    <3>1. caller[c].pc = "read"
      BY <2>1 DEF CodexEvent
    <3>2. provider # "copilot"
      BY <3>1, ReadsCodex
    <3>3. caller' = [caller EXCEPT ![c].text = TextOf(c, h)] /\ ~(h.id = i /\ h.what \in {"completed", "failed"})
      <4>1. ~Fail(c)
        <5> SUFFICES ASSUME Fail(c) PROVE FALSE
          OBVIOUS
        <5>1. Returns(c)
          BY <2>1, FailEffect DEF CodexEvent, InCall
        <5> QED
          BY <5>1 DEF Returns, Turning
      <4>2. caller' # [caller EXCEPT ![c] = Idle]
        BY <1>t, IdleTypes DEF Turning
      <4> QED
        BY <2>1, <4>1, <4>2 DEF CodexEvent, h
    <3>4. y = TextOf(c, h)
      BY <1>t, <1>3, <3>3
    <3>5. h.what = "said" => h.kind = "event" /\ h.n # 0
      BY <1>h DEF Message, h
    <3>6. CASE Chunk(h, i)
      <4>1. y = <<h.n>>
        BY <3>4, <3>5, <3>6 DEF TextOf, Chunk
      <4>2. h.n = t + 1 /\ t \in Nat
        BY <1>4, <3>6
      <4> QED
        BY <3>2, <3>6, <4>1, <4>2, NextAnswer
    <3>7. CASE ~Chunk(h, i)
      BY <1>2, <3>3, <3>4, <3>5, <3>7 DEF TextOf, Chunk
    <3> QED
      BY <3>6, <3>7
  <2>2. CASE CopilotEvent(c)
    <3>1. Awaits(c)
      BY <2>2 DEF CopilotEvent, Awaits
    <3>2. provider = "copilot"
      <4> SUFFICES ASSUME provider # "copilot" PROVE FALSE
        OBVIOUS
      <4>1. caller[c].todo \in Seq(Ops \ Prompting) /\ caller[c].todo # <<>>
        BY <3>1 DEF TurnInv, IInv, CallerInv, Busy, Awaits
      <4>2. Op(c) \in Ops \ Prompting
        BY <4>1 DEF Op
      <4> QED
        BY <3>1, <4>2 DEF Awaits
    <3>3. h.what = "said" => h.kind = "event" /\ h.id = i
      <4>1. h.what = "said" => h.kind = "event"
        BY <1>h DEF Message, h
      <4>2. h.what = "said" => h.id = caller[c].id
        BY <1>h, <3>1, <3>2 DEF OneTurnInv, h
      <4> QED
        BY <4>1, <4>2
    <3>4. y = IF h.what = "said" THEN Append(x, h.n) ELSE x
      BY <1>t, <1>2, <1>3, <2>2 DEF CopilotEvent, h
    <3>5. x = TextAfter(t)
      BY <1>2 DEF Progress
    <3>6. CASE Chunk(h, i)
      <4>1. h.n = t + 1 /\ t \in Nat /\ y = Append(TextAfter(t), t + 1)
        BY <1>4, <3>4, <3>5, <3>6 DEF Chunk
      <4> QED
        BY <3>2, <3>6, <4>1, NextAnswer
    <3>7. CASE ~Chunk(h, i)
      BY <3>3, <3>4, <3>7 DEF Chunk
    <3> QED
      BY <3>6, <3>7
  <2> QED
    BY <2>1, <2>2
<1>6. CASE Chunk(h, i)
  <2>1. Progress(i, y, t + 1)'
    BY <1>4, <1>5, <1>6
  <2> QED
    BY <1>3, <2>1
<1>7. CASE ~Chunk(h, i)
  <2>1. Progress(i, y, t)'
    BY <1>4, <1>5, <1>7
  <2> QED
    BY <1>3, <2>1
<1> QED
  BY <1>6, <1>7

\* A call that is written has no text, and nothing is said of it.
LEMMA WrittenProgress ==
  ASSUME IInv, IdInv, NEW c \in Callers, Write(c), caller[c].text = <<>>, NEW i \in Ids, i = caller[c].id
  PROVE  Progress(i, caller[c].text, 0)'
<1>1. /\ UNCHANGED <<provider, said, response, events, reader, out>> /\ caller[c].pc = "write"
      /\ caller'[c].text = caller[c].text
  BY WriteEffect
<1>2. Live' = Live
  BY <1>1 DEF Live, Handed, Unread
<1>3. ~Known(i)
  BY <1>1 DEF Known
<1>4. said[i] = 0 /\ said'[i] = 0
  BY <1>1, <1>3 DEF IdInv
<1>5. \A p \in DOMAIN Live' : ~Chunk(Live'[p], i)
  BY <1>2, <1>3, Bounds DEF IdInv, Chunk
<1>6. TextAfter(0)' = <<>>
  <2>1. [k \in 1 .. 0 |-> k] = <<>>
    OBVIOUS
  <2> QED
    BY <2>1 DEF TextAfter
<1>7. Sorted(Live, i, 0, said[i])' /\ Covered(Live, i, 0, said[i])'
  BY <1>4, <1>5 DEF Sorted, Covered, Chunk
<1> QED
  BY <1>1, <1>4, <1>6, <1>7 DEF Progress

LEMMA NextText ==
  ASSUME IInv, IInv', TurnInv, IdInv, EndInv, OneTurnInv, TextInv, [Next]_vars
  PROVE  TextInv'
<1>t. TypeOK /\ TypeOK'
  BY DEF IInv
<1>n. Resting \/ (\E d \in Callers : CallerStep(d)) \/ AgentStep \/ AgentNotes \/ AgentDies
  BY Steps DEF Elsewhere, Resting
<1>a. AgentStep \/ AgentNotes \/ AgentDies => caller' = caller
  BY DEF AgentStep, AgentTakes, AgentSays, AgentAsks, AgentEnds, AgentNotes, AgentDies, client
<1>r. Resting => \A c \in Callers : InCall(c) \/ InCall(c)' => InCall(c) /\ InCall(c)' /\ caller'[c] = caller[c]
  BY RestCallers
<1>c. \A d \in Callers : CallerStep(d) =>
        Others(d) /\ (InCall(d)' => (Registers(d) /\ Register(d)) \/ Moves(d))
  <2> SUFFICES ASSUME NEW d \in Callers, CallerStep(d)
               PROVE  Others(d) /\ (InCall(d)' => (Registers(d) /\ Register(d)) \/ Moves(d))
    OBVIOUS
  <2>1. /\ Others(d)
        /\ Locks(d) \/ Registers(d) \/ Moves(d) \/ GoesOn(d) \/ Returns(d)
    BY CallerEffect
  <2>2. InCall(d)' => Registers(d) \/ Moves(d)
    BY <2>1 DEF Locks, GoesOn, Returns, InCall
  <2>3. Registers(d) => Register(d)
    BY DEF Registers, CallerStep, LockTurn, Write, GiveUp, CallReturned, CallFailed, TurnStarted, CodexEvent,
       CopilotEvent, TakeResponse, FinishTurn, Answered
  <2> QED
    BY <2>1, <2>2, <2>3
<1>1. \A c \in Callers : caller'[c].pc = "write" => caller'[c].text = <<>>
  <2> SUFFICES ASSUME NEW c \in Callers, caller'[c].pc = "write" PROVE caller'[c].text = <<>>
    OBVIOUS
  <2>0. InCall(c)' /\ (caller'[c] = caller[c] => caller'[c].text = <<>>)
    BY DEF InCall, TextInv
  <2>1. CASE Resting \/ AgentStep \/ AgentNotes \/ AgentDies
    BY <1>a, <1>r, <2>0, <2>1
  <2>2. ASSUME NEW d \in Callers, CallerStep(d) PROVE caller'[c].text = <<>>
    <3>1. CASE d # c
      BY <1>c, <2>0, <2>2, <3>1 DEF Others
    <3>2. CASE d = c
      <4>1. Register(c)
        BY <1>c, <2>0, <2>2, <3>2 DEF Moves
      <4>2. caller \in [Callers -> CallerType] /\ caller[c] \in CallerType
        BY <1>t DEF TypeOK
      <4> QED
        BY <4>1, <4>2 DEF Register, CallerType
    <3> QED
      BY <3>1, <3>2
  <2> QED
    BY <1>n, <2>1, <2>2
<1>2. ASSUME ~ctx', NEW c \in Callers, Turning(c)'
      PROVE  \E t \in 0 .. MaxSaid : Progress(caller[c].id, caller[c].text, t)'
  <2>x. ~ctx
    BY <1>2, DoneStays
  <2>s. PICK i : i = caller'[c].id
    OBVIOUS
  <2>i. i \in Ids
    <3>1. InCall(c)'
      BY <1>2 DEF Turning, InCall
    <3>2. caller'[c].id \in 0 .. MaxCall /\ caller'[c].id # 0
      BY <3>1, <1>t DEF IInv, CallerInv, TypeOK, CallerType
    <3> QED
      BY <2>s, <3>2, Bounds DEF Ids
  <2>f. ASSUME NEW t, Progress(i, caller[c].text, t)' PROVE \E u \in 0 .. MaxSaid : Progress(caller[c].id, caller[c].text, u)'
    <3>1. t \in 0 .. said'[i]
      BY <2>f DEF Progress
    <3>2. said'[i] \in 0 .. MaxSaid
      BY <1>t, <2>i DEF TypeOK
    <3>3. t \in 0 .. MaxSaid
      BY <3>1, <3>2, Bounds
    <3> QED
      BY <2>f, <2>s, <3>3
  <2>1. ASSUME Turning(c), caller[c].id = i, caller'[c].text = caller[c].text,
               \A x, t : Progress(i, x, t) => Progress(i, x, t)'
        PROVE  \E u \in 0 .. MaxSaid : Progress(caller[c].id, caller[c].text, u)'
    <3>1. PICK t : Progress(caller[c].id, caller[c].text, t)
      BY <2>1, <2>x DEF TextInv
    <3>2. PICK x : x = caller[c].text
      OBVIOUS
    <3>3. Progress(i, x, t)'
      BY <2>1, <3>1, <3>2
    <3>4. Progress(i, caller[c].text, t)'
      BY <2>1, <3>2, <3>3
    <3> QED
      BY <2>f, <3>4
  <2>2. CASE Resting \/ AgentStep \/ AgentNotes \/ AgentDies
    <3>1. InCall(c)'
      BY <1>2 DEF Turning, InCall
    <3>2. caller'[c] = caller[c]
      BY <1>a, <1>r, <2>2, <3>1
    <3>3. Turning(c)
      BY <1>2, <3>2 DEF Turning, Op
    <3>4. \A x, t : Progress(i, x, t) => Progress(i, x, t)'
      BY <2>2, <2>i, RestProgress, AgentProgress
    <3> QED
      BY <2>1, <2>s, <3>2, <3>3, <3>4
  <2>3. ASSUME NEW d \in Callers, CallerStep(d)
        PROVE  \E u \in 0 .. MaxSaid : Progress(caller[c].id, caller[c].text, u)'
    <3>1. Others(d) /\ (InCall(d)' => (Registers(d) /\ Register(d)) \/ Moves(d))
      BY <1>c, <2>3
    <3>2. CASE d # c
      <4>1. caller'[c] = caller[c] /\ Turning(c)
        BY <1>2, <3>1, <3>2 DEF Others, Turning, Op
      <4>2. ~CodexEvent(d) /\ ~CopilotEvent(d)
        <5> SUFFICES ASSUME CodexEvent(d) \/ CopilotEvent(d) PROVE FALSE
          OBVIOUS
        <5>1. InCall(d) /\ Op(d) \in Turns
          BY DEF CodexEvent, CopilotEvent, InCall, Turns, IInv, CountInv
        <5>2. InCall(c) /\ Op(c) \in Turns
          BY <4>1 DEF Turning, InCall
        <5> QED
          BY <3>2, <5>1, <5>2, OneAwaits
      <4>3. events' = events
        BY <2>3, <4>2 DEF CallerStep, LockTurn, Register, Write, GiveUp, CallReturned, CallFailed, TurnStarted,
           TakeResponse, FinishTurn, channels
      <4>4. \A x, t : Progress(i, x, t) => Progress(i, x, t)'
        BY <2>3, <2>i, <4>3, CallerProgress
      <4> QED
        BY <2>1, <2>s, <4>1, <4>4
    <3>3. CASE d = c
      <4>1. Moves(c)
        BY <1>2, <3>1, <3>3 DEF Turning, InCall, Registers
      <4>2. caller'[c].id = caller[c].id /\ caller'[c].todo = caller[c].todo /\ InCall(c) /\ Op(c) \in Turns
        BY <1>2, <4>1 DEF Moves, Turning, Op
      <4>3. CASE CodexEvent(c) \/ CopilotEvent(c)
        <5>1. Turning(c)
          BY <4>2, <4>3 DEF CodexEvent, CopilotEvent, Turning
        <5>2. PICK t : Progress(caller[c].id, caller[c].text, t)
          BY <2>x, <5>1 DEF TextInv
        <5>3. Progress(i, caller[c].text, t) /\ i = caller[c].id
          BY <2>s, <4>2, <5>2
        <5>4. \E u : Progress(i, caller[c].text, u)'
          BY <1>2, <2>i, <2>x, <4>3, <5>1, <5>3, TakerProgress
        <5> QED
          BY <2>f, <5>4
      <4>4. CASE caller[c].pc = "write" /\ ~CodexEvent(c) /\ ~CopilotEvent(c)
        <5>1. Write(c)
          <6>1. ~GiveUp(c)
            <7> SUFFICES ASSUME GiveUp(c) PROVE FALSE
              OBVIOUS
            <7>1. Returns(c)
              BY <4>2, FailEffect DEF GiveUp
            <7> QED
              BY <4>1, <7>1 DEF Returns, Moves
          <6> QED
            BY <2>3, <3>3, <4>4, <6>1 DEF CallerStep, LockTurn, Register, CallReturned, CallFailed, TurnStarted,
               TakeResponse, FinishTurn, Answered
        <5>2. caller[c].text = <<>>
          BY <4>4 DEF TextInv
        <5>3. Progress(i, caller[c].text, 0)'
          BY <2>i, <2>s, <4>2, <5>1, <5>2, WrittenProgress
        <5> QED
          BY <2>f, <5>3
      <4>5. CASE caller[c].pc # "write" /\ ~CodexEvent(c) /\ ~CopilotEvent(c)
        <5>1. Turning(c)
          BY <4>2, <4>5 DEF Turning, InCall
        <5>2. TurnStarted(c) \/ TakeResponse(c)
          <6>1. ~(GiveUp(c) \/ CallReturned(c) \/ CallFailed(c) \/ FinishTurn(c))
            <7> SUFFICES ASSUME GiveUp(c) \/ CallReturned(c) \/ CallFailed(c) \/ FinishTurn(c) PROVE FALSE
              OBVIOUS
            <7>1. /\ nextID' = nextID
                  /\ Fail(c) \/ (Succeed(c) /\ caller[c].pc \in {"wait", "drain"})
              <8>1. CASE GiveUp(c) \/ CallFailed(c)
                BY <8>1 DEF GiveUp, CallFailed
              <8>2. CASE CallReturned(c)
                BY <8>2 DEF CallReturned, Answered
              <8>3. CASE FinishTurn(c)
                BY <8>3 DEF FinishTurn
              <8> QED
                BY <8>1, <8>2, <8>3
            <7>2. GoesOn(c) \/ Returns(c)
              BY <4>2, <7>1, FailEffect, SucceedEffect
            <7> QED
              BY <4>1, <7>2 DEF Moves, GoesOn, Returns
          <6>2. caller[c].pc \notin {"call", "lock", "write"}
            BY <4>2, <4>5 DEF InCall
          <6> QED
            BY <2>3, <3>3, <4>5, <6>1, <6>2 DEF CallerStep, LockTurn, Register, Write
        <5>3. events' = events /\ caller'[c].text = caller[c].text
          <6>1. caller \in [Callers -> CallerType] /\ caller[c] \in CallerType
            BY <1>t DEF TypeOK
          <6> QED
            BY <5>2, <6>1 DEF TurnStarted, TakeResponse, channels, CallerType
        <5>4. \A x, t : Progress(i, x, t) => Progress(i, x, t)'
          BY <2>3, <2>i, <3>3, <5>3, CallerProgress
        <5> QED
          BY <2>1, <2>s, <4>2, <5>1, <5>3, <5>4
      <4> QED
        BY <4>3, <4>4, <4>5
    <3> QED
      BY <3>2, <3>3
  <2> QED
    BY <1>n, <2>2, <2>3
<1> QED
  BY <1>1, <1>2 DEF TextInv

-----------------------------------------------------------------------------
(* The result *)

\* Nothing is said any more of a turn that is over.
LEMMA SaidStays == ASSUME IInv, [Next]_vars, NEW i \in Ids, Over(i) PROVE said'[i] = said[i]
<1>1. CASE AgentSays
  <2>1. said' = [said EXCEPT ![cur.id] = said[cur.id] + 1] /\ cur.id # i
    BY <1>1 DEF AgentSays, Over
  <2> QED
    BY <2>1 DEF IInv, TypeOK
<1>2. ASSUME NEW c \in Callers, CallerStep(c) PROVE said' = said
  BY <1>2 DEF CallerStep, LockTurn, Register, Write, GiveUp, CallReturned, CallFailed, TurnStarted, CodexEvent,
     CopilotEvent, TakeResponse, FinishTurn, agent
<1>3. CASE StartSession \/ RunTurn \/ SetModel \/ Close \/ Closed
  BY <1>3 DEF StartSession, RunTurn, SetModel, Enter, Close, Closed, agent
<1>4. CASE Elsewhere /\ ~AgentSays
  BY <1>4 DEF Elsewhere, Cancel, CancelProcess, ReaderStep, ReadResponse, ReadRequest, ReadEvent, SendEvent,
     ReaderEnds, Reap, HandleRequest, AgentStep, AgentTakes, AgentAsks, AgentEnds, AgentNotes, AgentDies, vars, agent
<1> QED
  BY <1>1, <1>2, <1>3, <1>4, Steps

\* A turn whose messages have all been taken has the text of its answer.
LEMMA AllTaken ==
  ASSUME TypeOK, NEW i \in Ids, NEW x, NEW t, Progress(i, x, t), Whole(i),
         \A p \in DOMAIN Live : ~Chunk(Live[p], i)
  PROVE  x = TextAfter(said[i])
<1>1. said[i] \in Nat /\ t \in 0 .. said[i] /\ x = TextAfter(t) /\ Covered(Live, i, t, said[i])
  BY SaidFacts DEF Progress
<1>2. \A n \in t + 1 .. said[i] : FALSE
  BY <1>1 DEF Covered
<1>3. t = said[i]
  BY <1>1, <1>2
<1> QED
  BY <1>1, <1>3

\* How a turn comes to its result.
Completes(c) ==
  /\ CodexEvent(c) /\ Head(events).id = caller[c].id /\ Head(events).what = "completed"
  /\ result' = [id |-> caller[c].id, text |-> TextOf(c, Head(events)), late |-> ctx]
Finishes(c) ==
  /\ FinishTurn(c) /\ Op(c) = "prompt"
  /\ result' = [id |-> caller[c].id, text |-> caller[c].text, late |-> ctx]

LEMMA ResultEffect ==
  ASSUME IInv, TurnInv, [Next]_vars
  PROVE  result' = result \/ \E c \in Callers : Completes(c) \/ Finishes(c)
<1>1. ASSUME NEW c \in Callers, CallerStep(c)
      PROVE  result' = result \/ Completes(c) \/ Finishes(c)
  <2>1. CASE LockTurn(c) \/ Register(c) \/ Write(c) \/ GiveUp(c) \/ CallFailed(c) \/ TurnStarted(c) \/ CopilotEvent(c)
             \/ TakeResponse(c)
    BY <2>1 DEF LockTurn, Register, Write, GiveUp, CallFailed, TurnStarted, CopilotEvent, TakeResponse, Fail
  <2>2. CASE CallReturned(c)
    <3>1. Op(c) \notin {"turn", "prompt"} /\ Succeed(c)
      BY <2>2 DEF CallReturned
    <3> QED
      BY <3>1 DEF Succeed
  <2>3. CASE CodexEvent(c)
    BY <2>3 DEF CodexEvent, Completes, Fail
  <2>4. CASE FinishTurn(c)
    <3>1. Op(c) # "turn"
      BY <2>4 DEF FinishTurn, TurnInv, Prompting
    <3> QED
      BY <2>4, <3>1 DEF FinishTurn, Finishes, Succeed, Fail
  <2> QED
    BY <1>1, <2>1, <2>2, <2>3, <2>4 DEF CallerStep
<1>2. CASE StartSession \/ RunTurn \/ SetModel \/ Close \/ Closed
  BY <1>2 DEF StartSession, RunTurn, SetModel, Enter, Close, Closed
<1>3. CASE Elsewhere
  BY <1>3 DEF Elsewhere, Cancel, CancelProcess, ReaderStep, ReadResponse, ReadRequest, ReadEvent, SendEvent,
     ReaderEnds, Reap, HandleRequest, AgentStep, AgentTakes, AgentSays, AgentAsks, AgentEnds, AgentNotes, AgentDies,
     vars, client
<1> QED
  BY <1>1, <1>2, <1>3, Steps

LEMMA CompletesWell ==
  ASSUME IInv, TurnInv, EndInv, TextInv, NEW c \in Callers, Completes(c)
  PROVE  Over(caller[c].id) /\ (~ctx => TextOf(c, Head(events)) = Answer(caller[c].id))
<1>t. TypeOK /\ events \in Seq(Message)
  BY DEF IInv, TypeOK
<1>1. caller[c].pc = "read" /\ events # <<>> /\ InCall(c) /\ Op(c) \in Turns /\ provider # "copilot"
  <2>1. caller[c].pc = "read" /\ events # <<>>
    BY DEF Completes, CodexEvent
  <2> QED
    BY <2>1, ReadsCodex DEF InCall, IInv, CountInv, Turns, Turning
<1> DEFINE i == caller[c].id
           h == Head(events)
<1>2. i \in Ids
  BY <1>1, CallIds
<1>3. Len(events) \in Nat /\ Len(events) >= 1 /\ Head(events) = events[1] /\ h \in Message
  BY <1>1, <1>t, LenProperties, EmptySeq, HeadTailProperties
<1>4. 1 \in DOMAIN Live /\ Live[1] = h /\ DOMAIN Live = 1 .. Len(Live) /\ Len(Live) \in Nat
  BY <1>3, <1>t, LiveType
<1>5. h.id = i /\ h.what = "completed" /\ h.kind = "event"
  BY <1>3 DEF Completes, Message
<1>6. End(Live[1], i)
  BY <1>1, <1>4, <1>5 DEF End
<1>7. Over(i) /\ h.n \in {0, said[i]}
  BY <1>1, <1>2, <1>4, <1>6 DEF EndInv
<1>8. \A p \in DOMAIN Live : ~Chunk(Live[p], i)
  <2>1. ~Chunk(Live[1], i)
    BY <1>4, <1>5 DEF Chunk
  <2>2. ASSUME NEW p \in DOMAIN Live, p # 1 PROVE ~Chunk(Live[p], i)
    <3>1. 1 < p
      BY <1>4, <2>2
    <3> QED
      BY <1>2, <1>4, <1>6, <3>1 DEF EndInv
  <2> QED
    BY <2>1, <2>2
<1>9. Whole(i)
  BY <1>4, <1>6 DEF Whole
<1>10. ASSUME ~ctx PROVE caller[c].text = TextAfter(said[i])
  <2>1. PICK t : Progress(i, caller[c].text, t)
    BY <1>1, <1>10 DEF TextInv, Turning
  <2> HIDE DEF i
  <2> QED
    BY <1>t, <1>2, <1>8, <1>9, <2>1, AllTaken
<1>11. ~ctx => TextOf(c, h) = IF h.n = 0 THEN TextAfter(said[i]) ELSE <<h.n>>
  BY <1>5, <1>10 DEF TextOf
<1>12. TextAfter(said[i]) = Answer(i) /\ (said[i] # 0 => Answer(i) = <<said[i]>>)
  BY <1>1 DEF TextAfter, Answer
<1> QED
  BY <1>7, <1>11, <1>12

LEMMA FinishesWell ==
  ASSUME IInv, TurnInv, EndInv, TextInv, NEW c \in Callers, Finishes(c)
  PROVE  Over(caller[c].id) /\ (~ctx => caller[c].text = Answer(caller[c].id))
<1>t. TypeOK /\ events \in Seq(Message)
  BY DEF IInv, TypeOK
<1>1. caller[c].pc = "drain" /\ events = <<>> /\ InCall(c) /\ Op(c) = "prompt"
  BY DEF Finishes, FinishTurn, InCall
<1>2. provider = "copilot"
  <2> SUFFICES ASSUME provider # "copilot" PROVE FALSE
    OBVIOUS
  <2>1. caller[c].todo \in Seq(Ops \ Prompting) /\ caller[c].todo # <<>>
    BY <1>1 DEF TurnInv, IInv, CallerInv, Busy
  <2>2. Op(c) \in Ops \ Prompting
    BY <2>1 DEF Op
  <2> QED
    BY <1>1, <2>2 DEF Prompting
<1> DEFINE i == caller[c].id
<1>3. i \in Ids
  BY <1>1, CallIds
<1>4. response[i] # "none"
  BY <1>1 DEF EndInv
<1>5. Over(i) /\ \A p \in DOMAIN Live : p > Len(events) => ~Chunk(Live[p], i)
  BY <1>2, <1>3, <1>4 DEF EndInv
<1>6. Len(events) = 0 /\ DOMAIN Live = 1 .. Len(Live) /\ Len(Live) \in Nat
  BY <1>1, <1>t, LiveType
<1>7. \A p \in DOMAIN Live : ~Chunk(Live[p], i)
  BY <1>5, <1>6
<1>8. Whole(i)
  BY <1>2, <1>4 DEF Whole
<1>9. ASSUME ~ctx PROVE caller[c].text = TextAfter(said[i])
  <2>1. PICK t : Progress(i, caller[c].text, t)
    BY <1>1, <1>9 DEF TextInv, Turning, Turns, Prompting
  <2> HIDE DEF i
  <2> QED
    BY <1>t, <1>3, <1>7, <1>8, <2>1, AllTaken
<1>10. TextAfter(said[i]) = Answer(i)
  BY <1>2 DEF TextAfter, Answer
<1> QED
  BY <1>5, <1>9, <1>10

\* A result, old or new, stays that of its turn.
LEMMA NextResult ==
  ASSUME IInv, TypeOK', TurnInv, IdInv, EndInv, TextInv, ResultInv, ResultIsOfTurn, [Next]_vars,
         \A i \in Ids : Over(i) => Over(i)'
  PROVE  ResultInv' /\ ResultIsOfTurn'
<1>p. provider' = provider
  BY DoneStays
<1>i. PICK i : i = result'.id
  OBVIOUS
<1>n. i # 0 => i \in Ids
  <2>1. i \in 0 .. MaxCall
    BY <1>i DEF TypeOK, ResultType
  <2> QED
    BY <2>1, Bounds DEF Ids
<1>1. ASSUME i # 0, Over(i), \/ result'.late \/ result'.text = Answer(i)
      PROVE  ResultInv' /\ ResultIsOfTurn'
  <2>1. Over(i)' /\ said'[i] = said[i]
    BY <1>1, <1>n, SaidStays
  <2>2. Answer(i)' = Answer(i)
    BY <1>p, <2>1 DEF Answer
  <2>3. ResultInv'
    BY <1>i, <2>1 DEF ResultInv
  <2>4. ~result'.late => result'.text = Answer(i)'
    BY <1>1, <2>2
  <2>5. ResultIsOfTurn'
    BY <1>i, <2>4 DEF ResultIsOfTurn
  <2> QED
    BY <2>3, <2>5
<1>2. CASE i = 0
  BY <1>i, <1>2 DEF ResultInv, ResultIsOfTurn
<1>3. CASE i # 0 /\ result' = result
  BY <1>1, <1>3, <1>i DEF ResultInv, ResultIsOfTurn
<1>4. ASSUME i # 0, NEW c \in Callers, Completes(c) \/ Finishes(c)
      PROVE  ResultInv' /\ ResultIsOfTurn'
  <2>1. i = caller[c].id /\ result'.late = ctx
    BY <1>4, <1>i DEF Completes, Finishes
  <2>2. Over(i)
    BY <1>4, <2>1, CompletesWell, FinishesWell
  <2>3. ~ctx => result'.text = Answer(i)
    BY <1>4, <2>1, CompletesWell, FinishesWell DEF Completes, Finishes
  <2> QED
    BY <1>1, <1>4, <2>1, <2>2, <2>3
<1> QED
  BY <1>2, <1>3, <1>4, ResultEffect

LEMMA InitR == ASSUME Init PROVE TurnInv /\ IdInv /\ EndInv /\ OneTurnInv /\ TextInv /\ ResultInv /\ ResultIsOfTurn
<1>1. Live = <<>> /\ DOMAIN Live = {} /\ DOMAIN inbox = {}
  <2>1. events = <<>> /\ Handed = <<>> /\ Unread = <<>> /\ inbox = <<>>
    BY DEF Init, Handed, Unread, Reading
  <2> QED
    BY <2>1 DEF Live
<1>2. \A c \in Callers : caller[c] = Idle
  BY DEF Init
<1>3. \A i \in Ids : said[i] = 0 /\ response[i] = "none"
  BY DEF Init
<1>4. cur.id = 0 /\ result.id = 0 /\ inbox = <<>>
  BY DEF Init, NoTurn, NoResult
<1>5. TurnInv
  <2>1. <<>> \in Seq(Turns) /\ <<>> \in Seq(Ops \ Prompting)
    OBVIOUS
  <2>2. \A c \in Callers : caller[c].pc = "idle" /\ caller[c].todo = <<>>
    BY <1>2 DEF Idle
  <2>3. \A c \in Callers : caller[c].todo \in Seq(Turns) /\ caller[c].todo \in Seq(Ops \ Prompting)
    BY <2>1, <2>2
  <2> QED
    BY <2>2, <2>3 DEF TurnInv, InCall
<1>6. IdInv
  BY <1>1, <1>2, <1>3, <1>4 DEF IdInv, Idle, InCall
<1>7. EndInv
  BY <1>1, <1>2, <1>3 DEF EndInv, Idle
<1>8. OneTurnInv
  BY <1>1, <1>2, <1>4 DEF OneTurnInv, Idle, Awaits
<1>9. TextInv
  BY <1>2 DEF TextInv, Idle, Turning
<1>10. ResultInv /\ ResultIsOfTurn
  BY <1>4 DEF ResultInv, ResultIsOfTurn
<1> QED
  BY <1>5, <1>6, <1>7, <1>8, <1>9, <1>10

LEMMA NextR == ASSUME IInv, IInv', RInv, [Next]_vars PROVE RInv'
<1>1. TurnInv /\ IdInv /\ EndInv /\ OneTurnInv /\ TextInv /\ ResultInv /\ ResultIsOfTurn /\ TypeOK'
  BY DEF RInv, IInv
<1>2. TurnInv'
  BY <1>1, NextTurn
<1>3. IdInv' /\ EndInv' /\ \A i \in Ids : Over(i) => Over(i)'
  BY <1>1, NextBooks
<1>4. OneTurnInv'
  BY <1>1, NextOneTurn
<1>5. TextInv'
  BY <1>1, NextText
<1>6. ResultInv' /\ ResultIsOfTurn'
  BY <1>1, <1>3, NextResult
<1> QED
  BY <1>2, <1>3, <1>4, <1>5, <1>6 DEF RInv

\* Whatever the interleaving of the goroutines, the reader and the agent, a turn that
\* succeeds before its context is done returns all that the agent said in it, in
\* order, and nothing of another turn.
THEOREM ResultHolds == Spec => []ResultIsOfTurn
<1>1. Init => RInv
  BY InitR DEF RInv
<1>2. IInv /\ IInv' /\ RInv /\ [Next]_vars => RInv'
  BY NextR
<1>3. RInv => ResultIsOfTurn
  BY DEF RInv
<1> QED
  BY <1>1, <1>2, <1>3, Inductive, PTL DEF Spec
-----------------------------------------------------------------------------
(* Nobody waits in vain *)

\* A call that waits has its place in pending, and the agent gets what was called.
ExpectInv ==
  /\ \A c \in Callers : Expects(c) => caller[c].id \in pending
  /\ \A c \in Callers : InCall(c) => \A call \in Items(inbox) : call.id = caller[c].id => call.op = Op(c)

\* A turn of Codex that was accepted goes on, or its end is on the way, before the
\* goroutine that waits for it has seen that it was accepted.
Accepted(i) ==
  \/ response[i] = "ok"
  \/ \E m \in Items(out) : m.kind = "response" /\ m.id = i /\ m.what = "ok"
StartedInv ==
  up /\ reader.pc # "ended" =>
    \A c \in Callers : caller[c].pc = "wait" /\ Op(c) = "turn" /\ Accepted(caller[c].id) => EndComes(caller[c].id)

AnswerInv == ExpectInv /\ StartedInv /\ NoAnswerIsLost

LEMMA ItemsOfAppend ==
  ASSUME NEW S, NEW s \in Seq(S), NEW e \in S
  PROVE  Items(Append(s, e)) = Items(s) \cup {e}
<1>1. /\ Append(s, e) \in Seq(S) /\ Len(Append(s, e)) = Len(s) + 1 /\ Append(s, e)[Len(s) + 1] = e
      /\ \A i \in 1 .. Len(s) : Append(s, e)[i] = s[i]
  BY AppendProperties
<1>2. DOMAIN Append(s, e) = 1 .. Len(s) + 1 /\ DOMAIN s = 1 .. Len(s) /\ Len(s) \in Nat
  BY <1>1, LenProperties
<1>3. \A i \in 1 .. Len(s) + 1 : i \in 1 .. Len(s) \/ i = Len(s) + 1
  BY <1>2
<1>4. 1 .. Len(s) \subseteq 1 .. Len(s) + 1 /\ Len(s) + 1 \in 1 .. Len(s) + 1
  BY <1>2
<1> DEFINE a == Append(s, e)
<1>5. /\ DOMAIN a = 1 .. Len(s) + 1 /\ a[Len(s) + 1] = e
      /\ \A i \in 1 .. Len(s) : a[i] = s[i]
  BY <1>1, <1>2
<1> HIDE DEF a
<1>6. Items(a) = Items(s) \cup {e}
  BY <1>2, <1>3, <1>4, <1>5 DEF Items
<1> QED
  BY <1>6 DEF a

LEMMA ItemsOfTail ==
  ASSUME NEW S, NEW s \in Seq(S), s # <<>>
  PROVE  Items(s) = {Head(s)} \cup Items(Tail(s)) /\ Items(s) \subseteq S
<1>1. /\ Tail(s) \in Seq(S) /\ Len(Tail(s)) = Len(s) - 1 /\ Len(s) \in Nat /\ Len(s) >= 1 /\ Head(s) = s[1]
      /\ \A i \in 1 .. Len(Tail(s)) : Tail(s)[i] = s[i + 1]
  BY HeadTailProperties, LenProperties, EmptySeq
<1> DEFINE r == Tail(s)
<1>2. DOMAIN s = 1 .. Len(s) /\ DOMAIN r = 1 .. Len(s) - 1 /\ \A i \in 1 .. Len(s) - 1 : r[i] = s[i + 1]
  BY <1>1, LenProperties
<1> HIDE DEF r
<1>3. \A i \in 1 .. Len(s) : i = 1 \/ (i - 1 \in 1 .. Len(s) - 1 /\ s[i] = r[i - 1])
  <2> SUFFICES ASSUME NEW i \in 1 .. Len(s), i # 1 PROVE i - 1 \in 1 .. Len(s) - 1 /\ s[i] = r[i - 1]
    OBVIOUS
  <2>1. i - 1 \in 1 .. Len(s) - 1 /\ (i - 1) + 1 = i
    BY <1>1
  <2> QED
    BY <1>2, <2>1
<1>4. \A i \in 1 .. Len(s) - 1 : i + 1 \in 1 .. Len(s)
  BY <1>1
<1>5. 1 \in 1 .. Len(s)
  BY <1>1
<1>6. Items(s) \subseteq {s[1]} \cup Items(r)
  BY <1>2, <1>3 DEF Items
<1>7. {s[1]} \cup Items(r) \subseteq Items(s)
  BY <1>2, <1>4, <1>5 DEF Items
<1>8. Items(s) \subseteq S
  BY <1>2, ElementOfSeq DEF Items
<1> QED
  BY <1>1, <1>6, <1>7, <1>8 DEF r

LEMMA ItemsOfNone == Items(<<>>) = {}
BY DEF Items

\* What the reader has not read yet is live.
LEMMA UnreadIsLive ==
  ASSUME TypeOK, reader.pc # "ended", NEW m \in Items(out)
  PROVE  m \in Message /\ \E p \in DOMAIN Live : Live[p] = m
<1>1. events \in Seq(Message) /\ Handed \in Seq(Message) /\ out \in Seq(Message) /\ Unread = out
  BY LiveType DEF TypeOK, Unread
<1>2. PICK k \in DOMAIN out : m = out[k]
  BY DEF Items
<1>3. k \in 1 .. Len(out) /\ Len(out) \in Nat /\ Len(Handed) \in Nat /\ Len(events) \in Nat
  BY <1>1, <1>2, LenProperties
<1> DEFINE rest == Handed \o out
<1>4. /\ rest \in Seq(Message) /\ Len(rest) = Len(Handed) + Len(out)
      /\ \A i \in 1 .. Len(Handed) + Len(out) : rest[i] = IF i <= Len(Handed) THEN Handed[i] ELSE out[i - Len(Handed)]
  BY <1>1, ConcatProperties
<1>5. Live = events \o rest
  BY <1>1 DEF Live
<1>c. rest \in Seq(Message)
  BY <1>4
<1> HIDE DEF rest
<1>6. /\ Live \in Seq(Message) /\ Len(Live) = Len(events) + Len(rest)
      /\ \A i \in 1 .. Len(events) + Len(rest) : Live[i] = IF i <= Len(events) THEN events[i] ELSE rest[i - Len(events)]
  BY <1>1, <1>5, <1>c, ConcatProperties
<1>7. Len(Handed) + k \in 1 .. Len(Handed) + Len(out) /\ ~(Len(Handed) + k <= Len(Handed)) /\ (Len(Handed) + k) - Len(Handed) = k
  BY <1>3
<1>8. rest[Len(Handed) + k] = out[k]
  BY <1>4, <1>7
<1> DEFINE j == Len(Handed) + k
<1>9. j \in 1 .. Len(rest) /\ rest[j] = out[k]
  BY <1>4, <1>7, <1>8
<1> HIDE DEF j
<1>10. Len(events) + j \in 1 .. Len(events) + Len(rest) /\ ~(Len(events) + j <= Len(events)) /\ (Len(events) + j) - Len(events) = j
  BY <1>3, <1>4, <1>9
<1>11. Live[Len(events) + j] = out[k]
  BY <1>6, <1>9, <1>10
<1>12. Len(events) + j \in DOMAIN Live
  BY <1>6, <1>10, LenProperties
<1>13. m \in Message
  BY <1>1, <1>2, <1>3, ElementOfSeq
<1> QED
  BY <1>2, <1>11, <1>12, <1>13

\* Nothing is told of a call that is not written.
LEMMA NotAccepted ==
  ASSUME IInv, IdInv, NEW c \in Callers, caller[c].pc = "write", reader.pc # "ended"
  PROVE  ~Accepted(caller[c].id)
<1>1. caller[c].id \in Ids /\ ~Known(caller[c].id) /\ caller[c].id # 0
  BY CallIds, Bounds DEF InCall, Known
<1>2. response[caller[c].id] = "none"
  BY <1>1 DEF IdInv
<1>3. ASSUME NEW m \in Items(out), m.id = caller[c].id PROVE FALSE
  <2>1. PICK p \in DOMAIN Live : Live[p] = m
    BY UnreadIsLive DEF IInv
  <2> QED
    BY <1>1, <1>3, <2>1 DEF IdInv
<1> QED
  BY <1>2, <1>3 DEF Accepted

LEMMA StaysExpecting ==
  ASSUME IInv, NEW c \in Callers, CallerStep(c), caller[c].pc # "call", ~Write(c), Expects(c)'
  PROVE  /\ Expects(c) /\ pending' = pending /\ caller'[c].id = caller[c].id
         /\ caller'[c].pc = "wait" => caller[c].pc = "wait" /\ CopilotEvent(c)
<1>t. caller \in [Callers -> CallerType] /\ caller[c] \in CallerType
  BY DEF IInv, TypeOK
<1>1. InCall(c)' /\ Moves(c)
  BY CallerBooks DEF Expects, InCall
<1>2. ~Register(c) /\ ~LockTurn(c)
  BY <1>1 DEF Register, LockTurn, Moves, InCall
<1>3. CASE GiveUp(c) \/ CallReturned(c) \/ CallFailed(c) \/ FinishTurn(c)
  <2>1. /\ InCall(c) /\ nextID' = nextID
        /\ Fail(c) \/ (Succeed(c) /\ caller[c].pc \in {"wait", "drain"})
    BY <1>3 DEF GiveUp, CallReturned, CallFailed, FinishTurn, Answered, InCall
  <2>2. GoesOn(c) \/ Returns(c)
    BY <2>1, FailEffect, SucceedEffect
  <2> QED
    BY <1>1, <2>2 DEF GoesOn, Returns, InCall
<1>4. CASE TurnStarted(c) \/ CodexEvent(c)
  <2>1. CASE CodexEvent(c) /\ Fail(c)
    <3>1. InCall(c) /\ nextID' = nextID
      BY <2>1 DEF CodexEvent, InCall
    <3> QED
      BY <1>1, <2>1, <3>1, FailEffect DEF Returns, InCall
  <2>2. CASE ~(CodexEvent(c) /\ Fail(c))
    <3>1. caller'[c].pc \in {"read", "idle"}
      BY <1>4, <1>t, <2>2, IdleTypes DEF TurnStarted, CodexEvent, CallerType
    <3> QED
      BY <3>1 DEF Expects
  <2> QED
    BY <2>1, <2>2
<1>5. CASE CopilotEvent(c) \/ TakeResponse(c)
  BY <1>5, <1>t DEF CopilotEvent, TakeResponse, Expects, CallerType
<1> QED
  BY <1>2, <1>3, <1>4, <1>5 DEF CallerStep

LEMMA InboxShrinks ==
  ASSUME IInv, Elsewhere
  PROVE  \/ inbox' = inbox
         \/ inbox # <<>> /\ inbox' = Tail(inbox) /\ AgentTakes
         \/ inbox' = <<>> /\ ~up'
BY DEF Elsewhere, Cancel, CancelProcess, ReaderStep, ReadResponse, ReadRequest, ReadEvent, SendEvent, ReaderEnds, Reap,
  HandleRequest, AgentStep, AgentTakes, AgentSays, AgentAsks, AgentEnds, AgentNotes, AgentDies, vars, agent

LEMMA NextExpects == ASSUME IInv, IdInv, ExpectInv, [Next]_vars PROVE ExpectInv'
<1>i. inbox \in Seq(Call)
  BY DEF IInv, TypeOK
<1>1. ASSUME NEW c \in Callers, CallerStep(c) PROVE ExpectInv'
  <2>1. /\ Others(c) /\ (InCall(c)' => Registers(c) \/ Moves(c))
        /\ Registers(c) \/ pending' = pending \/ (InCall(c) /\ pending' = pending \ {caller[c].id})
    BY <1>1, CallerEffect DEF Locks, Registers, Moves, GoesOn, Returns, InCall
  <2>2. \A d \in Callers \ {c} :
          /\ caller'[d] = caller[d] /\ (InCall(d)' => InCall(d)) /\ (Expects(d)' => Expects(d)) /\ Op(d)' = Op(d)
          /\ InCall(c) /\ InCall(d) => caller[d].id # caller[c].id
    BY <2>1 DEF Others, InCall, Expects, Op, IdInv
  <2>3. \A d \in Callers \ {c} : Expects(d)' => caller'[d].id \in pending'
    <3> SUFFICES ASSUME NEW d \in Callers \ {c}, Expects(d)' PROVE caller'[d].id \in pending'
      OBVIOUS
    <3>1. Expects(d) /\ InCall(d) /\ caller[d].id \in pending /\ caller'[d] = caller[d]
      BY <2>2 DEF ExpectInv, Expects, InCall
    <3> QED
      BY <2>1, <2>2, <3>1 DEF Registers
  <2>4. CASE caller[c].pc = "call"
    <3>1. Register(c)
      BY <1>1, <2>4 DEF CallerStep, LockTurn, Write, GiveUp, CallReturned, CallFailed, Answered, TurnStarted, CodexEvent,
         CopilotEvent, TakeResponse, FinishTurn
    <3>2. inbox' = inbox /\ caller'[c].id = nextID + 1 /\ caller'[c].id \in pending'
      <4>1. inbox' = inbox /\ pending' = pending \cup {nextID + 1}
        BY <3>1 DEF Register, agent
      <4>2. caller'[c].id = nextID + 1
        BY <3>1 DEF Register, IInv, TypeOK, CallerType
      <4> QED
        BY <4>1, <4>2
    <3>3. \A call \in Items(inbox) : call.id # nextID + 1
      <4> SUFFICES ASSUME NEW k \in DOMAIN inbox PROVE inbox[k].id # nextID + 1
        BY DEF Items
      <4>1. inbox[k] \in Call
        BY <1>i, LenProperties, ElementOfSeq
      <4>2. inbox[k].id \in Nat /\ inbox[k].id <= nextID
        BY <4>1, Bounds DEF Call, IdInv
      <4>3. nextID \in Nat
        BY Bounds DEF IInv, TypeOK
      <4> QED
        BY <4>2, <4>3
    <3>4. Items(inbox)' = Items(inbox)
      BY <3>2 DEF Items
    <3> QED
      BY <2>2, <2>3, <3>2, <3>3, <3>4 DEF ExpectInv
  <2>5. CASE Write(c)
    <3> DEFINE call == [id |-> caller[c].id, op |-> Op(c)]
    <3>1. inbox' = Append(inbox, call) /\ pending' = pending
      BY <2>5 DEF Write
    <3>2. /\ caller[c].pc = "write" /\ InCall(c) /\ Expects(c) /\ caller'[c].id = caller[c].id /\ Op(c)' = Op(c)
          /\ call \in Call
      <4>1. \E k \in Call : k.id = caller[c].id /\ k.op = Op(c)
        BY <2>5, WriteEffect
      <4> QED
        BY <2>5, <4>1, WriteEffect DEF Expects, Op, Call
    <3>3. call.id = caller[c].id /\ call.op = Op(c)
      OBVIOUS
    <3> HIDE DEF call
    <3>4. Items(inbox') = Items(inbox) \cup {call}
      BY <1>i, <3>1, <3>2, ItemsOfAppend
    <3>5. Items(inbox)' = Items(inbox')
      BY DEF Items
    <3>6. \A k \in Items(inbox) : k.id = caller[c].id => k.op = Op(c)
      BY <3>2 DEF ExpectInv
    <3> QED
      BY <2>2, <2>3, <3>1, <3>2, <3>3, <3>4, <3>5, <3>6 DEF ExpectInv
  <2>6. CASE caller[c].pc # "call" /\ ~Write(c)
    <3>1. inbox' = inbox /\ (InCall(c)' => Moves(c))
      BY <1>1, <2>6, CallerBooks
    <3>2. Expects(c)' => caller'[c].id \in pending'
      BY <1>1, <2>6, StaysExpecting DEF ExpectInv
    <3>3. InCall(c)' => InCall(c) /\ caller'[c].id = caller[c].id /\ Op(c)' = Op(c)
      BY <3>1 DEF Moves, Op
    <3>4. Items(inbox)' = Items(inbox)
      BY <3>1 DEF Items
    <3> QED
      BY <2>2, <2>3, <3>2, <3>3, <3>4 DEF ExpectInv
  <2> QED
    BY <2>4, <2>5, <2>6
<1>2. ASSUME NEW c \in Callers, Begins(c), inbox' = inbox PROVE ExpectInv'
  <2>1. Others(c) /\ pending' = pending /\ ~InCall(c)' /\ ~Expects(c)' /\ Items(inbox)' = Items(inbox)
    BY <1>2 DEF Begins, InCall, Expects, Items
  <2>2. \A d \in Callers \ {c} :
          caller'[d] = caller[d] /\ (InCall(d)' => InCall(d)) /\ (Expects(d)' => Expects(d)) /\ Op(d)' = Op(d)
    BY <2>1 DEF Others, InCall, Expects, Op
  <2> QED
    BY <2>1, <2>2 DEF ExpectInv
<1>3. CASE StartSession
  <2>1. Begins("worker") /\ "worker" \in Callers /\ inbox' = inbox
    BY <1>3, StartEffect DEF StartSession, Callers
  <2> QED
    BY <1>2, <2>1
<1>4. CASE RunTurn \/ SetModel
  <2>1. PICK c \in Callers, steps \in Seq(Ops) : Enter(c, steps) /\ steps # <<>>
    BY <1>4, OperationEffect
  <2>2. Begins(c) /\ inbox' = inbox
    BY <2>1, EnterEffect DEF Enter, agent
  <2> QED
    BY <1>2, <2>2
<1>5. CASE Close \/ Closed
  <2>1. \A c \in Callers : ~InCall(c)' /\ ~Expects(c)'
    BY <1>5, CloseEffect DEF Closes, InCall, Expects
  <2> QED
    BY <2>1 DEF ExpectInv
<1>6. CASE Elsewhere
  <2>1. caller' = caller /\ pending' = pending
    BY <1>6, ApartEffect DEF Apart
  <2>2. Items(inbox') \subseteq Items(inbox)
    BY <1>6, <1>i, InboxShrinks, ItemsOfTail, ItemsOfNone
  <2>3. Items(inbox)' = Items(inbox')
    BY DEF Items
  <2> QED
    BY <2>1, <2>2, <2>3 DEF ExpectInv, Expects, InCall, Op
<1> QED
  BY <1>1, <1>3, <1>4, <1>5, <1>6, Steps

\* What is told to the program gets on, and is not lost while the reader lives.
LEMMA OutShrinks ==
  ASSUME IInv, ReadResponse \/ ReadRequest \/ ReadEvent
  PROVE  /\ Head(out) \in Message /\ Items(out) = {Head(out)} \cup Items(out') /\ UNCHANGED <<provider, inbox, cur, events>>
         /\ reader.pc = "read"
<1>1. out \in Seq(Message) /\ out # <<>> /\ out' = Tail(out) /\ reader.pc = "read"
  BY DEF ReadResponse, ReadRequest, ReadEvent, IInv, TypeOK
<1>2. Head(out) \in Message
  BY <1>1, HeadTailProperties
<1> QED
  BY <1>1, <1>2, ItemsOfTail DEF ReadResponse, ReadRequest, ReadEvent, client, channels

LEMMA OutGrows ==
  ASSUME IInv, NEW m \in Message, Tells(m)
  PROVE  Items(out') = Items(out) \cup {m}
BY ItemsOfAppend DEF Tells, IInv, TypeOK

\* A call that is answered when it is taken; a turn of Copilot is when it ends.
AtOnce(i) == \A call \in Items(inbox) : call.id = i => call.op \notin Prompting

LEMMA ReaderTells ==
  ASSUME IInv, ReaderStep, NEW i \in Ids
  PROVE  /\ EndComes(i) => EndComes(i)'
         /\ i \in pending /\ AnswerComes(i) => AnswerComes(i)'
         /\ Accepted(i)' => Accepted(i)
<1>p. Items(out)' = Items(out') /\ Items(events)' = Items(events') /\ Items(inbox)' = Items(inbox')
  BY DEF Items
<1>r. response \in [Ids -> {"none", "ok", "error"}]
  BY DEF IInv, TypeOK
<1>1. CASE ReadResponse
  <2>1. /\ Head(out).kind = "response" /\ Head(out).what \in {"ok", "error"} /\ reader' = reader
        /\ response' = IF Head(out).id \in pending THEN [response EXCEPT ![Head(out).id] = Head(out).what] ELSE response
    BY <1>1, OutShrinks DEF ReadResponse, Message
  <2>2. EndComes(i) => EndComes(i)'
    BY <1>1, <1>p, <2>1, OutShrinks DEF EndComes, EndOf
  <2>3. response[i] # "none" => response'[i] # "none"
    BY <1>r, <2>1
  <2>4. i \in pending /\ Head(out).id = i => response'[i] # "none"
    BY <1>r, <2>1
  <2>5. i \in pending /\ AnswerComes(i) => AnswerComes(i)'
    BY <1>1, <1>p, <2>1, <2>3, <2>4, OutShrinks DEF AnswerComes
  <2>6. response'[i] = "ok" => response[i] = "ok" \/ (Head(out).id = i /\ Head(out).what = "ok")
    BY <1>r, <2>1
  <2>7. Accepted(i)' => Accepted(i)
    BY <1>1, <1>p, <2>1, <2>6, OutShrinks DEF Accepted
  <2> QED
    BY <2>2, <2>5, <2>7
<1>2. CASE ReadRequest
  <2>1. Head(out).kind = "request" /\ Head(out).what = "ask" /\ UNCHANGED <<reader, response>>
    BY <1>2, OutShrinks DEF ReadRequest, Message, channels
  <2> QED
    BY <1>2, <1>p, <2>1, OutShrinks DEF EndComes, EndOf, AnswerComes, Accepted
<1>3. CASE ReadEvent
  <2>1. Head(out).kind = "event" /\ reader' = [pc |-> "send", msg |-> Head(out)] /\ response' = response
    BY <1>3 DEF ReadEvent
  <2>2. reader'.pc = "send" /\ reader'.msg = Head(out)
    BY <2>1
  <2> QED
    BY <1>3, <1>p, <2>1, <2>2, OutShrinks DEF EndComes, EndOf, AnswerComes, Accepted
<1>4. CASE SendEvent
  <2>1. reader.pc = "send" /\ events' = Append(events, reader.msg) /\ UNCHANGED <<response, out, inbox, cur, provider>>
    BY <1>4 DEF SendEvent, agent
  <2>2. Items(events') = Items(events) \cup {reader.msg}
    BY <2>1, ItemsOfAppend DEF IInv, TypeOK, ReaderType
  <2> QED
    BY <1>p, <2>1, <2>2 DEF EndComes, AnswerComes, Accepted
<1> QED
  BY <1>1, <1>2, <1>3, <1>4 DEF ReaderStep

\* The agent tells what it owes: it answers a call when it takes it, and a turn when
\* it ends it.
LEMMA AgentTells ==
  ASSUME IInv, AgentStep \/ AgentNotes, NEW i \in Ids
  PROVE  /\ provider # "copilot" /\ EndComes(i) => EndComes(i)'
         /\ (provider = "copilot" \/ AtOnce(i)) /\ AnswerComes(i) => AnswerComes(i)'
         /\ provider # "copilot" /\ Accepted(i)' =>
              Accepted(i) \/ EndComes(i)' \/ \E call \in Items(inbox) : call.id = i /\ call.op # "turn"
<1>p. Items(out)' = Items(out') /\ Items(events)' = Items(events') /\ Items(inbox)' = Items(inbox')
  BY DEF Items
<1>i. i # 0 /\ inbox \in Seq(Call)
  BY Bounds DEF IInv, TypeOK
<1>u. UNCHANGED <<provider, response, events, reader>>
  BY DEF AgentStep, AgentTakes, AgentSays, AgentAsks, AgentEnds, AgentNotes, channels
<1>1. CASE AgentSays \/ AgentAsks \/ AgentNotes
  <2>1. \E m \in Message : Tells(m) /\ m.kind # "response"
    <3>1. CASE AgentSays
      <4>1. Works /\ Tells(Event(cur.id, "said", said[cur.id] + 1)) /\ said[cur.id] < MaxSaid
        BY <3>1 DEF AgentSays
      <4>2. cur.id \in 0 .. MaxCall /\ said[cur.id] \in 0 .. MaxSaid
        BY <4>1, CurFacts DEF Works
      <4>3. said[cur.id] + 1 \in 0 .. MaxSaid /\ said[cur.id] + 1 # 0
        BY <4>1, <4>2, Bounds
      <4>4. Event(cur.id, "said", said[cur.id] + 1) \in Message
        BY <4>2, <4>3, MessageTypes
      <4> QED
        BY <4>1, <4>4 DEF Event
    <3>2. CASE AgentAsks
      BY <3>2, NothingSaid DEF AgentAsks, Request
    <3>3. CASE AgentNotes
      <4>1. 0 \in 0 .. MaxCall
        BY Bounds
      <4> QED
        BY <3>3, <4>1, MessageTypes DEF AgentNotes, Event
    <3> QED
      BY <1>1, <3>1, <3>2, <3>3
  <2>2. PICK m \in Message : Tells(m) /\ m.kind # "response"
    BY <2>1
  <2>3. Items(out') = Items(out) \cup {m} /\ UNCHANGED <<inbox, cur>>
    BY <1>1, <2>2, OutGrows DEF AgentSays, AgentAsks, AgentNotes
  <2> QED
    BY <1>p, <1>u, <2>2, <2>3 DEF EndComes, AnswerComes, Accepted
<1>2. CASE AgentEnds
  <2>1. cur # NoTurn /\ cur' = NoTurn /\ inbox' = inbox /\ cur.id \in 0 .. MaxCall /\ said[cur.id] \in 0 .. MaxSaid
    BY <1>2, CurFacts DEF AgentEnds, Works
  <2>2. 0 \in 0 .. MaxSaid
    BY Bounds
  <2>3. \E m \in Message : /\ Tells(m) /\ m.id = cur.id
                           /\ IF provider = "copilot" THEN m.kind = "response" ELSE m.kind = "event" /\ EndOf(m, cur.id)
    <3>1. CASE provider = "copilot"
      BY <1>2, <2>1, <3>1, MessageTypes DEF AgentEnds, Response
    <3>2. CASE provider # "copilot"
      <4>1. \/ Tells(Event(cur.id, "completed", 0)) \/ Tells(Event(cur.id, "completed", said[cur.id]))
            \/ Tells(Event(cur.id, "failed", 0))
        BY <1>2, <3>2 DEF AgentEnds
      <4> QED
        BY <2>1, <2>2, <3>2, <4>1, MessageTypes DEF Event, EndOf
    <3> QED
      BY <3>1, <3>2
  <2>4. PICK m \in Message : /\ Tells(m) /\ m.id = cur.id
                            /\ IF provider = "copilot" THEN m.kind = "response" ELSE m.kind = "event" /\ EndOf(m, cur.id)
    BY <2>3
  <2>5. Items(out') = Items(out) \cup {m}
    BY <2>4, OutGrows
  <2> QED
    BY <1>p, <1>u, <2>1, <2>4, <2>5 DEF EndComes, AnswerComes, Accepted
<1>3. CASE AgentTakes
  <2> DEFINE call == Head(inbox)
  <2>1. call \in Call /\ Items(inbox) = {call} \cup Items(inbox')
    BY <1>3, <1>i, ItemsOfTail, HeadTailProperties DEF AgentTakes
  <2>2. /\ call.op \in Turns => cur = NoTurn
        /\ \/ call.op \in Prompting /\ cur' = call /\ out' = out
           \/ /\ call.op \notin Prompting /\ Tells(Response(call.id, "ok"))
              /\ cur' = IF call.op = "turn" THEN call ELSE cur
           \/ call.op \notin Prompting /\ Tells(Response(call.id, "error")) /\ cur' = cur
    BY <1>3 DEF AgentTakes
  <2> HIDE DEF call
  <2>3. call.id \in 0 .. MaxCall
    BY <2>1, Bounds DEF Call
  <2>4. NoTurn.id # i
    BY <1>i DEF NoTurn
  <2>5. CASE call.op \in Prompting
    <3>1. cur = NoTurn /\ cur' = call /\ out' = out
      BY <2>2, <2>5 DEF Turns
    <3> QED
      BY <1>p, <1>u, <2>1, <2>4, <2>5, <3>1 DEF EndComes, AnswerComes, Accepted, AtOnce
  <2>6. CASE call.op \notin Prompting /\ Tells(Response(call.id, "ok")) /\ cur' = IF call.op = "turn" THEN call ELSE cur
    <3> DEFINE m == Response(call.id, "ok")
    <3>m. m.kind = "response" /\ m.id = call.id
      BY DEF Response
    <3>1. Items(out') = Items(out) \cup {m}
      BY <2>3, <2>6, MessageTypes, OutGrows
    <3> HIDE DEF m
    <3>2. CASE call.op = "turn"
      <4>1. cur = NoTurn /\ cur' = call
        BY <2>2, <2>6, <3>2 DEF Turns
      <4> QED
        BY <1>p, <1>u, <2>1, <2>4, <3>m, <3>1, <4>1 DEF EndComes, AnswerComes, Accepted
    <3>3. CASE call.op # "turn"
      <4>1. cur' = cur
        BY <2>6, <3>3
      <4> QED
        BY <1>p, <1>u, <2>1, <3>m, <3>1, <3>3, <4>1 DEF EndComes, AnswerComes, Accepted
    <3> QED
      BY <3>2, <3>3
  <2>7. CASE call.op \notin Prompting /\ Tells(Response(call.id, "error")) /\ cur' = cur
    <3>1. Items(out') = Items(out) \cup {Response(call.id, "error")}
      BY <2>3, <2>7, MessageTypes, OutGrows
    <3> QED
      BY <1>p, <1>u, <2>1, <2>7, <3>1 DEF EndComes, AnswerComes, Accepted, Response
  <2> QED
    BY <2>2, <2>5, <2>6, <2>7
<1> QED
  BY <1>1, <1>2, <1>3 DEF AgentStep

\* Nobody takes events beside the goroutine that waits for a turn of Codex.
LEMMA EventsStay ==
  ASSUME IInv, TurnInv, NEW c \in Callers, NEW d \in Callers \ {c}, CallerStep(c),
         caller[d].pc \in {"wait", "read"}, Op(d) = "turn"
  PROVE  events' = events
<1>1. turnMu = d /\ InCall(d)
  BY DEF TurnInv, InCall, Turns
<1>2. provider # "copilot"
  <2> SUFFICES ASSUME provider = "copilot" PROVE FALSE
    OBVIOUS
  <2>1. caller[d].todo \in Seq(Ops \ {"turn"}) /\ caller[d].todo # <<>>
    BY <1>1, AheadFacts DEF IInv, CountInv
  <2>2. Head(caller[d].todo) \in Ops \ {"turn"}
    BY <2>1, HeadTailProperties
  <2> QED
    BY <2>2 DEF Op
<1>3. ~CodexEvent(c)
  <2> SUFFICES ASSUME CodexEvent(c) PROVE FALSE
    OBVIOUS
  <2>1. InCall(c) /\ Op(c) = "turn"
    BY DEF CodexEvent, InCall, IInv, CountInv
  <2> QED
    BY <1>1, <2>1 DEF TurnInv, Turns
<1>4. ~CopilotEvent(c)
  <2> SUFFICES ASSUME CopilotEvent(c) PROVE FALSE
    OBVIOUS
  <2>1. InCall(c) /\ Op(c) \in Prompting
    BY DEF CopilotEvent, InCall
  <2>2. caller[c].todo \in Seq(Ops \ Prompting) /\ caller[c].todo # <<>>
    BY <1>2, <2>1, AheadFacts DEF TurnInv
  <2>3. Head(caller[c].todo) \in Ops \ Prompting
    BY <2>2, HeadTailProperties
  <2> QED
    BY <2>1, <2>3 DEF Op
<1> QED
  BY <1>3, <1>4 DEF CallerStep, LockTurn, Register, Write, GiveUp, CallReturned, CallFailed, TurnStarted, TakeResponse,
     FinishTurn, channels

\* The calls of the others are not touched by what a goroutine does.
LEMMA OthersAnswered ==
  ASSUME IInv, TurnInv, IdInv, StartedInv, NoAnswerIsLost, NEW c \in Callers, NEW d \in Callers \ {c}, CallerStep(c),
         Others(c), UNCHANGED <<provider, up, reader, out, cur>>, up, reader.pc # "ended",
         Items(inbox) \subseteq Items(inbox'),
         \A i \in Ids : response'[i] # response[i] => InCall(c) /\ i = caller[c].id
  PROVE  /\ caller'[d].pc = "wait" => AnswerComes(caller[d].id)'
         /\ caller'[d].pc = "read" => EndComes(caller[d].id)'
         /\ caller'[d].pc = "wait" /\ Op(d)' = "turn" /\ Accepted(caller[d].id)' => EndComes(caller[d].id)'
<1>p. Items(out)' = Items(out) /\ Items(inbox)' = Items(inbox')
  BY DEF Items
<1>1. caller'[d] = caller[d] /\ Op(d)' = Op(d)
  BY DEF Others, Op
<1>2. caller[d].pc \in {"wait", "read"} => caller[d].id \in Ids /\ response'[caller[d].id] = response[caller[d].id]
  <2> SUFFICES ASSUME caller[d].pc \in {"wait", "read"}
               PROVE  caller[d].id \in Ids /\ response'[caller[d].id] = response[caller[d].id]
    OBVIOUS
  <2>1. InCall(d) /\ caller[d].id \in Ids
    BY CallIds DEF InCall
  <2> QED
    BY <2>1 DEF IdInv
<1>3. caller[d].pc \in {"wait", "read"} /\ Op(d) = "turn" /\ EndComes(caller[d].id) => EndComes(caller[d].id)'
  <2> SUFFICES ASSUME caller[d].pc \in {"wait", "read"}, Op(d) = "turn", EndComes(caller[d].id)
               PROVE  EndComes(caller[d].id)'
    OBVIOUS
  <2>1. events' = events
    BY EventsStay
  <2>2. Items(events)' = Items(events)
    BY <2>1 DEF Items
  <2> QED
    BY <1>p, <1>1, <2>2 DEF EndComes
<1>4. caller[d].pc = "read" => Op(d) = "turn"
  BY DEF IInv, CountInv
<1>5. caller[d].pc = "wait" => AnswerComes(caller[d].id)'
  BY <1>p, <1>1, <1>2 DEF NoAnswerIsLost, AnswerComes
<1>6. caller[d].pc = "read" => EndComes(caller[d].id)'
  BY <1>3, <1>4 DEF NoAnswerIsLost
<1>7. caller[d].pc = "wait" /\ Op(d) = "turn" /\ Accepted(caller[d].id)' => EndComes(caller[d].id)'
  BY <1>p, <1>1, <1>2, <1>3 DEF StartedInv, Accepted
<1> QED
  BY <1>1, <1>5, <1>6, <1>7

LEMMA CallerAnswered ==
  ASSUME IInv, TurnInv, IdInv, AnswerInv, NEW c \in Callers, CallerStep(c), up', reader'.pc # "ended"
  PROVE  StartedInv' /\ NoAnswerIsLost'
<1>t. caller \in [Callers -> CallerType] /\ caller[c] \in CallerType /\ inbox \in Seq(Call) /\ events \in Seq(Message)
      /\ response \in [Ids -> {"none", "ok", "error"}]
  BY DEF IInv, TypeOK
<1>a. ExpectInv /\ StartedInv /\ NoAnswerIsLost
  BY DEF AnswerInv
<1>p. Items(out)' = Items(out') /\ Items(events)' = Items(events') /\ Items(inbox)' = Items(inbox')
  BY DEF Items
<1>1. CASE caller[c].pc = "call"
  <2>1. Register(c)
    BY <1>1 DEF CallerStep, LockTurn, Write, GiveUp, CallReturned, CallFailed, Answered, TurnStarted, CodexEvent,
       CopilotEvent, TakeResponse, FinishTurn
  <2>2. Others(c) /\ UNCHANGED <<provider, up, reader, out, cur, inbox, response>> /\ caller'[c].pc = "write"
    BY <1>t, <2>1 DEF Register, Others, CallerType, channels, agent
  <2>3. up /\ reader.pc # "ended"
    BY <2>2
  <2>4. \A d \in Callers \ {c} :
          /\ caller'[d].pc = "wait" => AnswerComes(caller[d].id)'
          /\ caller'[d].pc = "read" => EndComes(caller[d].id)'
          /\ caller'[d].pc = "wait" /\ Op(d)' = "turn" /\ Accepted(caller[d].id)' => EndComes(caller[d].id)'
    BY <1>a, <2>2, <2>3, OthersAnswered
  <2> QED
    BY <2>2, <2>4 DEF StartedInv, NoAnswerIsLost, Others
<1>2. CASE Write(c)
  <2>1. /\ Others(c) /\ UNCHANGED <<provider, up, reader, out, cur, events, response>>
        /\ caller[c].pc = "write" /\ caller'[c].pc = "wait" /\ caller'[c].id = caller[c].id
    BY <1>2, WriteEffect
  <2>2. up /\ reader.pc # "ended"
    BY <2>1
  <2>3. \E call \in Call : call.id = caller[c].id /\ inbox' = Append(inbox, call)
    <3>1. \E call \in Call : call.id = caller[c].id /\ call.op = Op(c)
      BY <1>2, WriteEffect
    <3>2. [id |-> caller[c].id, op |-> Op(c)] \in Call
      BY <3>1 DEF Call
    <3> QED
      BY <1>2, <3>2 DEF Write
  <2>4. PICK call \in Call : call.id = caller[c].id /\ inbox' = Append(inbox, call)
    BY <2>3
  <2>5. Items(inbox') = Items(inbox) \cup {call}
    BY <1>t, <2>4, ItemsOfAppend
  <2>6. \A d \in Callers \ {c} :
          /\ caller'[d].pc = "wait" => AnswerComes(caller[d].id)'
          /\ caller'[d].pc = "read" => EndComes(caller[d].id)'
          /\ caller'[d].pc = "wait" /\ Op(d)' = "turn" /\ Accepted(caller[d].id)' => EndComes(caller[d].id)'
    BY <1>a, <2>1, <2>2, <2>5, OthersAnswered
  <2>7. AnswerComes(caller[c].id)'
    BY <1>p, <2>1, <2>4, <2>5 DEF AnswerComes
  <2>8. ~Accepted(caller[c].id)'
    <3>1. ~Accepted(caller[c].id)
      BY <2>1, <2>2, NotAccepted
    <3> QED
      BY <1>p, <2>1, <3>1 DEF Accepted
  <2> QED
    BY <2>1, <2>6, <2>7, <2>8 DEF StartedInv, NoAnswerIsLost, Others
<1>3. CASE caller[c].pc # "call" /\ ~Write(c)
  <2>1. /\ UNCHANGED <<provider, inbox, cur, up, reader, out>> /\ Others(c)
        /\ response' = response \/ (InCall(c) /\ response' = [response EXCEPT ![caller[c].id] = "none"])
        /\ InCall(c)' => Moves(c)
    BY <1>3, CallerBooks
  <2>2. up /\ reader.pc # "ended" /\ \A i \in Ids : response'[i] # response[i] => InCall(c) /\ i = caller[c].id
    BY <1>t, <2>1
  <2>3. \A d \in Callers \ {c} :
          /\ caller'[d].pc = "wait" => AnswerComes(caller[d].id)'
          /\ caller'[d].pc = "read" => EndComes(caller[d].id)'
          /\ caller'[d].pc = "wait" /\ Op(d)' = "turn" /\ Accepted(caller[d].id)' => EndComes(caller[d].id)'
    BY <1>a, <2>1, <2>2, OthersAnswered
  <2>4. caller'[c].pc = "wait" => AnswerComes(caller[c].id)' /\ Op(c)' # "turn"
    <3> SUFFICES ASSUME caller'[c].pc = "wait" PROVE AnswerComes(caller[c].id)' /\ Op(c)' # "turn"
      OBVIOUS
    <3>1. caller[c].pc = "wait" /\ CopilotEvent(c) /\ caller'[c].id = caller[c].id
      BY <1>3, StaysExpecting DEF Expects
    <3>2. response' = response /\ Op(c)' = Op(c) /\ Op(c) \in Prompting
      BY <1>t, <3>1 DEF CopilotEvent, Op, CallerType
    <3>3. AnswerComes(caller[c].id)
      BY <1>a, <2>2, <3>1 DEF NoAnswerIsLost
    <3> QED
      BY <1>p, <2>1, <3>1, <3>2, <3>3 DEF AnswerComes, Prompting
  <2>5. caller'[c].pc = "read" => EndComes(caller[c].id)'
    <3> SUFFICES ASSUME caller'[c].pc = "read" PROVE EndComes(caller[c].id)'
      OBVIOUS
    <3>1. Moves(c) /\ caller'[c].id = caller[c].id
      BY <2>1 DEF InCall, Moves
    <3>2. TurnStarted(c) \/ CodexEvent(c)
      <4>1. CASE GiveUp(c) \/ CallReturned(c) \/ CallFailed(c) \/ FinishTurn(c)
        <5>1. /\ InCall(c) /\ nextID' = nextID
              /\ Fail(c) \/ (Succeed(c) /\ caller[c].pc \in {"wait", "drain"})
          BY <4>1 DEF GiveUp, CallReturned, CallFailed, FinishTurn, Answered, InCall
        <5>2. GoesOn(c) \/ Returns(c)
          BY <5>1, FailEffect, SucceedEffect
        <5> QED
          BY <5>2 DEF GoesOn, Returns
      <4>2. ~LockTurn(c) /\ ~Register(c) /\ ~CopilotEvent(c) /\ ~TakeResponse(c)
        BY <1>t DEF LockTurn, Register, CopilotEvent, TakeResponse, CallerType
      <4> QED
        BY <1>3, <4>1, <4>2 DEF CallerStep
    <3>3. CASE TurnStarted(c)
      <4>1. caller[c].pc = "wait" /\ Op(c) = "turn" /\ Accepted(caller[c].id) /\ events' = events
        BY <3>3 DEF TurnStarted, Answered, Accepted
      <4>2. EndComes(caller[c].id)
        BY <1>a, <2>2, <4>1 DEF StartedInv
      <4> QED
        BY <1>p, <2>1, <3>1, <4>1, <4>2 DEF EndComes
    <3>4. CASE CodexEvent(c)
      <4>1. caller[c].pc = "read" /\ events # <<>> /\ events' = Tail(events)
        BY <3>4 DEF CodexEvent
      <4>2. ~EndOf(Head(events), caller[c].id)
        <5> SUFFICES ASSUME EndOf(Head(events), caller[c].id) PROVE FALSE
          OBVIOUS
        <5>1. Fail(c) \/ caller' = [caller EXCEPT ![c] = Idle]
          BY <3>4 DEF CodexEvent, EndOf
        <5>2. caller'[c].pc # "read"
          <6>1. CASE Fail(c)
            <7>1. InCall(c) /\ nextID' = nextID
              BY <3>4 DEF CodexEvent, InCall
            <7> QED
              BY <6>1, <7>1, FailEffect DEF Returns
          <6>2. CASE caller' = [caller EXCEPT ![c] = Idle]
            BY <1>t, <6>2 DEF Idle
          <6> QED
            BY <5>1, <6>1, <6>2
        <5> QED
          BY <5>2
      <4>3. Items(events) = {Head(events)} \cup Items(events')
        BY <1>t, <4>1, ItemsOfTail
      <4>4. EndComes(caller[c].id)
        BY <1>a, <2>2, <4>1 DEF NoAnswerIsLost
      <4> QED
        BY <1>p, <2>1, <3>1, <4>2, <4>3, <4>4 DEF EndComes
    <3> QED
      BY <3>2, <3>3, <3>4
  <2> QED
    BY <2>3, <2>4, <2>5 DEF StartedInv, NoAnswerIsLost, Others
<1> QED
  BY <1>1, <1>2, <1>3

LEMMA NextAnswered ==
  ASSUME IInv, IInv', TurnInv, IdInv, AnswerInv, [Next]_vars
  PROVE  AnswerInv'
<1>a. ExpectInv /\ StartedInv /\ NoAnswerIsLost
  BY DEF AnswerInv
<1>1. ExpectInv'
  BY <1>a, NextExpects
<1> SUFFICES ASSUME up', reader'.pc # "ended" PROVE StartedInv' /\ NoAnswerIsLost'
  BY <1>1 DEF AnswerInv, StartedInv, NoAnswerIsLost
<1>2. ASSUME NEW c \in Callers, CallerStep(c) PROVE StartedInv' /\ NoAnswerIsLost'
  BY <1>2, CallerAnswered
<1>3. ASSUME NEW c \in Callers, Begins(c), UNCHANGED <<provider, response, events, reader, up, inbox, out, cur>>
      PROVE  StartedInv' /\ NoAnswerIsLost'
  <2>1. \A d \in Callers : caller'[d].pc \in {"wait", "read"} => caller'[d] = caller[d]
    BY <1>3 DEF Begins, Others, InCall
  <2>2. Items(out)' = Items(out) /\ Items(events)' = Items(events) /\ Items(inbox)' = Items(inbox)
    BY <1>3 DEF Items
  <2> QED
    BY <1>a, <1>3, <2>1, <2>2 DEF StartedInv, NoAnswerIsLost, AnswerComes, EndComes, Accepted, Op
<1>4. CASE StartSession
  <2>1. \A d \in Callers : caller'[d].pc \notin {"wait", "read"}
    BY <1>4, StartEffect DEF Begins, Others, IInv, LifeInv
  <2> QED
    BY <2>1 DEF StartedInv, NoAnswerIsLost
<1>5. CASE RunTurn \/ SetModel
  <2>1. PICK c \in Callers, steps \in Seq(Ops) : Enter(c, steps) /\ steps # <<>>
    BY <1>5, OperationEffect
  <2>2. Begins(c) /\ UNCHANGED <<provider, response, events, reader, up, inbox, out, cur>>
    BY <2>1, EnterEffect DEF Enter, agent, channels
  <2> QED
    BY <1>3, <2>2
<1>6. CASE Close \/ Closed
  <2>1. \A d \in Callers : caller'[d].pc \notin {"wait", "read"}
    BY <1>6, CloseEffect DEF Closes
  <2> QED
    BY <2>1 DEF StartedInv, NoAnswerIsLost
<1>7. CASE Elsewhere
  <2>1. caller' = caller /\ provider' = provider /\ up
    BY <1>7, ApartEffect DEF Apart
  <2>2. reader.pc # "ended"
    BY <1>7 DEF Elsewhere, Cancel, CancelProcess, ReaderStep, ReadResponse, ReadRequest, ReadEvent, SendEvent, ReaderEnds,
       Reap, HandleRequest, AgentStep, AgentTakes, AgentSays, AgentAsks, AgentEnds, AgentNotes, AgentDies, vars, channels
  <2>3. ReaderStep \/ AgentStep \/ AgentNotes \/ UNCHANGED <<response, events, reader, inbox, out, cur>>
    <3>1. CASE Cancel \/ CancelProcess \/ HandleRequest \/ UNCHANGED vars
      BY <3>1 DEF Cancel, CancelProcess, HandleRequest, vars, channels, agent
    <3>2. ~ReaderEnds /\ ~Reap /\ ~AgentDies
      BY <2>1 DEF ReaderEnds, Reading, Reap, AgentDies
    <3> QED
      BY <1>7, <3>1, <3>2 DEF Elsewhere
  <2>4. ASSUME NEW c \in Callers, caller[c].pc = "wait"
        PROVE  /\ AnswerComes(caller[c].id)'
               /\ Op(c) = "turn" /\ Accepted(caller[c].id)' => EndComes(caller[c].id)'
    <3>0. caller[c].id \in Ids /\ InCall(c)
      BY <2>4, CallIds DEF InCall
    <3> PICK i \in Ids : i = caller[c].id
      BY <3>0
    <3>i. i = caller'[c].id
      BY <2>1
    <3>1. i \in pending /\ InCall(c)
      BY <1>a, <2>4, <3>0 DEF ExpectInv, Expects
    <3>2. Op(c) \in Ops /\ (provider # "copilot" => Op(c) \notin Prompting) /\ (provider = "copilot" => Op(c) # "turn")
      <4>1. caller[c].todo \in Seq(Ops) /\ caller[c].todo # <<>>
        BY <3>1, AheadFacts
      <4>2. provider # "copilot" => caller[c].todo \in Seq(Ops \ Prompting)
        BY DEF TurnInv
      <4>3. provider = "copilot" => caller[c].todo \in Seq(Ops \ {"turn"})
        BY DEF IInv, CountInv
      <4>4. Head(caller[c].todo) \in Ops
        BY <4>1, HeadTailProperties
      <4>5. provider # "copilot" => Head(caller[c].todo) \in Ops \ Prompting
        BY <4>1, <4>2, HeadTailProperties
      <4>6. provider = "copilot" => Head(caller[c].todo) \in Ops \ {"turn"}
        BY <4>1, <4>3, HeadTailProperties
      <4> QED
        BY <4>4, <4>5, <4>6 DEF Op
    <3>3. \A call \in Items(inbox) : call.id = i => call.op = Op(c)
      BY <1>a, <3>1 DEF ExpectInv
    <3>4. provider = "copilot" \/ AtOnce(i)
      BY <3>2, <3>3 DEF AtOnce
    <3>5. AnswerComes(i) /\ (Op(c) = "turn" /\ Accepted(i) => EndComes(i))
      BY <1>a, <2>1, <2>2, <2>4 DEF NoAnswerIsLost, StartedInv
    <3>6. CASE ReaderStep
      BY <3>i, <3>1, <3>5, <3>6, ReaderTells
    <3>7. CASE AgentStep \/ AgentNotes
      BY <3>i, <3>1, <3>2, <3>3, <3>4, <3>5, <3>7, AgentTells
    <3>8. CASE UNCHANGED <<response, events, reader, inbox, out, cur>>
      <4>1. Items(out)' = Items(out) /\ Items(events)' = Items(events) /\ Items(inbox)' = Items(inbox)
        BY <3>8 DEF Items
      <4> QED
        BY <2>1, <3>i, <3>5, <3>8, <4>1 DEF AnswerComes, EndComes, Accepted
    <3> QED
      BY <2>3, <3>6, <3>7, <3>8
  <2>5. ASSUME NEW c \in Callers, caller[c].pc = "read" PROVE EndComes(caller[c].id)'
    <3>1. caller[c].id \in Ids /\ provider # "copilot"
      BY <2>5, CallIds, ReadsCodex DEF InCall
    <3>2. EndComes(caller[c].id)
      BY <1>a, <2>1, <2>2, <2>5 DEF NoAnswerIsLost
    <3>3. CASE ReaderStep
      BY <2>1, <3>1, <3>2, <3>3, ReaderTells
    <3>4. CASE AgentStep \/ AgentNotes
      BY <2>1, <3>1, <3>2, <3>4, AgentTells
    <3>5. CASE UNCHANGED <<response, events, reader, inbox, out, cur>>
      <4>1. Items(out)' = Items(out) /\ Items(events)' = Items(events)
        BY <3>5 DEF Items
      <4> QED
        BY <2>1, <3>2, <3>5, <4>1 DEF EndComes
    <3> QED
      BY <2>3, <3>3, <3>4, <3>5
  <2> QED
    BY <2>1, <2>4, <2>5 DEF StartedInv, NoAnswerIsLost, Op
<1> QED
  BY <1>2, <1>4, <1>5, <1>6, <1>7, Steps

\* Whoever waits for an agent that lives and is read has an answer to come, whatever the
\* interleaving; and in a session that is closed nobody waits.
THEOREM AnswersCome == Spec => []NobodyWaitsInVain
<1>1. Init => AnswerInv
  <2> SUFFICES ASSUME Init PROVE AnswerInv
    OBVIOUS
  <2>1. ~up /\ \A c \in Callers : ~Expects(c) /\ ~InCall(c)
    BY DEF Init, Idle, Expects, InCall
  <2> QED
    BY <2>1 DEF AnswerInv, ExpectInv, StartedInv, NoAnswerIsLost
<1>2. IInv /\ IInv' /\ RInv /\ AnswerInv /\ [Next]_vars => AnswerInv'
  BY NextAnswered DEF RInv
<1>3. Init => RInv
  BY InitR DEF RInv
<1>4. IInv /\ IInv' /\ RInv /\ [Next]_vars => RInv'
  BY NextR
<1>5. AnswerInv => NoAnswerIsLost
  BY DEF AnswerInv
<1>6. NoAgentIsLeft /\ NoAnswerIsLost => NobodyWaitsInVain
  BY DEF NobodyWaitsInVain
<1> QED
  BY <1>1, <1>2, <1>3, <1>4, <1>5, <1>6, Inductive, NoAgentLeft, PTL DEF Spec
=============================================================================
