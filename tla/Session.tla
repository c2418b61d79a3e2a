--------------------------------- MODULE Session ---------------------------------
(***************************************************************************)
(* A session with an agent: a child process that is called over its stdin  *)
(* and answers, tells and asks over its stdout (internal/runner, the Codex *)
(* session.go and the Copilot copilot_session.go, which share this         *)
(* machinery and differ in what a turn is).                                *)
(*                                                                         *)
(*   Codex    a call starts a turn; its end and its text are events.       *)
(*   Copilot  a turn is one long call; its text are the events before the  *)
(*            response.  /ide and /model are turns of their own.           *)
(*                                                                         *)
(* The worker runs turns and closes the session, the input goroutine       *)
(* switches its model, a reader and a waiter follow the process, and each  *)
(* request of the agent has a goroutine.  The agent is modelled by what it *)
(* may send.                                                               *)
(***************************************************************************)
EXTENDS Naturals, Sequences

CONSTANTS Providers, \* the providers the agent can be of
          Capacity,  \* places of the channel of events
          Pipe,      \* bound: messages the agent can write that nobody has read
          MaxCall,   \* bound: calls of a session
          MaxSaid,   \* bound: messages of a turn
          MaxNotes,  \* bound: events that belong to no turn
          Faults     \* what can go wrong

ASSUME SessionAssumption ==
  /\ Providers \subseteq {"codex", "copilot"}
  /\ Capacity \in Nat /\ Pipe \in Nat /\ MaxCall \in Nat /\ MaxSaid \in Nat /\ MaxNotes \in Nat
  /\ MaxCall >= 3  \* initialize, new and /ide
  /\ Faults \subseteq {"refuse", "die", "line", "cancel"}

VARIABLES
  provider,
  session,  \* what its owner sees of it
  caller,   \* the goroutines that use it
  turnMu,   \* who holds turnMu
  ide,      \* CopilotSession.ideEnabled
  nextID,   \* the last id of a call
  pending,  \* the calls whose response is expected
  response, \* the channel of each call
  events,   \* the channel of events
  reader,   \* the goroutine that reads stdout
  ctx,      \* the context of the process is done
  done,     \* the process is known to have ended
  request,  \* what becomes of a request of the agent
  up,       \* the process lives
  inbox,    \* stdin: what the agent has not taken
  out,      \* stdout: what nobody has read
  cur,      \* the turn the agent works on
  said,     \* history: how much the agent has said in each turn
  notes,    \* history: the events that belong to no turn
  result    \* history: the last result of a turn

client == <<session, caller, turnMu, ide, nextID, pending, result>>
channels == <<response, events, reader>>
process == <<ctx, done>>
agent == <<up, inbox, out, cur, said, notes>>
vars == <<provider, client, channels, process, request, agent>>

Callers == {"worker", "input"}
Ids == 1 .. MaxCall
Ops == {"initialize", "new", "turn", "settings", "ide", "model", "prompt"}
Prompting == {"ide", "model", "prompt"}  \* the calls of a Copilot turn
Turns == Prompting \cup {"turn"}

Idle == [pc |-> "idle", todo |-> <<>>, id |-> 0, text |-> <<>>]
NoTurn == [id |-> 0, op |-> "turn"]
NoResult == [id |-> 0, text |-> <<>>, late |-> FALSE]

\* What the agent says has a number in its turn, from 1 on.
Event(id, what, n) == [kind |-> "event", id |-> id, what |-> what, n |-> n]
Response(id, what) == [kind |-> "response", id |-> id, what |-> what, n |-> 0]
Request == [kind |-> "request", id |-> 0, what |-> "ask", n |-> 0]
Message == {m \in [kind : {"event", "response", "request"}, id : 0 .. MaxCall,
                    what : {"ok", "error", "said", "completed", "failed", "note", "ask"}, n : 0 .. MaxSaid] :
              /\ m.what = "said" => m.kind = "event" /\ m.n # 0
              /\ m.kind = "response" => m.what \in {"ok", "error"}
              /\ m.kind = "request" => m.what = "ask"}
Reading == [pc |-> "read", msg |-> Event(0, "note", 0)]

Texts == Seq(1 .. MaxSaid)
Places == {"idle", "lock", "call", "write", "wait", "read", "drain", "close"}
CallerType == [pc : Places, todo : Seq(Ops), id : 0 .. MaxCall, text : Texts]
ReaderType == [pc : {"read", "send", "ended"}, msg : Message]
Call == [id : Ids, op : Ops]
TurnType == [id : 0 .. MaxCall, op : Turns]
ResultType == [id : 0 .. MaxCall, text : Texts, late : BOOLEAN]

TypeOK ==
  /\ provider \in Providers
  /\ session \in {"none", "starting", "open", "closing", "closed"}
  /\ caller \in [Callers -> CallerType]
  /\ turnMu \in Callers \cup {"free"}
  /\ ide \in BOOLEAN /\ nextID \in 0 .. MaxCall /\ pending \subseteq Ids
  /\ response \in [Ids -> {"none", "ok", "error"}]
  /\ events \in Seq(Message) /\ Len(events) <= Capacity
  /\ reader \in ReaderType
  /\ ctx \in BOOLEAN /\ done \in BOOLEAN
  /\ request \in {"none", "sent", "asked", "answered"}
  /\ up \in BOOLEAN /\ out \in Seq(Message) /\ Len(out) <= Pipe
  /\ inbox \in Seq(Call) /\ cur \in TurnType
  /\ said \in [Ids -> 0 .. MaxSaid] /\ notes \in 0 .. MaxNotes
  /\ result \in ResultType

Init ==
  /\ provider \in Providers
  /\ session = "none"
  /\ caller = [c \in Callers |-> Idle]
  /\ turnMu = "free" /\ ide = FALSE /\ nextID = 0 /\ pending = {}
  /\ response = [i \in Ids |-> "none"] /\ events = <<>> /\ reader = Reading
  /\ ctx = FALSE /\ done = FALSE
  /\ request = "none"
  /\ up = FALSE /\ inbox = <<>> /\ out = <<>> /\ cur = NoTurn
  /\ said = [i \in Ids |-> 0] /\ notes = 0
  /\ result = NoResult

CanFail(fault) == fault \in Faults

-----------------------------------------------------------------------------
(* The operations *)

\* The process is started, and the conversation begins with two calls.
StartSession ==
  /\ session = "none"
  /\ session' = "starting" /\ up' = TRUE
  /\ caller' = [caller EXCEPT !["worker"] = [Idle EXCEPT !.pc = "call", !.todo = <<"initialize", "new">>]]
  /\ UNCHANGED <<provider, turnMu, ide, nextID, pending, result, channels, process, request, inbox, out, cur, said,
                 notes>>

\* RunTurn and SetModel; of both providers only SetModel of Codex goes without turnMu.
\* Bound: the calls of a session, with one place kept for /ide.
Enter(c, steps) ==
  /\ session = "open" /\ caller[c].pc = "idle"
  /\ nextID + Len(caller["worker"].todo) + Len(caller["input"].todo) + Len(steps)
       + (IF provider = "copilot" /\ ide THEN 0 ELSE 1) <= MaxCall
  /\ caller' = [caller EXCEPT ![c] = [Idle EXCEPT !.pc = IF steps = <<"settings">> THEN "call" ELSE "lock",
                                                  !.todo = steps]]
  /\ UNCHANGED <<provider, session, turnMu, ide, nextID, pending, result, channels, process, request, agent>>

RunTurn == \/ provider = "codex" /\ Enter("worker", <<"turn">>)
           \/ provider = "copilot" /\ \E steps \in {<<"prompt">>, <<"model", "prompt">>} : Enter("worker", steps)

SetModel == Enter("input", IF provider = "codex" THEN <<"settings">> ELSE <<"model">>)

LockTurn(c) ==
  /\ caller[c].pc = "lock" /\ turnMu = "free"
  /\ turnMu' = c
  /\ caller' = [caller EXCEPT ![c].pc = "call",
                              ![c].todo = IF provider = "copilot" /\ ~ide THEN <<"ide">> \o @ ELSE @]
  /\ UNCHANGED <<provider, session, ide, nextID, pending, result, channels, process, request, agent>>

-----------------------------------------------------------------------------
(* A call: call, notify, write, and the loops of both RunTurn *)

Op(c) == Head(caller[c].todo)

\* The response is expected before the call is written.
Register(c) ==
  /\ caller[c].pc = "call"
  /\ nextID' = nextID + 1
  /\ pending' = pending \cup {nextID + 1}
  /\ caller' = [caller EXCEPT ![c].pc = "write", ![c].id = nextID + 1, ![c].text = <<>>]
  /\ UNCHANGED <<provider, session, turnMu, ide, result, channels, process, request, agent>>

Write(c) ==
  /\ caller[c].pc = "write" /\ up
  /\ inbox' = Append(inbox, [id |-> caller[c].id, op |-> Op(c)])
  /\ caller' = [caller EXCEPT ![c].pc = "wait"]
  /\ UNCHANGED <<provider, session, turnMu, ide, nextID, pending, result, channels, process, request,
                 up, out, cur, said, notes>>

\* What a goroutine does after the call it waited for: the next one, or it returns.
Succeed(c) ==
  /\ pending' = pending \ {caller[c].id}
  /\ response' = [response EXCEPT ![caller[c].id] = "none"]
  /\ ide' = (ide \/ Op(c) = "ide")
  /\ IF Len(caller[c].todo) > 1
     THEN /\ caller' = [caller EXCEPT ![c] = [Idle EXCEPT !.pc = "call", !.todo = Tail(caller[c].todo)]]
          /\ UNCHANGED <<session, turnMu, result>>
     ELSE /\ caller' = [caller EXCEPT ![c] = Idle]
          /\ session' = IF session = "starting" THEN "open" ELSE session
          /\ turnMu' = IF turnMu = c THEN "free" ELSE turnMu
          /\ result' = IF Op(c) \in {"turn", "prompt"} THEN [id |-> caller[c].id, text |-> caller[c].text, late |-> ctx]
                      ELSE result

\* Mutant: a session that cannot be initialised is given up without being closed.
FailOpen(c) ==
  /\ pending' = pending \ {caller[c].id}
  /\ response' = [response EXCEPT ![caller[c].id] = "none"]
  /\ turnMu' = IF turnMu = c THEN "free" ELSE turnMu
  /\ session' = IF session = "starting" THEN "closed" ELSE session
  /\ caller' = [caller EXCEPT ![c] = Idle]
  /\ UNCHANGED <<ide, result>>

\* It returns an error; StartSession closes what it has started.
Fail(c) ==
  /\ pending' = pending \ {caller[c].id}
  /\ response' = [response EXCEPT ![caller[c].id] = "none"]
  /\ turnMu' = IF turnMu = c THEN "free" ELSE turnMu
  /\ IF session = "starting" THEN session' = "closing" /\ caller' = [caller EXCEPT ![c] = [Idle EXCEPT !.pc = "close"]]
     ELSE caller' = [caller EXCEPT ![c] = Idle] /\ UNCHANGED session
  /\ UNCHANGED <<ide, result>>

\* Mutant: a turn only watches its own context.
GiveUpWhenCancelled(c) ==
  /\ \/ caller[c].pc = "write" /\ ~up
     \/ caller[c].pc \in {"wait", "read"} /\ ctx
  /\ Fail(c)
  /\ UNCHANGED <<provider, nextID, events, reader, process, request, agent>>

\* The pipe is broken, the context or the process is done.
GiveUp(c) ==
  /\ \/ caller[c].pc = "write" /\ ~up
     \/ caller[c].pc \in {"wait", "read"} /\ (ctx \/ done)
  /\ Fail(c)
  /\ UNCHANGED <<provider, nextID, events, reader, process, request, agent>>

Answered(c, what) == caller[c].pc = "wait" /\ response[caller[c].id] = what

CallReturned(c) ==
  /\ Answered(c, "ok") /\ Op(c) \in {"initialize", "new", "settings"}
  /\ Succeed(c)
  /\ UNCHANGED <<provider, nextID, events, reader, process, request, agent>>

\* A response that is an error, or that cannot be used.
CallFailed(c) ==
  /\ Answered(c, "error") /\ Op(c) \notin Prompting
  /\ Fail(c)
  /\ UNCHANGED <<provider, nextID, events, reader, process, request, agent>>

\* Codex has started the turn: its events are read from here on.
TurnStarted(c) ==
  /\ Answered(c, "ok") /\ Op(c) = "turn"
  /\ pending' = pending \ {caller[c].id}
  /\ response' = [response EXCEPT ![caller[c].id] = "none"]
  /\ caller' = [caller EXCEPT ![c].pc = "read"]
  /\ UNCHANGED <<provider, session, turnMu, ide, nextID, result, events, reader, process, request, agent>>

\* Codex: the last final message of the turn counts, in an item or in the end.
TextOf(c, event) ==
  IF event.what \notin {"said", "completed"} \/ event.id # caller[c].id \/ event.n = 0 THEN caller[c].text
  ELSE <<event.n>>

CodexEvent(c) ==
  /\ caller[c].pc = "read" /\ events # <<>>
  /\ LET event == Head(events) IN
     IF event.id = caller[c].id /\ event.what \in {"completed", "failed"}
     THEN IF event.what = "failed" THEN Fail(c)
          ELSE /\ caller' = [caller EXCEPT ![c] = Idle]
               /\ turnMu' = "free"
               /\ result' = [id |-> caller[c].id, text |-> TextOf(c, event), late |-> ctx]
               /\ UNCHANGED <<session, ide, pending, response>>
     ELSE /\ caller' = [caller EXCEPT ![c].text = TextOf(c, event)]
          /\ UNCHANGED <<session, turnMu, ide, pending, response, result>>
  /\ events' = Tail(events)
  /\ UNCHANGED <<provider, nextID, reader, process, request, agent>>

\* Copilot: chunks carry no turn; they are appended while the call is waited for
\* and, once its response is there, until there are none.
CopilotEvent(c) ==
  /\ caller[c].pc \in {"wait", "drain"} /\ Op(c) \in Prompting /\ events # <<>>
  /\ caller' = [caller EXCEPT ![c].text = IF Head(events).what = "said" THEN Append(@, Head(events).n) ELSE @]
  /\ events' = Tail(events)
  /\ UNCHANGED <<provider, session, turnMu, ide, nextID, pending, result, response, reader, process, request, agent>>

TakeResponse(c) ==
  /\ caller[c].pc = "wait" /\ Op(c) \in Prompting /\ response[caller[c].id] # "none"
  /\ caller' = [caller EXCEPT ![c].pc = "drain"]
  /\ UNCHANGED <<provider, session, turnMu, ide, nextID, pending, result, channels, process, request, agent>>

\* Mutant: the turn ends with its response.
FinishAtOnce(c) ==
  /\ caller[c].pc = "drain"
  /\ IF response[caller[c].id] = "ok" THEN Succeed(c) ELSE Fail(c)
  /\ UNCHANGED <<provider, nextID, events, reader, process, request, agent>>

FinishTurn(c) ==
  /\ caller[c].pc = "drain" /\ events = <<>>
  /\ IF response[caller[c].id] = "ok" THEN Succeed(c) ELSE Fail(c)
  /\ UNCHANGED <<provider, nextID, events, reader, process, request, agent>>

-----------------------------------------------------------------------------
(* Close *)

\* The owner closes a session nobody else uses (sessionMu, Engine.mu).
Close ==
  /\ session = "open" /\ \A c \in Callers : caller[c].pc = "idle"
  /\ session' = "closing"
  /\ caller' = [caller EXCEPT !["worker"] = [Idle EXCEPT !.pc = "close"]]
  /\ UNCHANGED <<provider, turnMu, ide, nextID, pending, result, channels, process, request, agent>>

\* The context is cancelled, stdin closed, and the process waited for.
CancelProcess ==
  /\ caller["worker"].pc = "close" /\ ~ctx
  /\ ctx' = TRUE
  /\ UNCHANGED <<provider, client, channels, done, request, agent>>

Closed ==
  /\ caller["worker"].pc = "close" /\ ctx /\ done
  /\ session' = "closed"
  /\ caller' = [caller EXCEPT !["worker"] = Idle]
  /\ UNCHANGED <<provider, turnMu, ide, nextID, pending, result, channels, process, request, agent>>

\* The context of the program ends.
Cancel ==
  /\ CanFail("cancel") /\ session # "none" /\ ~ctx
  /\ ctx' = TRUE
  /\ UNCHANGED <<provider, client, channels, done, request, agent>>

-----------------------------------------------------------------------------
(* The reader, the waiter and the goroutines of requests *)

\* A response is handed to the call that expects it, if any still does.
ReadResponse ==
  /\ reader.pc = "read" /\ out # <<>> /\ Head(out).kind = "response"
  /\ response' = IF Head(out).id \in pending THEN [response EXCEPT ![Head(out).id] = Head(out).what] ELSE response
  /\ out' = Tail(out)
  /\ UNCHANGED <<provider, client, events, reader, process, request, up, inbox, cur, said, notes>>

ReadRequest ==
  /\ reader.pc = "read" /\ out # <<>> /\ Head(out).kind = "request"
  /\ request' = "asked"
  /\ out' = Tail(out)
  /\ UNCHANGED <<provider, client, channels, process, up, inbox, cur, said, notes>>

ReadEvent ==
  /\ reader.pc = "read" /\ out # <<>> /\ Head(out).kind = "event"
  /\ reader' = [pc |-> "send", msg |-> Head(out)]
  /\ out' = Tail(out)
  /\ UNCHANGED <<provider, client, response, events, process, request, up, inbox, cur, said, notes>>

\* Mutant: an event that finds the channel full is dropped.
SendOrDrop ==
  /\ reader.pc = "send"
  /\ events' = IF Len(events) < Capacity THEN Append(events, reader.msg) ELSE events
  /\ reader' = Reading
  /\ UNCHANGED <<provider, client, response, process, request, agent>>

\* The channel has room, or the reader waits for some.
SendEvent ==
  /\ reader.pc = "send" /\ Len(events) < Capacity
  /\ events' = Append(events, reader.msg)
  /\ reader' = Reading
  /\ UNCHANGED <<provider, client, response, process, request, agent>>

\* The reader ends: the context is done while it waits, stdout is closed, or a line
\* is too long for the scanner.
ReaderEnds ==
  /\ \/ reader.pc = "send" /\ ctx
     \/ reader.pc = "read" /\ ~up /\ out = <<>> /\ session # "none"
     \/ reader.pc = "read" /\ out # <<>> /\ CanFail("line")
  /\ reader' = [Reading EXCEPT !.pc = "ended"]
  /\ UNCHANGED <<provider, client, response, events, process, request, agent>>

\* cmd.Wait returns and closes stdout, of which the reader may hold a part.
Reap ==
  /\ session # "none" /\ ~up /\ ~done
  /\ done' = TRUE
  /\ out' \in {out, <<>>}
  /\ UNCHANGED <<provider, client, channels, ctx, request, up, inbox, cur, said, notes>>

\* A request is decided, or ends with the context, and the agent is told.
HandleRequest ==
  /\ request = "asked"
  /\ request' = "answered"
  /\ UNCHANGED <<provider, client, channels, process, agent>>

-----------------------------------------------------------------------------
(* The agent *)

Tells(message) == up /\ Len(out) < Pipe /\ out' = Append(out, message)

\* It takes a call: turns one after the other, anything else at once.
AgentTakes ==
  /\ inbox # <<>>
  /\ LET call == Head(inbox) IN
     /\ call.op \in Turns => cur = NoTurn
     /\ IF call.op \in Prompting THEN up /\ cur' = call /\ UNCHANGED out
        ELSE \/ Tells(Response(call.id, "ok")) /\ cur' = IF call.op = "turn" THEN call ELSE cur
             \/ CanFail("refuse") /\ Tells(Response(call.id, "error")) /\ UNCHANGED cur
  /\ inbox' = Tail(inbox)
  /\ UNCHANGED <<provider, client, channels, process, request, up, said, notes>>

Works == cur # NoTurn /\ request \notin {"sent", "asked"}

AgentSays ==
  /\ Works /\ said[cur.id] < MaxSaid
  /\ Tells(Event(cur.id, "said", said[cur.id] + 1))
  /\ said' = [said EXCEPT ![cur.id] = @ + 1]
  /\ UNCHANGED <<provider, client, channels, process, request, up, inbox, cur, notes>>

AgentAsks ==
  /\ Works /\ request = "none"
  /\ Tells(Request) /\ request' = "sent"
  /\ UNCHANGED <<provider, client, channels, process, up, inbox, cur, said, notes>>

\* A turn ends; Codex may repeat its last message.
AgentEnds ==
  /\ Works
  /\ \/ provider = "codex" /\ \E n \in {0, said[cur.id]} : Tells(Event(cur.id, "completed", n))
     \/ provider = "codex" /\ CanFail("refuse") /\ Tells(Event(cur.id, "failed", 0))
     \/ provider = "copilot" /\ Tells(Response(cur.id, "ok"))
     \/ provider = "copilot" /\ CanFail("refuse") /\ Tells(Response(cur.id, "error"))
  /\ cur' = NoTurn
  /\ UNCHANGED <<provider, client, channels, process, request, up, inbox, said, notes>>

\* Events that belong to no turn.
AgentNotes ==
  /\ session \in {"starting", "open"} /\ notes < MaxNotes
  /\ Tells(Event(0, "note", 0))
  /\ notes' = notes + 1
  /\ UNCHANGED <<provider, client, channels, process, request, up, inbox, cur, said>>

\* The process ends on its own, or is killed when its context is done.
AgentDies ==
  /\ up /\ (CanFail("die") \/ ctx)
  /\ up' = FALSE /\ inbox' = <<>> /\ cur' = NoTurn
  /\ UNCHANGED <<provider, client, channels, process, request, out, said, notes>>

-----------------------------------------------------------------------------
CallerStep(c) ==
  \/ LockTurn(c) \/ Register(c) \/ Write(c) \/ GiveUp(c) \/ CallReturned(c) \/ CallFailed(c)
  \/ TurnStarted(c) \/ CodexEvent(c) \/ CopilotEvent(c) \/ TakeResponse(c) \/ FinishTurn(c)

Closing == CancelProcess \/ Closed
ReaderStep == ReadResponse \/ ReadRequest \/ ReadEvent \/ SendEvent
AgentStep == AgentTakes \/ AgentSays \/ AgentAsks \/ AgentEnds
Ends == (ctx /\ AgentDies) \/ Reap

Next ==
  \/ StartSession \/ RunTurn \/ SetModel \/ Close \/ Cancel
  \/ \E c \in Callers : CallerStep(c)
  \/ Closing \/ ReaderStep \/ ReaderEnds \/ Reap \/ HandleRequest
  \/ AgentStep \/ AgentNotes \/ AgentDies

Spec == Init /\ [][Next]_vars

\* Goroutines go on, the agent ends its turns, requests are decided, and a process
\* whose context is done is killed, and reaped when it has ended.
FairSpec ==
  /\ Spec
  /\ WF_vars(CallerStep("worker") \/ Closing) /\ WF_vars(CallerStep("input"))
  /\ WF_vars(ReaderStep) /\ WF_vars(HandleRequest) /\ WF_vars(AgentStep) /\ WF_vars(Ends)

-----------------------------------------------------------------------------
(* Properties *)

\* What the agent has said in a turn, as its result should be.
Answer(id) == IF provider = "copilot" THEN [k \in 1 .. said[id] |-> k]
              ELSE IF said[id] = 0 THEN <<>> ELSE <<said[id]>>

\* A turn that succeeds returns what the agent said in it, all of it and nothing
\* of another turn, although text and response come by different channels, turns of
\* the input goroutine come between, and events may be left over.  Only once the
\* context is done a turn can find the text of one that was given up.
ResultIsOfTurn == result.id # 0 /\ ~result.late => result.text = Answer(result.id)

\* A session that is closed, or could not be started, leaves no process behind,
\* no call that waits for a response, and turnMu free.
NoAgentIsLeft == session = "closed" => ~up /\ done /\ pending = {} /\ turnMu = "free"

\* The response to a call, or the end of a turn of Codex, is in somebody's hands: of
\* the agent, who has still to tell it, on stdout, with the reader, or in a channel.
Items(s) == {s[k] : k \in DOMAIN s}
AnswerComes(id) ==
  \/ \E call \in Items(inbox) : call.id = id
  \/ provider = "copilot" /\ cur.id = id
  \/ \E m \in Items(out) : m.kind = "response" /\ m.id = id
  \/ response[id] # "none"

EndOf(m, id) == m.id = id /\ m.what \in {"completed", "failed"}
EndComes(id) ==
  \/ cur.id = id
  \/ \E m \in Items(out) \cup Items(events) : EndOf(m, id)
  \/ reader.pc = "send" /\ EndOf(reader.msg, id)

\* As long as the agent lives and is read, whoever waits for a response or for the end
\* of a turn has one to come, although a response may be there before its call waits,
\* ids are used by two goroutines, and the channel of events fills up.
NoAnswerIsLost ==
  up /\ reader.pc # "ended" =>
    \A c \in Callers :
      /\ caller[c].pc = "wait" => AnswerComes(caller[c].id)
      /\ caller[c].pc = "read" => EndComes(caller[c].id)

\* The two together: with a session that is closed nobody waits, and in one that is
\* not nobody waits for what will never be.
NobodyWaitsInVain == NoAgentIsLeft /\ NoAnswerIsLost

\* Every call and every turn returns, by an answer or an error, so that each of the
\* goroutines is idle again and again: a reader that gave up a line, or more events
\* between turns than the channel holds, are the only ways to keep a caller waiting
\* for an agent that answers or dies.
CallReturns ==
  \A c \in Callers : []<>(caller[c].pc = "idle" \/ (reader.pc = "ended" /\ up) \/ notes > Capacity)
=============================================================================
