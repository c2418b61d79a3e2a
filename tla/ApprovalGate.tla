----------------------------- MODULE ApprovalGate -----------------------------
(***************************************************************************)
(* What the approval gate promises an AI session and its operator: every   *)
(* request is answered once, at once or after it was shown; at most one    *)
(* request is shown at a time; and a request that was shown is answered    *)
(* with what the operator decided, or given up with its session.           *)
(***************************************************************************)
CONSTANTS Handlers

VARIABLES phase,  \* of each request: quiet, waiting, shown, answered
          verdict \* the answer to each request that has one

vars == <<phase, verdict>>

Init ==
  /\ phase = [h \in Handlers |-> "quiet"]
  /\ verdict = [h \in Handlers |-> "none"]

Move(h, to, v) ==
  /\ phase' = [phase EXCEPT ![h] = to]
  /\ verdict' = [verdict EXCEPT ![h] = v]

Receive(h) == phase[h] = "quiet" /\ Move(h, "waiting", "none")

AnswerAtOnce(h) == phase[h] = "quiet" /\ \E v \in {"auto", "error"} : Move(h, "answered", v)

Show(h) ==
  /\ phase[h] = "waiting" /\ \A other \in Handlers : phase[other] # "shown"
  /\ Move(h, "shown", "none")

Answer(h) == phase[h] = "shown" /\ \E v \in {"accept", "decline"} : Move(h, "answered", v)

GiveUp(h) == phase[h] \in {"waiting", "shown"} /\ Move(h, "answered", "error")

Finish(h) == phase[h] = "answered" /\ Move(h, "quiet", "none")

Next ==
  \E h \in Handlers :
    Receive(h) \/ AnswerAtOnce(h) \/ Show(h) \/ Answer(h) \/ GiveUp(h) \/ Finish(h)

Spec == Init /\ [][Next]_vars
=============================================================================
