------------------------------ MODULE VerifiedLoop ------------------------------
(***************************************************************************)
(* What the implementation engines promise to their callers: an            *)
(* implementation is returned only as the verifier passed it, and the      *)
(* implementer gets at most Limit attempts.                                *)
(*                                                                         *)
(* "work" stands for everything that was done to the files so far.  It may *)
(* change while the implementer works and between two calls, and never     *)
(* while it is being verified.                                             *)
(***************************************************************************)
EXTENDS Naturals

CONSTANTS Limit,  \* attempts of one call, one at least
          Works   \* the possible states of the work

VARIABLES
  stage,    \* "idle", "implementing", "verifying", "passed" or "failed"
  attempt,  \* the attempt of the call
  work,
  accepted  \* the works the verifier has passed

vars == <<stage, attempt, work, accepted>>

Init ==
  /\ stage = "idle" /\ attempt = 0
  /\ work \in Works
  /\ accepted = {}

\* Between two calls the work is published, reset or edited.
Between ==
  /\ stage \in {"idle", "passed", "failed"}
  /\ work' \in Works
  /\ stage' \in {stage, "idle"}
  /\ attempt' = 0
  /\ accepted' = accepted

Begin ==
  /\ stage \in {"idle", "passed", "failed"}
  /\ stage' = "implementing" /\ attempt' = 1
  /\ UNCHANGED <<work, accepted>>

Implement ==
  /\ stage = "implementing"
  /\ stage' = "verifying"
  /\ work' \in Works
  /\ UNCHANGED <<attempt, accepted>>

Pass ==
  /\ stage = "verifying"
  /\ stage' = "passed" /\ accepted' = accepted \cup {work}
  /\ attempt' = 0
  /\ UNCHANGED work

Refuse ==
  /\ stage = "verifying" /\ attempt < Limit
  /\ stage' = "implementing" /\ attempt' = attempt + 1
  /\ UNCHANGED <<work, accepted>>

\* The call fails: before the first attempt, in one, or when the last was refused.
Fail ==
  /\ stage \in {"idle", "implementing", "verifying"}
  /\ stage' \in {"failed", "idle"} /\ attempt' = 0
  /\ work' \in (IF stage = "verifying" THEN {work} ELSE Works)
  /\ UNCHANGED accepted

Next == Between \/ Begin \/ Implement \/ Pass \/ Refuse \/ Fail

Spec == Init /\ [][Next]_vars
=============================================================================
