------------------------------- MODULE JobService -------------------------------
(***************************************************************************)
(* What the resident daemon promises to the controllers: a job whose start *)
(* was announced is served, one at a time and in the order of the          *)
(* announcements, and the daemon is not over before all of them are.       *)
(***************************************************************************)
EXTENDS Naturals, Sequences

CONSTANT Jobs

VARIABLES
  waiting,  \* the announced jobs that wait, in their order
  serving,  \* the job that is served, 0 if none is
  over

vars == <<waiting, serving, over>>

Init == waiting = <<>> /\ serving = 0 /\ over = FALSE

Announce ==
  /\ ~over
  /\ \E job \in Jobs :
       /\ job # serving /\ \A i \in 1 .. Len(waiting) : waiting[i] # job
       /\ waiting' = Append(waiting, job)
  /\ UNCHANGED <<serving, over>>

Serve ==
  /\ serving = 0 /\ waiting # <<>>
  /\ serving' = Head(waiting) /\ waiting' = Tail(waiting)
  /\ UNCHANGED over

Finish ==
  /\ serving # 0
  /\ serving' = 0
  /\ UNCHANGED <<waiting, over>>

End ==
  /\ serving = 0 /\ waiting = <<>>
  /\ over' = TRUE
  /\ UNCHANGED <<waiting, serving>>

Next == Announce \/ Serve \/ Finish \/ End

Spec == Init /\ [][Next]_vars
=============================================================================
