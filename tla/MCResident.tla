------------------------------- MODULE MCResident -------------------------------
(***************************************************************************)
(* Small instances of Resident: a queue of one place, so that three or     *)
(* four jobs fill it while another one runs and one more waits for room.   *)
(***************************************************************************)
EXTENDS Resident
=============================================================================
