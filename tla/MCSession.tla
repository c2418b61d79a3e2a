-------------------------------- MODULE MCSession --------------------------------
(***************************************************************************)
(* Small instances of Session.  Five calls are the two of the start, two   *)
(* turns and a switch of the model; a channel of one place is full with    *)
(* one event.                                                              *)
(***************************************************************************)
EXTENDS Session
=============================================================================
