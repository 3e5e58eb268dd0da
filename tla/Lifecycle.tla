----------------------------- MODULE Lifecycle ------------------------------
(***************************************************************************)
(* What an ipc_managed_object promises to whoever starts and stops it,     *)
(* with the mutex, the thread handle and the flag left out: an object has  *)
(* at most one worker, a stop first turns the run request off, then waits  *)
(* for the worker, and no new worker appears before the old one is gone.   *)
(***************************************************************************)

VARIABLES
  wanted,   (* the object has been asked to run                            *)
  working   (* "none" | "starting" | "working": the one worker's life      *)

lifeVars == <<wanted, working>>

LifeTypeOK ==
  /\ wanted \in BOOLEAN
  /\ working \in {"none", "starting", "working"}

LifeInit == wanted = FALSE /\ working = "none"

(* An object that is not running is asked to run.                          *)
Request ==
  /\ ~wanted /\ working = "none"
  /\ wanted' = TRUE
  /\ working' = "starting"

(* Its worker comes to life.                                               *)
Begin ==
  /\ wanted /\ working = "starting"
  /\ working' = "working"
  /\ UNCHANGED wanted

(* The request is withdrawn while the worker works (or after it died).     *)
Withdraw ==
  /\ wanted /\ working # "starting"
  /\ wanted' = FALSE
  /\ UNCHANGED working

(* The worker ends: because the request was withdrawn, or by an exception. *)
End ==
  /\ working = "working"
  /\ working' = "none"
  /\ UNCHANGED wanted

LifeNext == Request \/ Begin \/ Withdraw \/ End

LifeSpec == LifeInit /\ [][LifeNext]_lifeVars
=============================================================================
