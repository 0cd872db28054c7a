---------------------------- MODULE MCScheduler ----------------------------
(***************************************************************************)
(* Scheduler for TLC: three jobs for one permit leave two threads waiting  *)
(* while a third may overtake them.                                        *)
(***************************************************************************)
EXTENDS Scheduler
=============================================================================
