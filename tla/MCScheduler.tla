----------------------------- MODULE MCScheduler -----------------------------
(***************************************************************************)
(* Values of the constants of Scheduler for TLC.                           *)
(***************************************************************************)
EXTENDS Scheduler

TwoItems   == 1..2
SameOrigin == [i \in Items |-> 1]
==============================================================================
