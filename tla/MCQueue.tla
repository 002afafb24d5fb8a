------------------------------- MODULE MCQueue -------------------------------
(***************************************************************************)
(* Values of the constants of Queue for TLC.                               *)
(***************************************************************************)
EXTENDS Queue

TwoFilters == [all |-> {"queued", "retry"}, queued |-> {"queued"}]
==============================================================================
