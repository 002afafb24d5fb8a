----------------------------- MODULE MCPublisher -----------------------------
(***************************************************************************)
(* Publisher for TLC: its constants are given in the configurations.       *)
(***************************************************************************)
EXTENDS Publisher
==============================================================================
