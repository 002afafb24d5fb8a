------------------------------ MODULE MCControl ------------------------------
(***************************************************************************)
(* Values of the constants of Control for TLC.                             *)
(***************************************************************************)
EXTENDS Control

CONSTANT i1
OneItem == {i1}
==============================================================================
