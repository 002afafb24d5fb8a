---------------------------- MODULE MCProjection ----------------------------
(***************************************************************************)
(* Values of the constants of Projection for TLC.                          *)
(***************************************************************************)
EXTENDS Projection

TwoItems == 1..2
BothSizes == {1, 2}
==============================================================================
