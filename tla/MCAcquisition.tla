---------------------------- MODULE MCAcquisition ----------------------------
(***************************************************************************)
(* Values of the constants of Acquisition for TLC.                         *)
(***************************************************************************)
EXTENDS Acquisition

\* The digest of the first version's full body, the checksum a queue gives.
FirstSum == [k \in Chunk |-> 1]

NoSum     == {None}
MaybeSum  == {None, FirstSum}

\* Servers that send every validator, and any that send a strong ETag and a date, a
\* weak one or a date only.
Etags     == {{"strong", "date"}}
AnyHeader == {{"strong", "date"}, {"weak"}, {"date"}}
==============================================================================
