----------------------------- MODULE MCProvenance -----------------------------
EXTENDS Provenance
\* Two run IDs on one state directory: the second queue repeats the first item.
CONSTANTS i1, i2, r1, r2
TwoItems == {i1, i2}
OverlappingQueues == [r \in {r1, r2} |-> IF r = r1 THEN {i1, i2} ELSE {i2}]
==============================================================================
