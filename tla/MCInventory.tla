----------------------------- MODULE MCInventory -----------------------------
(***************************************************************************)
(* Values of the constants of Inventory for TLC.                           *)
(***************************************************************************)
EXTENDS Inventory

\* ".:"   "data:"   "- 1 x"   "- 2 x"   "- 1 x~" with another normalization,
\* "- 1 x:", which could be read as a header   "- 1 ALL_FILES"   "- 1 .."
\* "- 1 data/x", whose path is that of the file x below data
File(size, name) == [kind |-> "-", size |-> size, name |-> name]
Heads == [root |-> <<>>, data |-> <<"data">>, x1 |-> None, x2 |-> None, variant |-> None,
         colon |-> <<"- 1 x">>, all |-> None, dots |-> None, slash |-> None]
Bodies == [root |-> None, data |-> None, x1 |-> File(1, <<"x">>), x2 |-> File(2, <<"x">>),
         variant |-> File(1, <<"x~">>), colon |-> File(1, <<"x:">>),
         all |-> File(1, <<"ALL_FILES">>), dots |-> File(1, <<"..">>),
         slash |-> File(1, <<"data", "x">>)]

Paths == {dir \o name : dir \in {<<>>, <<"data">>, <<"- 1 x">>},
                        name \in {<<"x">>, <<"x~">>, <<"x:">>, <<"ALL_FILES">>, <<"..">>,
                                  <<"data", "x">>}}
Normal == [p \in Paths |-> [n \in DOMAIN p |-> IF p[n] = "x~" THEN "x" ELSE p[n]]]
Policy == <<[covers |-> {p \in Paths : Last(p) = "x:"}, disposition |-> "priority"],
            [covers |-> {p \in Paths : Last(p) = "x~"}, disposition |-> "deferred"]>>

\* Whatever the parser may meet, in any order, and listings of one section or two.
AnyOrder == SeqOf({Blank, Broken, "root", "x1", "colon"}, 5)
Sections == {<<"root">> \o files : files \in SeqOf({"x1", "x2", "variant", "all", "dots"}, 3)}
                \cup {<<"data", f>> : f \in {"x1", "all"}}
Slashes  == {<<"root", "slash">>, <<"root", "slash", Blank, "data", "x1">>,
             <<"data", "x1", Blank, "root", "slash">>}
SmallListings == AnyOrder \cup Sections \cup Slashes
==============================================================================
