----------------------------- MODULE MCFrontend -----------------------------
(***************************************************************************)
(* Two resources of one kind, and one of the same kind, namespace and name *)
(* in another API group.                                                   *)
(***************************************************************************)
EXTENDS Frontend, LineDiff

Res(c, g, k, ns, n) ==
  [cluster |-> c, group |-> g, kind |-> k, namespace |-> ns, name |-> n]

MCa == Res("c", "", "Event", "ns", "a")
MCb == Res("c", "", "Event", "ns", "b")
MCg == Res("c", "events", "Event", "ns", "a")

MCRows == <<MCa, MCb, MCg>>
MCFound == {MCb}
MCHistoryOf == [r \in Resources |-> IF r = MCa THEN <<"s3", "s2", "s1">> ELSE <<"s3", "s1">>]
MCDefault == [commits |-> 50, threshold |-> 5]
MCOther == [commits |-> 10, threshold |-> 8]

\* The diff of every two texts of up to three lines out of two.
MCLines == {"x", "y"}
MCTexts == UNION {[1 .. n -> MCLines] : n \in 1 .. 3}

ASSUME LineDiffs == \A a, b \in MCTexts : LineDiffIsRight(a, b, MCLines)
=============================================================================
