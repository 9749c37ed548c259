--------------------------- MODULE MCClaimFencing ---------------------------
(* Instances of ClaimFencing for TLC: which run works where and on what.    *)
EXTENDS ClaimFencing, TLC

CONSTANTS n1, n2, h1, h2, r1, r2, r3

OneNode == {n1}
TwoNodes == {n1, n2}
OneHost == {h1}
TwoHosts == {h1, h2}

\* Three runners of one node, two of them threads of one clone.
ThreeRuns == {r1, r2, r3}
AllOnN1 == [r \in ThreeRuns |-> n1]
R3Remote == [r \in ThreeRuns |-> IF r = r3 THEN h2 ELSE h1]

\* One runner and one session of the same node in one clone.
TwoRuns == {r1, r2}
OnlyR1 == {r1}
PairOnN1 == [r \in TwoRuns |-> n1]
TwoNodesOf == [r \in TwoRuns |-> IF r = r1 THEN n1 ELSE n2]
NoRuns == {}
PairOnH1 == [r \in TwoRuns |-> h1]
=============================================================================
