----------------------------- MODULE MCNodeRuns -----------------------------
(* Small instances of NodeRuns: one node, or two of which one may need the other. *)
EXTENDS NodeRuns

CONSTANTS n1, n2, h1, h2, r1, r2

OneNode == {n1}
TwoNodes == {n1, n2}
NoDeps == [n \in Nodes |-> {}]
SecondNeedsFirst == [n \in Nodes |-> IF n = n2 THEN {n1} ELSE {}]
AuditRequired == [n \in Nodes |-> IF n = n1 THEN "required" ELSE "off"]
AuditOptional == [n \in Nodes |-> "optional"]
OnFirstHost == [r \in Runners |-> h1]
OnOwnHost == [r \in Runners |-> IF r = r1 THEN h1 ELSE h2]
=============================================================================
