-------------------------- MODULE MCCompositeTree --------------------------
(* Small instances of CompositeTree: three levels. *)
EXTENDS CompositeTree

CONSTANTS G, P, A, B, laptop, server, r1, r2

ThreeLevels ==
    [n \in Nodes |-> CASE n = G -> NoNode [] n = P -> G [] n \in {A, B} -> P]
FirstAudited == [n \in Nodes |-> IF n = A THEN "required" ELSE "off"]
OnServer == [r \in Runners |-> server]
ByLaptop == {laptop} \X {P}
AuditByLaptop == {laptop} \X {A}
=============================================================================
