--------------------------- MODULE ExclusiveLedger ---------------------------
(***************************************************************************)
(* What the claim and fenced-publish protocol promises, with no hosts,     *)
(* clones, retries or replies in it: one shared ledger that only grows,    *)
(* and for every node at most one holder, the only one who may publish for *)
(* the node, giving the node up by the very step that publishes.           *)
(* ClaimFencing is shown to implement it.                                  *)
(***************************************************************************)
EXTENDS Sequences, SequencesExt

CONSTANTS
    Nodes,        \* what is held
    Holders,      \* who may hold it
    Nobody,       \* the absent holder, and the author of maintenance entries
    MayTakeOver   \* may a holder be replaced without giving up the node

VARIABLES ledger, holder

avars == <<ledger, holder>>

Init ==
    /\ ledger = <<>>
    /\ holder = [n \in Nodes |-> Nobody]

Take(n, t) ==
    /\ holder[n] = Nobody \/ MayTakeOver
    /\ holder' = [holder EXCEPT ![n] = t]
    /\ UNCHANGED ledger

GiveUp(n) ==
    /\ holder[n] # Nobody
    /\ holder' = [holder EXCEPT ![n] = Nobody]
    /\ UNCHANGED ledger

\* New entries, the last one the holder's own for this node.
Publish(n, t) ==
    /\ holder[n] = t
    /\ IsPrefix(ledger, ledger')
    /\ Len(ledger') > Len(ledger)
    /\ Last(ledger').tok = t /\ Last(ledger').node = n
    /\ holder' = [holder EXCEPT ![n] = Nobody]

\* A maintenance entry (invalidate, kill, approved spawn) needs no holder.
Maintain ==
    /\ IsPrefix(ledger, ledger')
    /\ Len(ledger') = Len(ledger) + 1
    /\ Last(ledger').tok = Nobody
    /\ UNCHANGED holder

Next ==
    \/ \E n \in Nodes : GiveUp(n) \/ \E t \in Holders : Take(n, t) \/ Publish(n, t)
    \/ Maintain

Spec == Init /\ [][Next]_avars
=============================================================================
