------------------------------ MODULE Mandates ------------------------------
(***************************************************************************)
(* The map of mandates (.mt/mandates.yaml) and the signed acts that change *)
(* it: crates/mt-mandates.  A mandate lets its owner decide what its scope *)
(* and thresholds cover and names whom it escalates to; decisions are      *)
(* routed by effective_owner, and a change is accepted only with the       *)
(* signatures that validate_mandate_change asks for.                       *)
(***************************************************************************)
EXTENDS Integers, Sequences, FiniteSets

CONSTANTS
    Owners,         \* handles of people and names of models
    NoOne,          \* escalates_to: null
    HumanKeys,      \* the handles whose signing key is classified as human
    Patterns,       \* glob patterns a scope may list
    NodeRefs,       \* refs/mt/tasks/... of the nodes
    Matches,        \* <<pattern, ref>> of the matching pairs (globset)
    Length,         \* length of each pattern, its specificity
    DecisionTypes,
    AnyType,        \* the wildcard "*"
    Levels,         \* values of budgets, risks and audacities: numbers > 0
    NoCap,          \* an absent threshold or facet
    Grants,         \* the scopes and thresholds that acts write
    FirstMaps,      \* valid files the acts start from
    MaxGeneration   \* bound on the number of acts

Kinds == {"person", "model"}
Axes  == {"budget", "risk"}

ASSUME MandatesAssumption ==
    /\ NoOne \notin Owners /\ NoCap \notin Levels /\ Levels \subseteq Nat \ {0}
    /\ HumanKeys \subseteq Owners
    /\ Matches \subseteq Patterns \X NodeRefs
    /\ Length \in [Patterns -> Nat \ {0}]
    /\ \A g \in Grants : /\ g.refs \subseteq Patterns
                         /\ g.types \subseteq DecisionTypes \cup {AnyType}
                         /\ g.caps \in [Axes -> Levels \cup {NoCap}]
                         /\ g.irreversible \in BOOLEAN
                         /\ g.audacity \in Levels \cup {NoCap}

VARIABLES
    generation,
    mandates,       \* the set of records in force
    signed          \* the handles whose signatures carried the last act

mandatesVars == <<generation, mandates, signed>>

\* A record of the file.  Fields that serde leaves absent are NoCap or NoOne.
Mandate == [owner : Owners, kind : Kinds, grant : Grants, to : Owners \cup {NoOne}]

Of(ms, o) == CHOOSE m \in ms : m.owner = o
OwnersOf(ms) == {m.owner : m \in ms}

-----------------------------------------------------------------------------
(* parse.rs: what makes a file valid.                                      *)

WellShaped(m) == /\ m.grant.refs # {}
                 /\ m.grant.types # {}
                 /\ m.kind = "person" => m.grant.audacity = NoCap

Roots(ms) == {m \in ms : m.to = NoOne}

\* The handles met from o upwards.  The walk stays where it is when it meets a
\* handle without a mandate or the root.
Walk(ms, o) ==
    LET up[s \in 0..(Cardinality(ms) + 1)] ==
            IF s = 0 THEN o
            ELSE IF up[s - 1] \notin OwnersOf(ms) \/ Of(ms, up[s - 1]).to = NoOne
                 THEN up[s - 1]
                 ELSE Of(ms, up[s - 1]).to
    IN  up

ReachesRootUnchecked(ms, o) == TRUE
ReachesRoot(ms, o) ==
    \E s \in 0..(Cardinality(ms) + 1) : Walk(ms, o)[s] \in OwnersOf(Roots(ms))

Valid(g, ms) ==
    /\ g >= 1
    /\ ms # {}
    /\ \A m \in ms : WellShaped(m)
    /\ \A m, n \in ms : m.owner = n.owner => m = n
    /\ Cardinality(Roots(ms)) = 1
    /\ \A o \in OwnersOf(ms) : ReachesRoot(ms, o)

ASSUME FirstMapsAssumption ==
    \A ms \in FirstMaps : IsFiniteSet(ms) /\ ms \subseteq Mandate /\ Valid(1, ms)

-----------------------------------------------------------------------------
(* lookup.rs: who decides.                                                 *)

Facets == [budget : Levels \cup {NoCap}, risk : Levels \cup {NoCap}, irreversible : BOOLEAN]

\* A threshold is a ceiling; an absent threshold or an absent facet does not
\* restrict, except that irreversibility has to be granted.
FitsThresholds(f, g) ==
    /\ \A a \in Axes : g.caps[a] # NoCap /\ f[a] # NoCap => f[a] <= g.caps[a]
    /\ f.irreversible => g.irreversible

Covers(g, ref, type, f) ==
    /\ AnyType \in g.types \/ type \in g.types
    /\ \E p \in g.refs : <<p, ref>> \in Matches
    /\ FitsThresholds(f, g)

Specificity(g, ref) ==
    LET lengths == {Length[p] : p \in {q \in g.refs : <<q, ref>> \in Matches}}
    IN  CHOOSE l \in lengths : \A k \in lengths : k <= l

\* The mandates that cover a decision most specifically.
Best(ms, ref, type, f) ==
    LET candidates == {m \in ms : Covers(m.grant, ref, type, f)}
    IN  {m \in candidates : \A n \in candidates :
            Specificity(n.grant, ref) <= Specificity(m.grant, ref)}

\* NoOne stands for NoMatch and Ambiguous.
EffectiveOwner(ms, ref, type, f) ==
    LET best == Best(ms, ref, type, f)
    IN  IF Cardinality(best) = 1 THEN (CHOOSE m \in best : TRUE).owner ELSE NoOne

EscalationChain(ms, o) ==
    LET up    == Walk(ms, o)
        steps == Cardinality(ms) + 1
        last  == CHOOSE s \in 0..steps : /\ s = steps \/ up[s + 1] = up[s]
                                         /\ \A t \in 0..(s - 1) : up[t + 1] # up[t]
    IN  [i \in 1..(last + 1) |-> up[i - 1]]

-----------------------------------------------------------------------------
(* change.rs: which signatures an act needs.                               *)

\* Absent is the widest value of a ceiling.
CapRaisedIfPresent(old, new) == old # NoCap /\ new # NoCap /\ new > old
CapRaised(old, new) == old # NoCap /\ (new = NoCap \/ new > old)

TypesWidened(old, new) ==
    /\ AnyType \notin old
    /\ AnyType \in new \/ ~(new \subseteq old)

Audacity(g) == IF g.audacity = NoCap THEN 1 ELSE g.audacity

Wider(kind, old, new) ==
    \/ ~(new.refs \subseteq old.refs)
    \/ TypesWidened(old.types, new.types)
    \/ \E a \in Axes : CapRaised(old.caps[a], new.caps[a])
    \/ new.irreversible /\ ~old.irreversible
    \/ kind = "model" /\ Audacity(new) > Audacity(old)

\* classify: the first difference found decides what has to be signed.
Change(old, new, o) ==
    LET had == o \in OwnersOf(old)
        has == o \in OwnersOf(new)
        m   == Of(old, o)
        n   == Of(new, o)
    IN  CASE ~had /\ has -> "Added"
          [] had /\ ~has -> "Removed"
          [] ~had /\ ~has -> "Unchanged"
          [] had /\ has ->
                IF m.kind # n.kind THEN "KindChanged"
                ELSE IF m.to # n.to THEN "EscalatesToChanged"
                ELSE IF Wider(m.kind, m.grant, n.grant) THEN "Widened"
                ELSE IF Wider(m.kind, n.grant, m.grant) THEN "Narrowed"
                ELSE "Unchanged"

\* The record the rules look at first: the one in force, else the new one.
Reference(old, new, o) == IF o \in OwnersOf(old) THEN Of(old, o) ELSE Of(new, o)

\* A re-addressed mandate: the new addressee accepts (null has nobody to), and
\* the delegator in force releases it; the root has no delegator to do so.
ReaddressedByAddressee(old, new, o, by) == Of(new, o).to \in by \cup {NoOne}
Readdressed(old, new, o, by) ==
    /\ Of(new, o).to \in by \cup {NoOne}
    /\ Of(old, o).to \in by

Delegated(old, new, o, by) ==
    /\ Reference(old, new, o).kind = "model" => by \cap HumanKeys # {}
    /\ Reference(old, new, o).to \in by

SignedFor(old, new, o, by) ==
    LET kind == Change(old, new, o)
    IN  /\ kind = "EscalatesToChanged" => Readdressed(old, new, o, by)
        /\ kind \in {"Widened", "Added"} => Delegated(old, new, o, by)
        /\ kind \in {"Narrowed", "Removed"} => o \in by
        /\ kind = "KindChanged" => o \in by \cap HumanKeys

\* by: the handles with a verified signature over exactly this act, that is the
\* two generations and the new content; others do not count.
ChangeAccepted(old, g, new, by) ==
    /\ g = generation + 1
    /\ Valid(g, new)
    /\ \A o \in OwnersOf(old) \cup OwnersOf(new) : SignedFor(old, new, o, by)

-----------------------------------------------------------------------------
(* The acts people propose: one mandate is rewritten, added or removed, and *)
(* perhaps another one removed or re-addressed with it.                    *)

Without(ms, o) == {m \in ms : m.owner # o}

Rewrites(ms, o) == {Without(ms, o)} \cup
    {Without(ms, o) \cup {m} : m \in {n \in Mandate : n.owner = o}}

Moves(ms, p) == {Without(ms, p)} \cup
    {Without(ms, p) \cup {[m EXCEPT !.to = t] : m \in {n \in ms : n.owner = p}} :
        t \in Owners \cup {NoOne}}

Proposals(ms) == UNION {UNION {Moves(new, p) : new \in Rewrites(ms, o)} : o, p \in Owners}

MandatesInit ==
    /\ generation = 1
    /\ mandates \in FirstMaps
    /\ signed = {}

Amend(new, by) ==
    /\ ChangeAccepted(mandates, generation + 1, new, by)
    /\ generation' = generation + 1
    /\ mandates' = new
    /\ signed' = by

MandatesNext ==
    /\ generation < MaxGeneration
    /\ \E new \in {ms \in Proposals(mandates) \ {mandates} : Valid(generation + 1, ms)} :
         \E by \in SUBSET Owners : Amend(new, by)

-----------------------------------------------------------------------------
(* Properties                                                              *)

\* Whoever a decision is routed to, its chain of escalation leads through
\* mandates in force, without a repetition, to the one root: no accepted act
\* leaves a cycle or a handle without a mandate (validate, walked before and
\* after several rewrites at once).
Routable ==
    \A o \in {EffectiveOwner(mandates, ref, type, f) :
                 ref \in NodeRefs, type \in DecisionTypes, f \in Facets} \ {NoOne} :
        LET c == EscalationChain(mandates, o)
        IN  /\ Of(mandates, c[Len(c)]).to = NoOne
            /\ \A i, j \in DOMAIN c : c[i] = c[j] => i = j
            /\ \A i \in DOMAIN c : c[i] \in OwnersOf(mandates)

\* What a mandate lets its owner decide, as lookup sees it.
Authority(g) == {d \in NodeRefs \X DecisionTypes \X Facets : Covers(g, d[1], d[2], d[3])}

\* change.rs compares patterns, types and thresholds one by one; lookup matches
\* refs and compares facets.  As long as kind and addressee stay, no owner can
\* decide anything new unless the delegator above has signed, and for a model a
\* human too, whatever else of the mandate was narrowed by the same act.
GrowthSigned ==
    [][\A o \in OwnersOf(mandates) \cap OwnersOf(mandates') :
          LET m == Of(mandates, o)
              n == Of(mandates', o)
          IN  /\ m.kind = n.kind /\ m.to = n.to /\ m.grant # n.grant
              /\ ~(Authority(n.grant) \subseteq Authority(m.grant))
              => /\ m.to \in signed'
                 /\ m.kind = "model" => signed' \cap HumanKeys # {}]_mandatesVars

\* Nobody unseats the root behind its back: when another handle becomes the
\* root, the old one has signed, although a root has no delegator and the rules
\* look at each mandate on its own.
RootConsents ==
    [][LET root(ms) == OwnersOf(Roots(ms))
       IN  root(mandates') # root(mandates) => root(mandates) \subseteq signed']_mandatesVars
=============================================================================
