------------------------------ MODULE Masking ------------------------------
(***************************************************************************)
(* Secrets of a run (mt-core/secrets.rs): the keys a node asks for are     *)
(* looked up in a store, their values go to the agent's environment, and   *)
(* the output that a failed run keeps is masked.                           *)
(***************************************************************************)
EXTENDS Integers, Sequences, FiniteSets

CONSTANTS
    Keys, Values,       \* values are sequences of letters
    Letters,
    Mask,               \* what replaces a value
    MaxOutput           \* bound: letters of the output

ASSUME MaskingAssumption ==
    /\ Mask \notin Letters
    /\ IsFiniteSet(Keys)
    /\ Values \subseteq Seq(Letters)
    /\ MaxOutput \in Nat

VARIABLES
    store,          \* key -> value, for the keys it has
    asks,           \* secrets: of a.md, in order
    output          \* of the agent

maskingVars == <<store, asks, output>>

\* resolve_keys: what the store has, where it was asked for; the rest is missing.
Environment == [i \in {i \in DOMAIN asks : asks[i] \in DOMAIN store} |-> store[asks[i]]]

\* The values in the order of their ranks.
InOrder(values, rank) ==
    [r \in 1 .. Cardinality(DOMAIN values) |->
        values[CHOOSE i \in DOMAIN values : rank[i] = r]]

\* Mutant: values in the order of the environment.
AsAsked(values) ==
    InOrder(values, [i \in DOMAIN values |-> Cardinality({j \in DOMAIN values : j <= i})])

\* Longest first.
LongestFirst(values) ==
    LET before(i, j) == \/ Len(values[i]) > Len(values[j])
                        \/ Len(values[i]) = Len(values[j]) /\ i < j
    IN  InOrder(values, [i \in DOMAIN values |->
                            Cardinality({j \in DOMAIN values : before(j, i)}) + 1])

\* Masker::new leaves out empty values.
MaskedValues ==
    LongestFirst([i \in {i \in DOMAIN Environment : Environment[i] # <<>>} |-> Environment[i]])

OccursAt(value, text, k) ==
    k + Len(value) - 1 <= Len(text) /\ SubSeq(text, k, k + Len(value) - 1) = value

\* str::replace: from left to right, without overlaps.
Replaced(value, text) ==
    LET from[k \in 1 .. Len(text) + 1] ==
            IF k > Len(text) THEN <<>>
            ELSE IF OccursAt(value, text, k) THEN <<Mask>> \o from[k + Len(value)]
            ELSE <<text[k]>> \o from[k + 1]
    IN  from[1]

\* Masker::apply.
Masked(text) ==
    LET values == MaskedValues
        after[k \in 0 .. Len(values)] ==
            IF k = 0 THEN text ELSE Replaced(values[k], after[k - 1])
    IN  after[Len(values)]

MaskingInit ==
    /\ store \in UNION {[has -> Values] : has \in SUBSET Keys}
    /\ asks \in [1 .. Cardinality(Keys) -> Keys]
    /\ output = <<>>

Prints ==
    /\ Len(output) < MaxOutput
    /\ \E letter \in Letters : output' = Append(output, letter)
    /\ UNCHANGED <<store, asks>>

MaskingNext == Prints

-----------------------------------------------------------------------------
(* Properties.                                                             *)

\* No value of the environment is left in what a run file keeps, and where the output is
\* one of them nothing of it is left, also if another value is a part of it
\* (secrets.rs Masker, runner.rs run_node_as).
NothingLeft ==
    \A i \in DOMAIN Environment :
        LET value == Environment[i]
        IN  value # <<>> =>
              /\ \A k \in 1 .. Len(Masked(output)) : ~OccursAt(value, Masked(output), k)
              /\ output = value => Masked(output) = <<Mask>>
=============================================================================
