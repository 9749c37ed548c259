----------------------------- MODULE NodeFiles -----------------------------
(***************************************************************************)
(* The files of a task node, and what is derived from them.  A node has no *)
(* other state: its files are a function from names to contents, <<"run",  *)
(* 2>> is run_002.md, its content the `result`.  Also how files of one     *)
(* copy reach another one by a rebase.                                     *)
(***************************************************************************)
EXTENDS Integers, FiniteSets, FiniteSetsExt

CONSTANTS
    AgentRetryMax, EngineerRetryMax, PlanRejectMax,
    MaxNumber           \* bound: NNN of a run

\* "failed" stands for progress-timeout and budget-exceeded, too.
Failures == {"failed", "merge-conflict"}

Chain == {"run", "fact", "pending-audit", "audit-result", "unresolvable"}

Names == (Chain \cup {"plan", "plan-rejected", "history"}) \X Nat

Contents ==
    Failures \cup {"success", "decomposed", "atomic", "composite", "written"}

IsFiles(files) ==
    /\ files = [f \in DOMAIN files |-> files[f]]
    /\ DOMAIN files \subseteq Names
    /\ \A f \in DOMAIN files : files[f] \in Contents

NoFiles == [f \in {} |-> "written"]

File(name, content) == [f \in {name} |-> content]

\* These files written over those.
Over(new, old) ==
    [f \in DOMAIN new \cup DOMAIN old |-> IF f \in DOMAIN new THEN new[f] ELSE old[f]]

-----------------------------------------------------------------------------
(* What the files of a node say.                                           *)

Numbers(files, kind) == {k \in 1 .. MaxNumber : <<kind, k>> \in DOMAIN files}

Latest(files, kind) == Max(Numbers(files, kind) \cup {0})

\* Mutant: attempts are numbered after the newest fact.
NumberAfterFact(files) == Latest(files, "fact") + 1

NextNumber(files) == Cardinality(Numbers(files, "run")) + 1

\* The newest fact counts alone.
FactState(files) ==
    LET k == Latest(files, "fact")
    IN  CASE k = 0 -> "none"
          [] k # 0 /\ <<"pending-audit", k>> \notin DOMAIN files -> "resolved"
          [] k # 0 /\ <<"pending-audit", k>> \in DOMAIN files
                   /\ <<"audit-result", k>> \notin DOMAIN files -> "pending-audit"
          [] OTHER -> IF files[<<"audit-result", k>>] = "success" THEN "resolved" ELSE "none"

Resolved(files) == FactState(files) = "resolved"

\* Mutant: a rejected fact resets the streak.
AcceptedAnyFact(files) == Latest(files, "fact")

AcceptedFact(files) == IF Resolved(files) THEN Latest(files, "fact") ELSE 0

FailedStreak(files) ==
    Cardinality({k \in Numbers(files, "run") :
                    k > AcceptedFact(files) /\ files[<<"run", k>>] \in Failures})

Exhausted(files) ==
    \/ FailedStreak(files) >= AgentRetryMax + EngineerRetryMax
    \/ Cardinality(Numbers(files, "plan-rejected")) >= PlanRejectMax

\* The marker is never rewritten.
Marked(files) ==
    IF Exhausted(files) THEN Over(files, File(<<"unresolvable", 1>>, "written")) ELSE files

Decision(files) ==
    LET k == Latest(files, "plan") IN IF k = 0 THEN "none" ELSE files[<<"plan", k>>]

PlanReview(files) ==
    /\ Decision(files) = "composite"
    /\ <<"plan-rejected", Latest(files, "plan")>> \notin DOMAIN files

-----------------------------------------------------------------------------
(* Two copies of the files of a node.                                      *)

Changed(old, new) ==
    {f \in DOMAIN old \cup DOMAIN new :
        ~(f \in DOMAIN old /\ f \in DOMAIN new /\ old[f] = new[f])}

\* Mutant: the whole tree of the run replaces theirs.
RebasedWhole(theirs, base, mine) == mine

\* A run's changes of base, on top of theirs.
Rebased(theirs, base, mine) ==
    LET own == Changed(base, mine)
    IN  [f \in (DOMAIN theirs \ own) \cup (own \cap DOMAIN mine) |->
            IF f \in own THEN mine[f] ELSE theirs[f]]

Conflicting(theirs, base, mine) == Changed(base, mine) \cap Changed(base, theirs) # {}

Without(files, names) == [f \in DOMAIN files \ names |-> files[f]]
=============================================================================
