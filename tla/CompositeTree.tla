--------------------------- MODULE CompositeTree ---------------------------
(***************************************************************************)
(* Composite nodes: a plan that people approve becomes child nodes, and    *)
(* the parent is completed by the run of a child that finds all children   *)
(* resolved.                                                               *)
(*                                                                         *)
(*   main    = the files of all nodes on the remote's main branch.         *)
(*   tree[h] = the files in the checkout of host h, where people's         *)
(*             commands look and write; head[h] is the commit it is on.    *)
(*   base    = main as a run started from it, mine = what the run made     *)
(*             of it in its own worktree.                                  *)
(*                                                                         *)
(* A run decides about the parent in its own worktree, a person in a       *)
(* checkout; both take effect on main.  Nobody locks a subtree: the claim  *)
(* is on the node that runs.  A node exists where its task.md is.          *)
(*                                                                         *)
(* The executor is a choice: it may write a fact, and it may edit its own  *)
(* task.md.  A fact's content is the run that wrote it.  Left out: deps/,  *)
(* deadlines, the plans of leaves, dynamic decomposition.                  *)
(***************************************************************************)
EXTENDS NodeFiles

CONSTANTS
    Nodes,
    Parent,             \* of each node, NoNode for a root; the children a plan lists
    NoNode,
    Grown,              \* nodes that are approved already
    Audit,              \* `audit:` of task.md
    Hosts,
    Runners,            \* one run at a time each
    HostOf,
    Approvers, Auditors, Invalidators, Killers,     \* <<host, node>>: who does what
    MayWeaken,          \* executors may edit their contract
    MaxFacts,           \* bound: facts written
    MaxMutations,       \* bound: invalidations and kills
    MaxFaults           \* bound: publishes that fail, runs that die

ASSUME TreeAssumption ==
    /\ {AgentRetryMax, EngineerRetryMax, PlanRejectMax} \subseteq Nat
    /\ MaxNumber \in Nat \ {0}
    /\ {MaxMutations, MaxFaults} \subseteq Nat
    /\ IsFiniteSet(Nodes)
    /\ MaxFacts \in 0 .. 4
    /\ Parent \in [Nodes -> Nodes \cup {NoNode}]
    /\ NoNode \notin Nodes
    /\ Grown \subseteq Nodes
    /\ \A n \in Grown : Parent[n] \in Grown \cup {NoNode}
    /\ Audit \in [Nodes -> {"required", "optional", "off"}]
    /\ HostOf \in [Runners -> Hosts]
    /\ Approvers \cup Auditors \cup Invalidators \cup Killers \subseteq Hosts \X Nodes
    /\ MayWeaken \in BOOLEAN

Task == <<"task", 1>>
TreeNames == Names \cup {Task} \cup ({"plan-approved"} \X Nat)

\* The fact of the k-th run that wrote one.
Fact(k) == <<"first", "second", "third", "fourth">>[k]

TreeContents == Contents \cup {"weakened"} \cup {Fact(k) : k \in 1 .. MaxFacts}

VARIABLES
    main, tree, head,
    claimed,            \* nodes with a claim on the remote
    run,                \* what each runner is doing
    facts, mutations, faults

limits == <<facts, mutations, faults>>
treeVars == <<main, tree, head, claimed, run, limits>>

IsNodes(t) ==
    \A n \in Nodes : /\ DOMAIN t[n] \subseteq TreeNames
                     /\ \A f \in DOMAIN t[n] : t[n][f] \in TreeContents

TreeTypeOK ==
    /\ IsNodes(main)
    /\ \A h \in Hosts : IsNodes(tree[h]) /\ IsNodes(head[h])
    /\ claimed \subseteq Nodes
    /\ \A r \in Runners :
         /\ run[r].phase \in {"idle", "working", "publishing"}
         /\ run[r].node \in Nodes \cup {NoNode}
         /\ run[r].phase # "idle" => run[r].node \in claimed
         /\ IsNodes(run[r].base) /\ IsNodes(run[r].mine)
    /\ facts \in 0 .. MaxFacts
    /\ mutations \in 0 .. MaxMutations
    /\ faults \in 0 .. MaxFaults

-----------------------------------------------------------------------------
(* Trees of files.                                                         *)

Nothing == [n \in Nodes |-> NoFiles]

HasTask(t, n) == Task \in DOMAIN t[n]

Planned(n) == {c \in Nodes : Parent[c] = n}

Children(t, n) == {c \in Planned(n) : HasTask(t, c)}

\* The directory of n: everything below it.
Below(n) ==
    LET down[d \in Nat] == IF d = 0 THEN {n} ELSE down[d - 1] \cup {c \in Nodes : Parent[c] \in down[d - 1]}
    IN  down[Cardinality(Nodes)]

Approved(files) == <<"plan-approved", Latest(files, "plan")>> \in DOMAIN files

\* These files of all nodes over those.
Spread(new, old) == [n \in Nodes |-> Over(new[n], old[n])]

\* Those of some nodes.
Part(t, nodes) == [n \in Nodes |-> IF n \in nodes THEN t[n] ELSE NoFiles]

\* git merge --ff-only from the commit was to the commit now, in a checkout with these
\* files: refused if a file that the merge changes is not as the old commit has it.
FastForwards(was, now, files) ==
    \A n \in Nodes : Changed(was[n], now[n]) \cap Changed(was[n], files[n]) = {}

Checkout(h, now, files) ==
    IF FastForwards(head[h], now, files)
    THEN /\ tree' = [tree EXCEPT ![h] =
                       [n \in Nodes |-> Rebased(now[n], head[h][n], files[n])]]
         /\ head' = [head EXCEPT ![h] = now]
    ELSE /\ tree' = [tree EXCEPT ![h] = files]
         /\ UNCHANGED head

-----------------------------------------------------------------------------
(* A run.                                                                  *)

IdleRun ==
    [phase |-> "idle", node |-> NoNode, nnn |-> 0, base |-> Nothing, mine |-> Nothing]

TreeInit ==
    /\ main = [n \in Nodes |->
                 LET task == File(Task, "written")
                     plan == Over(File(<<"plan", 1>>, "composite"),
                                  File(<<"plan-approved", 1>>, "written"))
                 IN  IF n \in Grown THEN Over(task, plan)
                     ELSE IF Parent[n] = NoNode \/ Parent[n] \in Grown THEN task ELSE NoFiles]
    /\ tree = [h \in Hosts |-> main]
    /\ head = [h \in Hosts |-> main]
    /\ claimed = {}
    /\ run = [r \in Runners |-> IdleRun]
    /\ facts = 0
    /\ mutations = 0
    /\ faults = 0

\* A composite plan that waits for people or for its children.
Decomposed(t, n) ==
    LET files == t[n]
    IN  PlanReview(files) /\ (Approved(files) => Children(t, n) # {})

\* `waiting` in the checkout, and what preflight asks.
Runnable(h, n) ==
    /\ HasTask(tree[h], n)
    /\ FactState(tree[h][n]) = "none"
    /\ <<"unresolvable", 1>> \notin DOMAIN tree[h][n]
    /\ ~Decomposed(tree[h], n)
    /\ FailedStreak(tree[h][n]) < AgentRetryMax

\* Mutant: the claim is forced.
AnyNode == Nodes

\* acquire_claim is create-only.
Claimable == Nodes \ claimed

\* The attempt is numbered in the checkout, the worktree is made from main.
Start(r) ==
    /\ run[r].phase = "idle"
    /\ \E n \in Claimable :
         /\ Runnable(HostOf[r], n)
         /\ HasTask(main, n)
         /\ NextNumber(tree[HostOf[r]][n]) <= MaxNumber
         /\ NextNumber(main[n]) <= MaxNumber
         /\ claimed' = claimed \cup {n}
         /\ run' = [run EXCEPT ![r] =
              [phase |-> "working", node |-> n, nnn |-> NextNumber(tree[HostOf[r]][n]),
               base |-> main, mine |-> main]]
    /\ UNCHANGED <<main, tree, head, limits>>

Policy(n, files) ==
    IF Audit[n] = "optional" /\ Numbers(files, "history") # {} THEN "required" ELSE Audit[n]

\* Mutant: a child is done as soon as it has a fact.
MayCompleteOnFacts(t, p) ==
    /\ HasTask(t, p)
    /\ ~Resolved(t[p])
    /\ Children(t, p) # {}
    /\ \A c \in Children(t, p) : Latest(t[c], "fact") # 0

MayComplete(t, p) ==
    /\ HasTask(t, p)
    /\ ~Resolved(t[p])
    /\ Children(t, p) # {}
    /\ \A c \in Children(t, p) : Resolved(t[c])

\* The synthetic pair of the parent.
Completed(t, p, fact) ==
    LET k == NextNumber(t[p])
    IN  [t EXCEPT ![p] = Over(Over(File(<<"run", k>>, "success"), File(<<"fact", k>>, fact)), @)]

\* Mutant: only the parent itself, not its own parent, is looked at.
PropagatedOnce(t, n, fact) ==
    LET p == Parent[n]
    IN  IF p # NoNode /\ MayComplete(t, p) THEN Completed(t, p, fact) ELSE t

\* From the parent upwards, until one is not to be completed.
Propagated(t, n, fact) ==
    LET step(s) ==
          LET p == IF s.at = NoNode THEN NoNode ELSE Parent[s.at]
          IN  IF p # NoNode /\ MayComplete(s.tree, p)
              THEN [tree |-> Completed(s.tree, p, fact), at |-> p]
              ELSE [s EXCEPT !.at = NoNode]
        climb[d \in Nat] == IF d = 0 THEN [tree |-> t, at |-> n] ELSE step(climb[d - 1])
    IN  climb[Cardinality(Nodes)].tree

\* task.md is compared with origin/main as the clone last fetched it.
ContractKept(seen, files) == Task \in DOMAIN seen => files[Task] = seen[Task]

\* What the executor leaves: a plan, a fact or nothing, and the contract it ends with.
Executed(r, fact, contract) ==
    LET n == run[r].node
        nnn == run[r].nnn
        files == run[r].base[n]
        own == Over(File(Task, contract), files)
    IN  CASE Planned(n) # {} -> Over(File(<<"plan", Latest(files, "plan") + 1>>, "composite"), own)
          [] Planned(n) = {} /\ fact -> Over(File(<<"fact", nnn>>, Fact(facts + 1)), own)
          [] OTHER -> own

\* The signal, after it: done completes parents, audit opens an audit; a signal that is
\* refused leaves a failed run without the fact.
Signalled(r, files, seen) ==
    LET n == run[r].node
        nnn == run[r].nnn
        base == run[r].base
        next == NextNumber(files)
        opened == IF Audit[n] = "required" THEN File(<<"pending-audit", next>>, "written") ELSE NoFiles
        done == [base EXCEPT ![n] = Over(Over(File(<<"run", next>>, "success"), opened), files)]
        accepted == /\ <<"fact", nnn>> \in DOMAIN files
                    /\ <<"fact", next>> \in DOMAIN files
                    /\ Audit[n] = "required" \/ Policy(n, files) # "required"
                    /\ ContractKept(seen, files)
    IN  IF Planned(n) # {}
        THEN [base EXCEPT ![n] = Over(File(<<"run", nnn>>, "decomposed"), files)]
        ELSE IF ~accepted
        THEN [base EXCEPT ![n] = Marked(Over(File(<<"run", nnn>>, "failed"),
                                             Without(files, {<<"fact", nnn>>})))]
        ELSE IF Audit[n] = "required" THEN done
        ELSE Propagated(done, n, files[<<"fact", next>>])

Finish(r) ==
    LET n == run[r].node
    IN  /\ run[r].phase = "working"
        /\ Latest(run[r].base[n], "plan") < MaxNumber
        /\ \E fact \in BOOLEAN, weaken \in {FALSE, MayWeaken}, seen \in {run[r].base[n], main[n]} :
             /\ fact => facts < MaxFacts /\ Planned(n) = {}
             /\ facts' = IF fact THEN facts + 1 ELSE facts
             /\ run' = [run EXCEPT
                  ![r].phase = "publishing",
                  ![r].mine = Signalled(r, Executed(r, fact,
                      IF weaken THEN "weakened" ELSE run[r].base[n][Task]), seen)]
        /\ UNCHANGED <<main, tree, head, claimed, mutations, faults>>

\* The whole worktree is rebased on main; with a conflict the run file alone is published.
PublishRun(r) ==
    LET n == run[r].node
        conflict == \E m \in Nodes : Conflicting(main[m], run[r].base[m], run[r].mine[m])
        rebased == [m \in Nodes |-> Rebased(main[m], run[r].base[m], run[r].mine[m])]
        failure == [main EXCEPT ![n] = Over(File(<<"run", run[r].nnn>>, "merge-conflict"), @)]
    IN  /\ run[r].phase = "publishing"
        /\ main' = IF conflict THEN failure ELSE rebased
        /\ Checkout(HostOf[r], main', tree[HostOf[r]])
        /\ claimed' = claimed \ {n}
        /\ run' = [run EXCEPT ![r] = IdleRun]
        /\ UNCHANGED limits

\* The run dies; its claim stays, since no caller takes one over.
Die(r) ==
    /\ run[r].phase # "idle"
    /\ faults < MaxFaults
    /\ faults' = faults + 1
    /\ run' = [run EXCEPT ![r] = IdleRun]
    /\ UNCHANGED <<main, tree, claimed, head, facts, mutations>>

-----------------------------------------------------------------------------
(* What people do, each in a checkout.                                     *)

\* publish_lifecycle: deletions and contents on top of main, in one commit, while the
\* checkout has files already.  When it fails, the files stay in the checkout.
PublishFrom(h, files, gone, present) ==
    \/ /\ main' = [n \in Nodes |-> Over(present[n], Without(main[n], gone[n]))]
       /\ Checkout(h, main', files)
       /\ UNCHANGED faults
    \/ /\ faults < MaxFaults
       /\ faults' = faults + 1
       /\ tree' = [tree EXCEPT ![h] = files]
       /\ UNCHANGED <<main, head>>

NoNames == [n \in Nodes |-> {}]

\* Mutant: the children are published without the decision that makes them legitimate.
ApprovedFilesOfChildren(t, n) == Part(t, UNION {Below(c) : c \in Planned(n)})

\* What spawn publishes: the directories of the children, and the decision.
ApprovedFiles(t, n) ==
    [Part(t, UNION {Below(c) : c \in Planned(n)}) EXCEPT
       ![n] = File(<<"plan-approved", Latest(t[n], "plan")>>, "written")]

\* mt spawn --approve
Approve(h, n) ==
    LET files == tree[h][n]
        k == Latest(files, "plan")
        \* create_task leaves a node that exists as it is
        born == [c \in Nodes |->
                   IF c \in Planned(n) /\ ~HasTask(tree[h], c)
                   THEN Over(File(Task, "written"), tree[h][c]) ELSE tree[h][c]]
        new == [born EXCEPT ![n] = Over(File(<<"plan-approved", k>>, "written"), @)]
    IN  /\ <<h, n>> \in Approvers
        /\ HasTask(tree[h], n)
        /\ Decision(files) = "composite"
        /\ <<"plan-approved", k>> \notin DOMAIN files
        /\ <<"plan-rejected", k>> \notin DOMAIN files
        /\ PublishFrom(h, new, NoNames, ApprovedFiles(new, n))
        /\ UNCHANGED <<claimed, run, facts, mutations>>

\* The verdict alone is published; parents are not looked at.
Verdict(h, n) ==
    LET files == tree[h][n]
        name == <<"audit-result", Latest(files, "pending-audit")>>
    IN  /\ <<h, n>> \in Auditors
        /\ HasTask(tree[h], n)
        /\ Latest(files, "pending-audit") # 0
        /\ name \notin DOMAIN files
        /\ \E result \in {"success", "failed"} :
             PublishFrom(h, [tree[h] EXCEPT ![n] = Over(File(name, result), @)], NoNames,
                         [Nothing EXCEPT ![n] = File(name, result)])
        /\ UNCHANGED <<claimed, run, facts, mutations>>

ChainOf(files) == {f \in DOMAIN files : f[1] \in Chain}

\* The chain moves to history/, which keeps the newest fact.
Archived(files) ==
    LET chain == ChainOf(files)
        k == Latest(files, "fact")
        kept == IF k = 0 THEN "written" ELSE files[<<"fact", k>>]
    IN  IF chain = {} THEN files
        ELSE Over(File(<<"history", Latest(files, "history") + 1>>, kept), Without(files, chain))

\* The nodes the cascade reaches: down, as far as there are nodes.
Cascade(t, n) ==
    LET down[d \in Nat] == IF d = 0 THEN {n} ELSE down[d - 1] \cup UNION {Children(t, m) : m \in down[d - 1]}
    IN  down[Cardinality(Nodes)]

Gone(old, new) == [n \in Nodes |-> DOMAIN old[n] \ DOMAIN new[n]]

\* Mutant: the archive is not published, only what left the chain.
ArchivedUnpublished(old, new, n) == Nothing

\* What is left in the directory is written to main again.
Republished(old, new, n) == Part(new, Below(n))

\* mt invalidate
Invalidate(h, n) ==
    LET reached == Cascade(tree[h], n)
        new == [m \in Nodes |-> IF m \in reached THEN Archived(tree[h][m]) ELSE tree[h][m]]
    IN  /\ <<h, n>> \in Invalidators
        /\ HasTask(tree[h], n)
        /\ mutations < MaxMutations
        /\ mutations' = mutations + 1
        /\ \A m \in reached : Latest(tree[h][m], "history") < MaxNumber
        /\ PublishFrom(h, new, Gone(tree[h], new), Republished(tree[h], new, n))
        /\ UNCHANGED <<claimed, run, facts>>

\* mt kill: the directory disappears, with an archive on this machine or without.
Kill(h, n) ==
    LET new == [m \in Nodes |-> IF m \in Below(n) THEN NoFiles ELSE tree[h][m]]
    IN  /\ <<h, n>> \in Killers
        /\ HasTask(tree[h], n)
        /\ mutations < MaxMutations
        /\ mutations' = mutations + 1
        /\ PublishFrom(h, new, Gone(tree[h], new), Nothing)
        /\ UNCHANGED <<claimed, run, facts>>

\* A person brings a checkout up to date: main's changes win, the rest stays.
Pull(h) ==
    /\ head[h] # main
    /\ head' = [head EXCEPT ![h] = main]
    /\ tree' = [tree EXCEPT ![h] = [n \in Nodes |-> Rebased(@[n], head[h][n], main[n])]]
    /\ UNCHANGED <<main, claimed, run, limits>>

-----------------------------------------------------------------------------
\* mt invalidate, mt kill
LifecycleCommand(h, n) == Invalidate(h, n) \/ Kill(h, n)

TreeNext ==
    \/ \E r \in Runners : Start(r) \/ Finish(r) \/ PublishRun(r) \/ Die(r)
    \/ \E h \in Hosts, n \in Nodes : Approve(h, n) \/ Verdict(h, n) \/ LifecycleCommand(h, n)
    \/ \E h \in Hosts : Pull(h)

TreeSpec == TreeInit /\ [][TreeNext]_treeVars

-----------------------------------------------------------------------------
(* Properties.                                                             *)

\* No partial subgraph: a child is on main only with an approved plan of its parent
\* (spawn.rs spawn_approve, "one atomic commit"), whatever is published or fails later.
SubgraphWhole ==
    \A n \in Nodes : HasTask(main, n) /\ Parent[n] # NoNode =>
        \E k \in 1 .. MaxNumber : <<"plan-approved", k>> \in DOMAIN main[Parent[n]]

\* What happened to a node on main since a run read it: archived, or gone.
Mutated(base, n) ==
    \/ Latest(main[n], "history") # Latest(base[n], "history")
    \/ ~HasTask(main, n)

\* A parent gets a fact on main only from a run after which all its children are resolved
\* there, except for those that were invalidated or killed while the run worked
\* (signal.rs propagate_composite decides in the worktree of the run).
CompletedOnEvidence ==
    [][\A p \in Nodes :
         Planned(p) # {} /\ Latest(main'[p], "fact") > Latest(main[p], "fact") =>
           \E r \in Runners :
             /\ run[r].phase = "publishing"
             /\ \A c \in Planned(p) : Resolved(main'[c]) \/ Mutated(run[r].base, c)]_treeVars

\* No parent is left open although its children are resolved: nobody would complete it any
\* more (propagate_composite runs with the publish of a child only).  Holds for children
\* that are not audited, and for one run at a time.
NoneLeftOpen ==
    \A p \in Nodes : (\A c \in Planned(p) : Audit[c] = "off") => ~MayComplete(main, p)

\* The result that resolves a node is neither dropped nor replaced on main: it stays, or
\* moves to the archive, until its node is killed (lifecycle.rs archive_chain, computed
\* from a checkout that is behind main).
ResultsKept ==
    [][\A n \in Nodes : Resolved(main[n]) /\ HasTask(main', n) =>
         main[n][<<"fact", Latest(main[n], "fact")>>] \in {main'[n][f] : f \in DOMAIN main'[n]}]_treeVars

\* A node that was killed on main comes back by an approval only, not by a run that was
\* under way or a command of a checkout that still has it (lifecycle.rs kill).
OnlyApprovalCreates ==
    [][\A n \in Nodes : HasTask(main', n) /\ ~HasTask(main, n) =>
         Latest(main'[Parent[n]], "plan-approved") > Latest(main[Parent[n]], "plan-approved")]_treeVars
=============================================================================
