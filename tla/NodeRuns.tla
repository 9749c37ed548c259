------------------------------ MODULE NodeRuns ------------------------------
(***************************************************************************)
(* The runs of task nodes: what `mt run` and `mt run --auto` do to the     *)
(* files of a node, and what people do to them meanwhile.                  *)
(*                                                                         *)
(*   main      = the files of each node on the remote's main branch.       *)
(*   tree[h]   = the same files in the checkout of a host; all decisions   *)
(*               of a run before its claim are taken there.                *)
(*   base      = the files a run starts from: main, after its fetch.       *)
(*                                                                         *)
(* The files of a node are a function from names to contents: <<"run", 2>> *)
(* is run_002.md, its content the `result`.  Everything is derived from    *)
(* them: the state of a node, the next number, the failed streak.          *)
(* Numbers are never taken from a counter, and a checkout is moved only by *)
(* a fast-forward after a publish of its own, or by a person.              *)
(*                                                                         *)
(* Claims and the push are those of ClaimFencing, in one step each.  The   *)
(* agent and its check are choices.  Left out: children of a node          *)
(* (CompositeTree), decisions, wall-clock budgets.                         *)
(***************************************************************************)
EXTENDS NodeFiles

CONSTANTS
    Nodes,              \* nodes with an a.md
    Deps,               \* deps/ of each node
    Hinted,             \* nodes with `hint: atomic`: no planning phase
    Audit,              \* `audit:` of task.md
    Hosts,
    MainCheckouts,      \* hosts whose checkout is on branch main
    Runners,            \* one `mt run` at a time each
    HostOf,
    AutoRunners,        \* the slots of `mt run --auto`; the rest are run by hand
    HandActors,         \* as whom runs are started by hand
    Auditors,           \* hosts on which somebody gives verdicts
    Reviewers,          \* hosts on which somebody rejects plans
    Invalidators,       \* hosts on which somebody invalidates nodes
    MaxRejected,        \* bound: NNN of a fact that an audit rejects
    MaxInvalidations,   \* bound
    MaxFaults,          \* bound: failed git calls
    NoNode              \* model value

ASSUME RunsAssumption ==
    /\ Deps \in [Nodes -> SUBSET Nodes]
    /\ Audit \in [Nodes -> {"required", "optional", "off"}]
    /\ HostOf \in [Runners -> Hosts]
    /\ AutoRunners \subseteq Runners
    /\ HandActors \subseteq {"agent", "engineer"}
    /\ {AgentRetryMax, EngineerRetryMax, PlanRejectMax, MaxNumber} \subseteq Nat
    /\ {MaxRejected, MaxInvalidations, MaxFaults} \subseteq Nat
    /\ Hinted \subseteq Nodes
    /\ NoNode \notin Nodes

VARIABLES
    main,           \* files of each node on main
    tree,           \* files of each node in the checkout of each host
    untracked,      \* <<node, name>> of files a checkout has and git does not know
    claimed,        \* nodes with a claim on the remote
    run,            \* what each runner is doing
    auto,           \* the run_auto of each host
    invalidations, faults

limits == <<invalidations, faults>>

vars == <<main, tree, untracked, claimed, run, auto, limits>>

Results == Failures \cup {"none", "success", "decomposed", "error"}

Phases == {"idle", "begun", "planned", "based", "working", "publishing", "done"}

\* A run, and files that are what they look like.
IsRun(x) ==
    /\ x \in [phase : Phases, node : Nodes \cup {NoNode}, actor : {"agent", "engineer"},
              nnn : 0 .. MaxNumber, base : {x.base}, mine : {x.mine},
              result : Results]
    /\ IsFiles(x.base)
    /\ IsFiles(x.mine)
    /\ x.phase # "idle" => x.node \in Nodes

TypeOK ==
    /\ main = [n \in Nodes |-> main[n]]
    /\ \A n \in Nodes : IsFiles(main[n])
    /\ tree = [h \in Hosts |-> [n \in Nodes |-> tree[h][n]]]
    /\ \A h \in Hosts, n \in Nodes : IsFiles(tree[h][n])
    /\ untracked \in [Hosts -> SUBSET (Nodes \X Names)]
    /\ claimed \subseteq Nodes
    /\ run = [r \in Runners |-> run[r]]
    /\ \A r \in Runners : IsRun(run[r])
    /\ auto \in [Hosts -> [phase : {"off", "scan", "wait"}, skip : SUBSET Nodes]]
    /\ invalidations \in 0 .. MaxInvalidations
    /\ faults \in 0 .. MaxFaults

Begun(n, actor) ==
    [phase |-> "begun", node |-> n, actor |-> actor, nnn |-> 0,
     base |-> NoFiles, mine |-> NoFiles, result |-> "none"]

Idle == [Begun(NoNode, "agent") EXCEPT !.phase = "idle"]

Init ==
    /\ main = [n \in Nodes |-> NoFiles]
    /\ tree = [h \in Hosts |-> main]
    /\ untracked = [h \in Hosts |-> {}]
    /\ claimed = {}
    /\ run = [r \in Runners |-> Idle]
    /\ auto = [h \in Hosts |-> [phase |-> "off", skip |-> {}]]
    /\ invalidations = 0
    /\ faults = 0

-----------------------------------------------------------------------------
(* What the files of a node say.                                           *)

NeedsPlanning(n, files) == n \notin Hinted /\ Latest(files, "plan") = 0

\* A node that was invalidated once is audited even where that is optional.
Policy(n, files) ==
    IF Audit[n] = "optional" /\ Numbers(files, "history") # {} THEN "required" ELSE Audit[n]

\* Mutant: a fact that waits for its audit unblocks the nodes that need it.
DepsDelivered(h, n) == \A d \in Deps[n] : Latest(tree[h][d], "fact") # 0

DepsResolved(h, n) == \A d \in Deps[n] : Resolved(tree[h][d])

\* The marker running_<pid> in the checkout of the host.  It is written when the
\* executor starts, just after the claim.
Running(h, n) ==
    \E r \in Runners : HostOf[r] = h /\ run[r].node = n /\ run[r].phase = "working"

Waiting(h, n) ==
    LET files == tree[h][n]
    IN  /\ FactState(files) = "none"
        /\ <<"unresolvable", 1>> \notin DOMAIN files
        /\ ~Running(h, n)
        /\ ~PlanReview(files)
        /\ FailedStreak(files) < AgentRetryMax
        /\ DepsResolved(h, n)

-----------------------------------------------------------------------------
(* Files move between main, a run and a checkout.                          *)

\* The files of a node that git does not know.
Kept(n, files, unknown) == [f \in {u[2] : u \in {v \in unknown : v[1] = n}} |-> files[f]]

\* git merge --ff-only to graph, in a checkout with these files: refused off main, and
\* when it would overwrite an untracked file; the refusal is ignored.
Synced(h, graph, files, unknown) ==
    IF h \in MainCheckouts /\ \A u \in unknown : u[2] \notin DOMAIN graph[u[1]]
    THEN [n \in Nodes |-> Over(Kept(n, files[n], unknown), graph[n])]
    ELSE files

-----------------------------------------------------------------------------
(* run_node: one attempt.                                                  *)

Ends(r, result) ==
    run' = [run EXCEPT ![r] =
              [Begun(run[r].node, run[r].actor) EXCEPT !.phase = "done", !.result = result]]

\* preflight, then the engineer's gate: all of it on the checkout.
Preflight(r) ==
    LET h == HostOf[r]
        n == run[r].node
        files == tree[h][n]
    IN  /\ run[r].phase = "begun"
        /\ \/ /\ ~Running(h, n)
              /\ FactState(files) = "none"
              /\ DepsResolved(h, n)
              /\ run[r].actor = "engineer" => FailedStreak(files) >= AgentRetryMax
              /\ NextNumber(files) <= MaxNumber
              /\ run' = [run EXCEPT ![r].phase = "planned", ![r].nnn = NextNumber(files)]
           \/ /\ \/ Running(h, n)
                 \/ FactState(files) # "none"
                 \/ ~DepsResolved(h, n)
                 \/ run[r].actor = "engineer" /\ FailedStreak(files) < AgentRetryMax
              /\ Ends(r, "error")
        /\ UNCHANGED <<main, tree, untracked, claimed, auto, limits>>

Fetch(r) ==
    /\ run[r].phase = "planned"
    /\ run' = [run EXCEPT ![r].phase = "based", ![r].base = main[run[r].node]]
    /\ UNCHANGED <<main, tree, untracked, claimed, auto, limits>>

\* Mutant: the claim is forced.
AcquireForced(r) ==
    /\ run[r].phase = "based"
    /\ claimed' = claimed \cup {run[r].node}
    /\ run' = [run EXCEPT ![r].phase = "working"]
    /\ UNCHANGED <<main, tree, untracked, auto, limits>>

\* Create-only; claim-lost is an error of the run.
Acquire(r) ==
    /\ run[r].phase = "based"
    /\ \/ /\ run[r].node \notin claimed
          /\ claimed' = claimed \cup {run[r].node}
          /\ run' = [run EXCEPT ![r].phase = "working"]
       \/ /\ run[r].node \in claimed
          /\ Ends(r, "error")
          /\ UNCHANGED claimed
    /\ UNCHANGED <<main, tree, untracked, auto, limits>>

\* What the executor may do: decide on a plan when asked to, later write a composite plan
\* after all, write the fact, be killed by the watchdog, and leave a tree whose check passes.
Outcome ==
    [plan : {"none", "atomic", "composite"}, replan : BOOLEAN,
     fact : BOOLEAN, killed : BOOLEAN, passes : BOOLEAN]

PlanAfter(files, decision) ==
    Over(File(<<"plan", Latest(files, "plan") + 1>>, decision), files)

\* Stage 1.
AfterPlanning(r, o) ==
    LET base == run[r].base
    IN  IF run[r].actor = "agent" /\ NeedsPlanning(run[r].node, base) /\ o.plan # "none"
        THEN PlanAfter(base, o.plan)
        ELSE base

\* Stage 2.
AfterExecution(r, o) ==
    LET fact == IF o.fact THEN File(<<"fact", run[r].nnn>>, "written") ELSE NoFiles
        files == Over(fact, AfterPlanning(r, o))
    IN  IF o.replan THEN PlanAfter(files, "composite") ELSE files

\* What the executor leaves behind.
Left(r, o) ==
    LET planned == AfterPlanning(r, o)
    IN  IF Decision(planned) = "composite" THEN planned ELSE AfterExecution(r, o)

\* The gates of done and audit.  The runner chooses between the two as the contract says,
\* the signal by Policy, and the signal counts the runs anew.
Accepted(n, files, passes) ==
    /\ passes
    /\ Audit[n] = "required" \/ Policy(n, files) # "required"
    /\ <<"fact", NextNumber(files)>> \in DOMAIN files

ResultOf(r, o) ==
    LET files == Left(r, o)
        fact == <<"fact", run[r].nnn>> \in DOMAIN files
    IN  CASE Decision(files) = "composite" -> "decomposed"
          [] /\ Decision(files) # "composite"
             /\ fact /\ ~o.killed /\ Accepted(run[r].node, files, o.passes) -> "success"
          [] OTHER -> "failed"

\* The files of a run before its commit: the run file, with a fact the opened audit, and
\* the terminal marker.  The fact of a signal that is refused is removed.
Finished(r, o) ==
    LET nnn == run[r].nnn
        files == Left(r, o)
        next == NextNumber(files)
        opened == IF Audit[run[r].node] = "required"
                  THEN File(<<"pending-audit", next>>, "written") ELSE NoFiles
        result == ResultOf(r, o)
    IN  Marked(
          CASE result = "success" -> Over(File(<<"run", next>>, result), Over(opened, files))
            [] result = "failed" /\ ~o.killed
                 -> Over(File(<<"run", nnn>>, result), Without(files, {<<"fact", nnn>>}))
            [] OTHER -> Over(File(<<"run", nnn>>, result), files))

\* Both stages, the result, the marker and the commit.
Work(r) ==
    /\ run[r].phase = "working"
    /\ Latest(run[r].base, "plan") + 2 <= MaxNumber
    /\ \E o \in Outcome :
         run' = [run EXCEPT
           ![r].phase = "publishing",
           ![r].mine = Finished(r, o),
           ![r].result = ResultOf(r, o)]
    /\ UNCHANGED <<main, tree, untracked, claimed, auto, limits>>

\* Puts files on main, with the claim's release, and moves the checkout.
Push(r, files) ==
    LET h == HostOf[r]
        graph == [main EXCEPT ![run[r].node] = files]
    IN  /\ main' = graph
        /\ tree' = [tree EXCEPT ![h] = Synced(h, graph, tree[h], untracked[h])]
        /\ claimed' = claimed \ {run[r].node}

\* Main holds more than these files, so that a rebase may conflict, or the push lose its
\* last race, at any time.  Then the run file alone is published, as a conflict.
Publish(r) ==
    LET n == run[r].node
        base == run[r].base
        conflictRun == File(<<"run", run[r].nnn>>, "merge-conflict")
    IN  /\ run[r].phase = "publishing"
        /\ \/ /\ ~Conflicting(main[n], base, run[r].mine)
              /\ Push(r, Rebased(main[n], base, run[r].mine))
              /\ Ends(r, run[r].result)
              /\ UNCHANGED faults
           \/ /\ Push(r, Over(conflictRun, main[n]))
              /\ Ends(r, "merge-conflict")
              /\ UNCHANGED faults
           \/ /\ faults < MaxFaults     \* the conflict's run file is not published either
              /\ faults' = faults + 1
              /\ Ends(r, "merge-conflict")
              /\ UNCHANGED <<main, tree, claimed>>
        /\ UNCHANGED <<untracked, auto, invalidations>>

\* A git call, or the start of the executor, fails: the run ends where it is.
GitError(r) ==
    /\ run[r].phase \in {"planned", "based", "working", "publishing"}
    /\ faults < MaxFaults
    /\ faults' = faults + 1
    /\ Ends(r, "error")
    /\ UNCHANGED <<main, tree, untracked, claimed, auto, invalidations>>

-----------------------------------------------------------------------------
(* run_auto: keeps the slots of a host filled.                             *)

Slots(h) == {r \in AutoRunners : HostOf[r] = h}

Free(h) == {r \in Slots(h) : run[r].phase = "idle"}

InFlight(h) == {run[r].node : r \in Slots(h) \ Free(h)}

Candidates(h) == {n \in Nodes : Waiting(h, n)} \ (auto[h].skip \cup InFlight(h))

Dependents(n) == Cardinality({m \in Nodes : n \in Deps[m]})

AutoStart(h) ==
    /\ Slots(h) # {}
    /\ auto[h].phase = "off"
    /\ auto' = [auto EXCEPT ![h] = [phase |-> "scan", skip |-> {}]]
    /\ UNCHANGED <<main, tree, untracked, claimed, run, limits>>

\* Fills the free slots with the nodes most others depend on (ties are broken by
\* deadline and age, which may be any), and returns when nothing is in flight.
Scan(h) ==
    /\ auto[h].phase = "scan"
    /\ \E job \in [Free(h) -> Candidates(h) \cup {NoNode}] :
         LET chosen == {job[r] : r \in Free(h)} \ {NoNode}
         IN  /\ \A n \in chosen : \A m \in Candidates(h) \ chosen : Dependents(n) >= Dependents(m)
             /\ \A r, s \in Free(h) : job[r] = job[s] => r = s \/ job[r] = NoNode
             /\ chosen = Candidates(h) \/ Cardinality(chosen) = Cardinality(Free(h))
             /\ run' = [r \in Runners |->
                          IF r \in Free(h) /\ job[r] # NoNode
                          THEN Begun(job[r], "agent") ELSE run[r]]
             /\ auto' = [auto EXCEPT
                  ![h].phase = IF chosen \cup InFlight(h) = {} THEN "off" ELSE "wait"]
    /\ UNCHANGED <<main, tree, untracked, claimed, limits>>

\* Mutant: a node whose run was an error is taken again.
CollectAnew(h) ==
    /\ auto[h].phase = "wait"
    /\ \E r \in Slots(h) :
         /\ run[r].phase = "done"
         /\ auto' = [auto EXCEPT ![h].phase = "scan"]
         /\ run' = [run EXCEPT ![r] = Idle]
    /\ UNCHANGED <<main, tree, untracked, claimed, limits>>

\* One event of the channel: a node whose run was an error is not taken again.
Collect(h) ==
    /\ auto[h].phase = "wait"
    /\ \E r \in Slots(h) :
         /\ run[r].phase = "done"
         /\ auto' = [auto EXCEPT
              ![h].phase = "scan",
              ![h].skip = @ \cup IF run[r].result = "error" THEN {run[r].node} ELSE {}]
         /\ run' = [run EXCEPT ![r] = Idle]
    /\ UNCHANGED <<main, tree, untracked, claimed, limits>>

-----------------------------------------------------------------------------
(* What people do.                                                         *)

\* mt run <node>
StartByHand(r) ==
    /\ r \notin AutoRunners
    /\ run[r].phase = "idle"
    /\ \E n \in Nodes, actor \in HandActors : run' = [run EXCEPT ![r] = Begun(n, actor)]
    /\ UNCHANGED <<main, tree, untracked, claimed, auto, limits>>

Return(r) ==
    /\ r \notin AutoRunners
    /\ run[r].phase = "done"
    /\ run' = [run EXCEPT ![r] = Idle]
    /\ UNCHANGED <<main, tree, untracked, claimed, auto, limits>>

\* publish_lifecycle: the files of a node in the checkout are new, unknown are those
\* git does not know, and published is what main becomes.
PublishFrom(h, n, new, unknown, published) ==
    LET graph == [main EXCEPT ![n] = published]
    IN  /\ main' = graph
        /\ tree' = [tree EXCEPT ![h] = Synced(h, graph, [@ EXCEPT ![n] = new], unknown)]

\* An auditor's verdict on the audit that is open in the checkout.  If it cannot be
\* published it stays there.
Verdict(h, n) ==
    LET files == tree[h][n]
        k == Latest(files, "pending-audit")
        name == <<"audit-result", k>>
    IN  /\ h \in Auditors
        /\ k # 0
        /\ name \notin DOMAIN files
        /\ untracked' = [untracked EXCEPT ![h] = @ \cup {<<n, name>>}]
        /\ \E result \in {"success", "failed"} :
             /\ result = "failed" => k <= MaxRejected
             /\ \/ /\ PublishFrom(h, n, Over(File(name, result), files),
                                  untracked'[h], Over(File(name, result), main[n]))
                   /\ UNCHANGED faults
                \/ /\ faults < MaxFaults
                   /\ faults' = faults + 1
                   /\ tree' = [tree EXCEPT ![h][n] = Over(File(name, result), files)]
                   /\ UNCHANGED main
        /\ UNCHANGED <<claimed, run, auto, invalidations>>

\* The chain moves to history/; what left the checkout is removed from main, what is left
\* in it is written to main again.
Invalidate(h, n) ==
    LET files == tree[h][n]
        chain == {f \in DOMAIN files : f[1] \in Chain}
        archive == IF chain = {} THEN {} ELSE {<<"history", Latest(files, "history") + 1>>}
        new == Over([f \in archive |-> "written"], Without(files, chain))
        unknown == (untracked[h] \ ({n} \X chain)) \cup ({n} \X archive)
    IN  /\ h \in Invalidators
        /\ invalidations < MaxInvalidations
        /\ invalidations' = invalidations + 1
        /\ untracked' = [untracked EXCEPT ![h] = unknown]
        /\ PublishFrom(h, n, new, unknown, Over(new, Without(main[n], chain)))
        /\ UNCHANGED <<claimed, run, auto, faults>>

\* mt spawn --reject: nothing is published.
RejectPlan(h, n) ==
    LET files == tree[h][n]
        k == Latest(files, "plan")
        new == Marked(Over(File(<<"plan-rejected", k>>, "written"), files))
    IN  /\ h \in Reviewers
        /\ k # 0
        /\ <<"plan-rejected", k>> \notin DOMAIN files
        /\ tree' = [tree EXCEPT ![h][n] = new]
        /\ untracked' = [untracked EXCEPT ![h] = @ \cup ({n} \X Changed(files, new))]
        /\ UNCHANGED <<main, claimed, run, auto, limits>>

\* A person brings a checkout up to date; untracked files that main has give way.
Pull(h) ==
    LET unknown == {u \in untracked[h] : u[2] \notin DOMAIN main[u[1]]}
    IN  /\ tree' = [tree EXCEPT ![h] = [n \in Nodes |->
             Over(Kept(n, tree[h][n], unknown), main[n])]]
        /\ untracked' = [untracked EXCEPT ![h] = unknown]
        /\ UNCHANGED <<main, claimed, run, auto, limits>>

-----------------------------------------------------------------------------
RunStep(r) == Preflight(r) \/ Fetch(r) \/ Acquire(r) \/ Work(r) \/ Publish(r)

Next ==
    \/ \E r \in Runners : RunStep(r) \/ GitError(r) \/ StartByHand(r) \/ Return(r)
    \/ \E h \in Hosts : AutoStart(h) \/ Scan(h) \/ Collect(h) \/ Pull(h)
    \/ \E h \in Hosts, n \in Nodes : Verdict(h, n) \/ Invalidate(h, n) \/ RejectPlan(h, n)

Spec == Init /\ [][Next]_vars

\* The threads of run_auto continue; people may do nothing, or stop anywhere.
FairSpec ==
    /\ Spec
    /\ \A r \in AutoRunners : WF_vars(RunStep(r))
    /\ \A h \in Hosts : WF_vars(Scan(h)) /\ WF_vars(Collect(h))

-----------------------------------------------------------------------------
(* Properties.                                                             *)

Busy(r) == run[r].phase \in {"working", "publishing"}

\* One attempt at a time, over all hosts: a run that works holds the node's claim, and two
\* of them are never on one node (claims.rs acquire_claim, publish.rs release of the claim).
OneAttempt ==
    \A r \in Runners : Busy(r) =>
        /\ run[r].node \in claimed
        /\ \A s \in Runners : Busy(s) /\ run[s].node = run[r].node => s = r

\* What git does not know in a checkout is there.
UntrackedThere == \A h \in Hosts : \A u \in untracked[h] : u[2] \in DOMAIN tree[h][u[1]]

\* One attempt at a time, on files that are what their names say: the inductive
\* invariant of the proofs (claims.rs acquire_claim; git/compat.rs fast_forward_main).
RunsInv == TypeOK /\ UntrackedThere /\ OneAttempt

\* Failed attempts since the newest accepted fact.
Attempts(files) ==
    Cardinality({k \in Numbers(files, "run") :
        /\ files[<<"run", k>>] \notin {"success", "decomposed"}
        /\ Resolved(files) => k > Latest(files, "fact")})

\* run_auto stops at the ladder's end: it works on a node only while main itself has fewer
\* than AgentRetryMax failures since the last accepted result, rejected results and
\* conflicts included, although it decides in a checkout (lib.rs failed_streak, detect_state).
LadderHolds ==
    \A r \in AutoRunners :
        Busy(r) => Attempts(run[r].base) < AgentRetryMax

\* A run works only while the results it builds on stand on main (runner.rs preflight,
\* lib.rs apply_blocked: both look at the checkout).
InputsAccepted ==
    \A r \in Runners :
        Busy(r) => \A d \in Deps[run[r].node] : Resolved(main[d])

\* History is written once: no publish removes or rewrites a run, fact, audit or verdict
\* (signal.rs next_run_nnn counts runs in a checkout; the files go to main).
HistoryKept ==
    [][\A n \in Nodes : \A f \in DOMAIN main[n] :
          f \in DOMAIN main'[n] /\ main'[n][f] = main[n][f]]_main

\* run_auto returns, whatever its runs end with (orchestrate.rs: skip and in_flight).
AutoReturns == \A h \in Hosts : auto[h].phase # "off" ~> auto[h].phase = "off"

\* A fact is published only with the success of its run, that is after its check
\* (runner.rs: a fact without a passed check "is not published").
FactSignalled ==
    \A n \in Nodes : \A k \in Numbers(main[n], "fact") :
        <<"run", k>> \in DOMAIN main[n] /\ main[n][<<"run", k>>] = "success"
=============================================================================
