-------------------------- MODULE NodeRuns_proofs --------------------------
(***************************************************************************)
(* One attempt at a time on a node, and files that stay what they look     *)
(* like: for all nodes, hosts, runners and bounds, and whatever executors, *)
(* auditors and git do.  And for one `mt run --auto` whose checkout can    *)
(* be fast-forwarded: what it decides in the checkout is true of main, and *)
(* main only grows.                                                        *)
(***************************************************************************)
EXTENDS NodeRuns, FiniteSetTheorems, NumberLemmas, TLAPS

-----------------------------------------------------------------------------
(* Numbers.                                                                *)

\* A nonempty set of numbers up to a bound has a maximum.
LEMMA BoundedMax ==
  ASSUME NEW m \in Nat, NEW S, S \subseteq 0 .. m, S # {}
  PROVE  Max(S) \in S
<1>1. \E x \in S : \A y \in S : x >= y
  <2>1. PICK x \in S : \A y \in S : y <= x
    BY GreatestNumber
  <2>2. \A y \in S : x >= y
    <3>1. \A y \in S : y \in Int
      OBVIOUS
    <3> QED  BY <2>1, <3>1
  <2> QED  BY <2>2
<1> QED  BY <1>1 DEF Max

LEMMA LatestIsNumber ==
  ASSUME RunsAssumption, NEW files, NEW kind
  PROVE  Latest(files, kind) \in 0 .. MaxNumber
<1> DEFINE S == Numbers(files, kind) \cup {0}
<1>1. MaxNumber \in Nat
  BY DEF RunsAssumption
<1>2. S \subseteq 0 .. MaxNumber /\ S # {}
  BY <1>1 DEF Numbers
<1>3. Max(S) \in S
  <2> HIDE DEF S
  <2> QED  BY <1>1, <1>2, BoundedMax
<1> QED  BY <1>2, <1>3 DEF Latest

LEMMA NextNumberIsNumber ==
  ASSUME RunsAssumption, NEW files
  PROVE  NextNumber(files) \in Nat \ {0}
<1>1. MaxNumber \in Nat
  BY DEF RunsAssumption
<1>2. IsFiniteSet(1 .. MaxNumber)
  BY <1>1, FS_Interval
<1>3. Numbers(files, "run") \subseteq 1 .. MaxNumber
  BY DEF Numbers
<1>4. Cardinality(Numbers(files, "run")) \in Nat
  BY <1>2, <1>3, FS_Subset, FS_CardinalityType
<1> QED  BY <1>4 DEF NextNumber

-----------------------------------------------------------------------------
(* Files.                                                                  *)

LEMMA NoFilesAreFiles ==
  IsFiles(NoFiles)
BY DEF IsFiles, NoFiles

LEMMA OneFile ==
  ASSUME NEW f \in Names, NEW content \in Contents
  PROVE  IsFiles(File(f, content))
BY DEF IsFiles, File

LEMMA MergedFiles ==
  ASSUME NEW a, NEW b, IsFiles(a), IsFiles(b)
  PROVE  IsFiles(Over(a, b))
BY DEF IsFiles, Over

LEMMA WithoutFiles ==
  ASSUME NEW files, NEW names, IsFiles(files)
  PROVE  IsFiles(Without(files, names))
BY DEF IsFiles, Without

LEMMA RebasedFiles ==
  ASSUME NEW theirs, NEW base, NEW mine, IsFiles(theirs), IsFiles(mine)
  PROVE  IsFiles(Rebased(theirs, base, mine))
BY DEF IsFiles, Rebased

LEMMA MarkedFiles ==
  ASSUME NEW files, IsFiles(files)
  PROVE  IsFiles(Marked(files))
<1>1. IsFiles(File(<<"unresolvable", 1>>, "written"))
  BY OneFile DEF Names, Chain, Contents
<1> QED  BY <1>1, MergedFiles DEF Marked

LEMMA PlannedFiles ==
  ASSUME RunsAssumption, NEW files, IsFiles(files), NEW decision \in {"atomic", "composite"}
  PROVE  IsFiles(PlanAfter(files, decision))
<1>1. Latest(files, "plan") + 1 \in Nat
  BY LatestIsNumber DEF RunsAssumption
<1>2. IsFiles(File(<<"plan", Latest(files, "plan") + 1>>, decision))
  BY <1>1, OneFile DEF Names, Contents
<1> QED  BY <1>2, MergedFiles DEF PlanAfter

LEMMA KeptFiles ==
  ASSUME NEW n, NEW files, NEW unknown, IsFiles(files),
         \A u \in unknown : u[1] = n => u[2] \in DOMAIN files
  PROVE  IsFiles(Kept(n, files, unknown))
<1>1. DOMAIN Kept(n, files, unknown) \subseteq DOMAIN files
  BY DEF Kept
<1> QED  BY <1>1 DEF Kept, IsFiles

-----------------------------------------------------------------------------
(* Checkouts.                                                              *)

\* The files of all nodes.
IsTree(t) ==
  /\ t = [n \in Nodes |-> t[n]]
  /\ \A n \in Nodes : IsFiles(t[n])

\* What git does not know is there.
Holds(t, unknown) ==
  /\ unknown \subseteq Nodes \X Names
  /\ \A u \in unknown : u[2] \in DOMAIN t[u[1]]

LEMMA TreesHold ==
  ASSUME TypeOK, UntrackedThere
  PROVE  /\ IsTree(main)
         /\ tree = [h \in Hosts |-> tree[h]]
         /\ \A h \in Hosts : IsTree(tree[h]) /\ Holds(tree[h], untracked[h])
<1>1. IsTree(main)
  BY DEF TypeOK, IsTree
<1>2. tree = [h \in Hosts |-> tree[h]]
  BY DEF TypeOK
<1>3. \A h \in Hosts : IsTree(tree[h])
  BY DEF TypeOK, IsTree
<1>4. \A h \in Hosts : Holds(tree[h], untracked[h])
  BY DEF TypeOK, UntrackedThere, Holds
<1> QED  BY <1>1, <1>2, <1>3, <1>4

\* A checkout with new files for one node.
LEMMA TreeUpdated ==
  ASSUME NEW t, IsTree(t), NEW n \in Nodes, NEW files, IsFiles(files)
  PROVE  /\ IsTree([t EXCEPT ![n] = files])
         /\ [t EXCEPT ![n] = files][n] = files
         /\ \A m \in Nodes : m # n => [t EXCEPT ![n] = files][m] = t[m]
BY DEF IsTree

\* A fast-forward that git accepts keeps the untracked files, one it refuses keeps all.
LEMMA SyncedTree ==
  ASSUME NEW h, NEW graph, NEW t, NEW unknown,
         IsTree(graph), IsTree(t), Holds(t, unknown)
  PROVE  /\ IsTree(Synced(h, graph, t, unknown))
         /\ Holds(Synced(h, graph, t, unknown), unknown)
<1> DEFINE new == [n \in Nodes |-> Over(Kept(n, t[n], unknown), graph[n])]
<1>1. \A n \in Nodes : IsFiles(Kept(n, t[n], unknown)) /\ IsFiles(graph[n])
  BY KeptFiles DEF IsTree, Holds
<1>2. IsTree(new)
  <2>1. \A n \in Nodes : IsFiles(new[n])
    BY <1>1, MergedFiles
  <2> QED  BY <2>1 DEF IsTree
<1>3. Holds(new, unknown)
  <2> SUFFICES ASSUME NEW u \in unknown PROVE u[2] \in DOMAIN new[u[1]]
    BY DEF Holds
  <2>1. u[1] \in Nodes
    BY DEF Holds
  <2>2. u[2] \in DOMAIN Kept(u[1], t[u[1]], unknown)
    BY DEF Kept
  <2> QED  BY <2>1, <2>2 DEF Over
<1> HIDE DEF new
<1>4. Synced(h, graph, t, unknown) \in {new, t}
  BY DEF Synced, new
<1> QED  BY <1>2, <1>3, <1>4

\* Main, all checkouts, and what git does not know in them.
Copies(m, t, u) ==
  /\ IsTree(m)
  /\ t = [h \in Hosts |-> t[h]]
  /\ u = [h \in Hosts |-> u[h]]
  /\ \A h \in Hosts : IsTree(t[h]) /\ Holds(t[h], u[h])

\* What every runner does.
RunsTyped(rs) == rs = [r \in Runners |-> rs[r]] /\ \A r \in Runners : IsRun(rs[r])

LEMMA CopiesTyped ==
  TypeOK /\ UntrackedThere <=>
    /\ Copies(main, tree, untracked)
    /\ RunsTyped(run)
    /\ claimed \subseteq Nodes
    /\ auto \in [Hosts -> [phase : {"off", "scan", "wait"}, skip : SUBSET Nodes]]
    /\ invalidations \in 0 .. MaxInvalidations
    /\ faults \in 0 .. MaxFaults
<1>1. ASSUME TypeOK, UntrackedThere
      PROVE  Copies(main, tree, untracked)
  <2>1. untracked = [h \in Hosts |-> untracked[h]]
    BY <1>1 DEF TypeOK
  <2> QED  BY <1>1, <2>1, TreesHold DEF Copies
<1>2. ASSUME Copies(main, tree, untracked)
      PROVE  /\ main = [n \in Nodes |-> main[n]]
             /\ \A n \in Nodes : IsFiles(main[n])
             /\ tree = [h \in Hosts |-> [n \in Nodes |-> tree[h][n]]]
             /\ \A h \in Hosts, n \in Nodes : IsFiles(tree[h][n])
             /\ untracked \in [Hosts -> SUBSET (Nodes \X Names)]
             /\ UntrackedThere
  <2>1. tree = [h \in Hosts |-> tree[h]]
        /\ \A h \in Hosts : tree[h] = [n \in Nodes |-> tree[h][n]]
    BY <1>2 DEF Copies, IsTree
  <2>2. tree = [h \in Hosts |-> [n \in Nodes |-> tree[h][n]]]
    BY <2>1
  <2>3. \A h \in Hosts : untracked[h] \subseteq Nodes \X Names
    BY <1>2 DEF Copies, Holds
  <2>4. untracked \in [Hosts -> SUBSET (Nodes \X Names)]
    BY <1>2, <2>3 DEF Copies
  <2>5. UntrackedThere
    BY <1>2 DEF Copies, Holds, UntrackedThere
  <2> QED  BY <1>2, <2>2, <2>4, <2>5 DEF Copies, IsTree
<1> QED  BY <1>1, <1>2 DEF TypeOK, RunsTyped

-----------------------------------------------------------------------------
(* Steps of one runner.                                                    *)

LEMMA RunUpdated ==
  ASSUME RunsTyped(run), NEW r \in Runners, NEW x, IsRun(x), run' = [run EXCEPT ![r] = x]
  PROVE  /\ RunsTyped(run')
         /\ run'[r] = x
         /\ \A q \in Runners : q # r => run'[q] = run[q]
<1>1. \A q \in Runners : run'[q] = IF q = r THEN x ELSE run[q]
  BY DEF RunsTyped
<1>2. run' = [q \in Runners |-> run'[q]]
  BY DEF RunsTyped
<1> QED  BY <1>1, <1>2 DEF RunsTyped

\* Claims that are only given out leave alone everybody who does not start to work.
LEMMA StillOneAttempt ==
  ASSUME RunsTyped(run), OneAttempt, NEW r \in Runners, NEW x, IsRun(x),
         run' = [run EXCEPT ![r] = x], claimed \subseteq claimed',
         x.phase \in {"working", "publishing"} => Busy(r) /\ x.node = run[r].node
  PROVE  OneAttempt'
<1>1. run'[r] = x /\ \A q \in Runners : q # r => run'[q] = run[q]
  BY RunUpdated
<1>2. \A q \in Runners : Busy(q)' => Busy(q) /\ run'[q].node = run[q].node
  BY <1>1 DEF Busy
<1> QED  BY <1>2 DEF OneAttempt

\* A step that touches one run and no file.
LEMMA LocalStep ==
  ASSUME RunsInv, NEW r \in Runners, NEW x, IsRun(x), run' = [run EXCEPT ![r] = x],
         claimed' = claimed, UNCHANGED <<main, tree, untracked, auto, invalidations>>,
         faults' \in 0 .. MaxFaults,
         x.phase \in {"working", "publishing"} => Busy(r) /\ x.node = run[r].node
  PROVE  RunsInv'
<1>1. Copies(main, tree, untracked) /\ RunsTyped(run)
  BY CopiesTyped DEF RunsInv
<1>2. RunsTyped(run')
  BY <1>1, RunUpdated
<1>3. OneAttempt'
  BY <1>1, StillOneAttempt DEF RunsInv
<1>4. Copies(main', tree', untracked')
  BY <1>1
<1>5. (TypeOK /\ UntrackedThere)'
  BY <1>2, <1>4, CopiesTyped DEF RunsInv, TypeOK, UntrackedThere, RunsTyped, Copies
<1> QED  BY <1>3, <1>5 DEF RunsInv

LEMMA BegunIsRun ==
  ASSUME RunsAssumption, NEW n \in Nodes, NEW actor \in {"agent", "engineer"}
  PROVE  IsRun(Begun(n, actor))
<1>1. 0 \in 0 .. MaxNumber
  BY DEF RunsAssumption
<1> QED  BY <1>1, NoFilesAreFiles DEF Begun, IsRun, Phases, Results

LEMMA IdleIsRun ==
  ASSUME RunsAssumption
  PROVE  IsRun(Idle) /\ Idle.phase = "idle"
<1>1. 0 \in 0 .. MaxNumber
  BY DEF RunsAssumption
<1> QED  BY <1>1, NoFilesAreFiles DEF Idle, Begun, IsRun, Phases, Results

\* The run of a runner that ended.
Ended(r, result) == [Begun(run[r].node, run[r].actor) EXCEPT !.phase = "done", !.result = result]

LEMMA EndedIsRun ==
  ASSUME RunsAssumption, NEW r \in Runners, IsRun(run[r]), run[r].phase # "idle",
         NEW result \in Results
  PROVE  IsRun(Ended(r, result)) /\ Ended(r, result).phase = "done"
<1>1. run[r].node \in Nodes /\ run[r].actor \in {"agent", "engineer"}
  BY DEF IsRun
<1>2. IsRun(Begun(run[r].node, run[r].actor))
  BY <1>1, BegunIsRun
<1> QED  BY <1>2 DEF Ended, Begun, IsRun, Phases

LEMMA EndStep ==
  ASSUME RunsAssumption, RunsInv, NEW r \in Runners, run[r].phase # "idle",
         NEW result \in Results, Ends(r, result),
         claimed' = claimed, UNCHANGED <<main, tree, untracked, auto, invalidations>>,
         faults' \in 0 .. MaxFaults
  PROVE  RunsInv'
<1>1. IsRun(run[r])
  BY DEF RunsInv, TypeOK
<1>2. IsRun(Ended(r, result)) /\ Ended(r, result).phase = "done"
  BY <1>1, EndedIsRun
<1>3. run' = [run EXCEPT ![r] = Ended(r, result)]
  BY DEF Ends, Ended
<1> QED  BY <1>2, <1>3, LocalStep

LEMMA PreflightStep ==
  ASSUME RunsAssumption, RunsInv, NEW r \in Runners, Preflight(r)
  PROVE  RunsInv'
<1> DEFINE nnn == NextNumber(tree[HostOf[r]][run[r].node])
           x == [run[r] EXCEPT !.phase = "planned", !.nnn = nnn]
<1>1. /\ IsRun(run[r]) /\ run[r].phase = "begun"
      /\ faults \in 0 .. MaxFaults
  BY DEF RunsInv, TypeOK, Preflight
<1>2. CASE run' = [run EXCEPT ![r].phase = "planned", ![r].nnn = nnn] /\ nnn <= MaxNumber
  <2>1. nnn \in 0 .. MaxNumber
    BY <1>2, NextNumberIsNumber
  <2>2. IsRun(x) /\ x.phase = "planned"
    BY <1>1, <2>1 DEF IsRun, Phases
  <2>3. run' = [run EXCEPT ![r] = x]
    BY <1>2
  <2> QED  BY <1>1, <2>2, <2>3, LocalStep DEF Preflight, limits
<1>3. CASE Ends(r, "error")
  BY <1>1, <1>3, EndStep DEF Preflight, limits, Results
<1> QED  BY <1>2, <1>3 DEF Preflight

LEMMA FetchStep ==
  ASSUME RunsAssumption, RunsInv, NEW r \in Runners, Fetch(r)
  PROVE  RunsInv'
<1> DEFINE x == [run[r] EXCEPT !.phase = "based", !.base = main[run[r].node]]
<1>1. /\ IsRun(run[r]) /\ run[r].phase = "planned"
      /\ \A n \in Nodes : IsFiles(main[n])
      /\ faults \in 0 .. MaxFaults
  BY DEF RunsInv, TypeOK, Fetch
<1>2. run[r].node \in Nodes
  BY <1>1 DEF IsRun
<1>3. IsRun(x) /\ x.phase = "based"
  BY <1>1, <1>2 DEF IsRun, Phases
<1>4. run' = [run EXCEPT ![r] = x]
  BY DEF Fetch
<1> QED  BY <1>1, <1>3, <1>4, LocalStep DEF Fetch, limits

\* The claim is free, so nobody works on the node.
LEMMA AcquireStep ==
  ASSUME RunsAssumption, RunsInv, NEW r \in Runners, Acquire(r)
  PROVE  RunsInv'
<1> DEFINE x == [run[r] EXCEPT !.phase = "working"]
           n == run[r].node
<1>1. /\ IsRun(run[r]) /\ run[r].phase = "based"
      /\ faults \in 0 .. MaxFaults
      /\ RunsTyped(run)
  BY DEF RunsInv, TypeOK, Acquire, RunsTyped
<1>2. CASE /\ n \notin claimed
           /\ claimed' = claimed \cup {n}
           /\ run' = [run EXCEPT ![r].phase = "working"]
  <2>1. IsRun(x) /\ x.phase = "working" /\ x.node = n /\ n \in Nodes
    BY <1>1 DEF IsRun, Phases
  <2>2. run' = [run EXCEPT ![r] = x]
    BY <1>2
  <2>3. /\ RunsTyped(run')
        /\ run'[r] = x
        /\ \A q \in Runners : q # r => run'[q] = run[q]
    BY <1>1, <2>1, <2>2, RunUpdated
  <2>4. \A q \in Runners : q # r /\ Busy(q)' => Busy(q) /\ run'[q].node \in claimed
    BY <2>3 DEF Busy, RunsInv, OneAttempt
  <2>5. OneAttempt'
    BY <1>2, <2>1, <2>3, <2>4 DEF OneAttempt, RunsInv, Busy
  <2>6. (TypeOK /\ UntrackedThere)'
    BY <1>2, <2>1, <2>3
       DEF RunsInv, TypeOK, UntrackedThere, RunsTyped, Acquire, limits
  <2> QED  BY <2>5, <2>6 DEF RunsInv
<1>3. CASE Ends(r, "error") /\ UNCHANGED claimed
  BY <1>1, <1>3, EndStep DEF Acquire, limits, Results
<1> QED  BY <1>2, <1>3 DEF Acquire

LEMMA GitErrorStep ==
  ASSUME RunsAssumption, RunsInv, NEW r \in Runners, GitError(r)
  PROVE  RunsInv'
<1>1. run[r].phase # "idle" /\ faults' \in 0 .. MaxFaults
  BY DEF RunsInv, TypeOK, GitError, RunsAssumption
<1> QED  BY <1>1, EndStep DEF GitError, Results

LEMMA StartByHandStep ==
  ASSUME RunsAssumption, RunsInv, NEW r \in Runners, StartByHand(r)
  PROVE  RunsInv'
<1>1. PICK n \in Nodes, actor \in HandActors : run' = [run EXCEPT ![r] = Begun(n, actor)]
  BY DEF StartByHand
<1>2. IsRun(Begun(n, actor)) /\ Begun(n, actor).phase = "begun"
  BY BegunIsRun DEF RunsAssumption, Begun
<1> QED  BY <1>1, <1>2, LocalStep DEF StartByHand, limits, RunsInv, TypeOK

LEMMA ReturnStep ==
  ASSUME RunsAssumption, RunsInv, NEW r \in Runners, Return(r)
  PROVE  RunsInv'
BY IdleIsRun, LocalStep DEF Return, limits, RunsInv, TypeOK

-----------------------------------------------------------------------------
(* The executor, and what becomes of its files.                            *)

LEMMA LeftFiles ==
  ASSUME RunsAssumption, NEW r \in Runners, IsRun(run[r]), NEW o \in Outcome
  PROVE  IsFiles(Left(r, o))
<1>1. /\ IsFiles(run[r].base) /\ run[r].nnn \in Nat
      /\ o.plan \in {"none", "atomic", "composite"}
  BY DEF IsRun, Outcome, RunsAssumption
<1>2. IsFiles(AfterPlanning(r, o))
  BY <1>1, PlannedFiles DEF AfterPlanning
<1>3. IsFiles(File(<<"fact", run[r].nnn>>, "written"))
  BY <1>1, OneFile DEF Names, Chain, Contents
<1> DEFINE fact == IF o.fact THEN File(<<"fact", run[r].nnn>>, "written") ELSE NoFiles
           files == Over(fact, AfterPlanning(r, o))
<1>4. IsFiles(files)
  BY <1>2, <1>3, NoFilesAreFiles, MergedFiles
<1>5. IsFiles(PlanAfter(files, "composite"))
  <2> HIDE DEF files
  <2> QED  BY <1>4, PlannedFiles
<1>6. IsFiles(AfterExecution(r, o))
  BY <1>4, <1>5 DEF AfterExecution
<1> QED  BY <1>2, <1>6 DEF Left

LEMMA ResultIsResult ==
  ASSUME NEW r, NEW o
  PROVE  ResultOf(r, o) \in {"decomposed", "success", "failed"}
BY DEF ResultOf

LEMMA FinishedFiles ==
  ASSUME RunsAssumption, NEW r \in Runners, IsRun(run[r]), NEW o \in Outcome
  PROVE  IsFiles(Finished(r, o))
<1> DEFINE nnn == run[r].nnn
           files == Left(r, o)
           next == NextNumber(files)
           opened == IF Audit[run[r].node] = "required"
                     THEN File(<<"pending-audit", next>>, "written") ELSE NoFiles
           result == ResultOf(r, o)
           accepted == Over(File(<<"run", next>>, result), Over(opened, files))
           refused == Over(File(<<"run", nnn>>, result), Without(files, {<<"fact", nnn>>}))
           other == Over(File(<<"run", nnn>>, result), files)
<1>1. /\ IsFiles(files) /\ nnn \in Nat /\ next \in Nat
      /\ result \in {"decomposed", "success", "failed"}
  BY LeftFiles, NextNumberIsNumber, ResultIsResult DEF IsRun, RunsAssumption
<1>2. Finished(r, o) \in {Marked(accepted), Marked(refused), Marked(other)}
  BY <1>1 DEF Finished
<1> HIDE DEF nnn, files, next, result
<1>3. IsFiles(File(<<"run", next>>, result)) /\ IsFiles(File(<<"run", nnn>>, result))
  BY <1>1, OneFile DEF Names, Chain, Contents, Failures
<1>4. IsFiles(File(<<"pending-audit", next>>, "written"))
  BY <1>1, OneFile DEF Names, Chain, Contents
<1>5. IsFiles(opened)
  BY <1>4, NoFilesAreFiles
<1> HIDE DEF opened
<1>6. IsFiles(accepted) /\ IsFiles(refused) /\ IsFiles(other)
  BY <1>1, <1>3, <1>5, MergedFiles, WithoutFiles
<1> HIDE DEF accepted, refused, other
<1> QED  BY <1>2, <1>6, MarkedFiles

LEMMA WorkStep ==
  ASSUME RunsAssumption, RunsInv, NEW r \in Runners, Work(r)
  PROVE  RunsInv'
<1>1. /\ IsRun(run[r]) /\ run[r].phase = "working"
      /\ faults \in 0 .. MaxFaults
  BY DEF RunsInv, TypeOK, Work
<1>2. PICK o \in Outcome :
        run' = [run EXCEPT ![r].phase = "publishing", ![r].mine = Finished(r, o),
                           ![r].result = ResultOf(r, o)]
  BY DEF Work
<1> DEFINE x == [run[r] EXCEPT !.phase = "publishing", !.mine = Finished(r, o),
                               !.result = ResultOf(r, o)]
<1>3. IsRun(x) /\ x.phase = "publishing" /\ x.node = run[r].node
  <2>1. IsFiles(Finished(r, o)) /\ ResultOf(r, o) \in Results
    BY <1>1, FinishedFiles, ResultIsResult DEF Results, Failures
  <2> QED  BY <1>1, <2>1 DEF IsRun, Phases
<1>4. run' = [run EXCEPT ![r] = x]
  BY <1>2
<1> QED  BY <1>1, <1>3, <1>4, LocalStep DEF Work, limits, Busy

-----------------------------------------------------------------------------
(* Steps that change main and a checkout.                                  *)

LEMMA CopiesUpdated ==
  ASSUME Copies(main, tree, untracked), NEW m, IsTree(m), NEW h \in Hosts,
         NEW t, IsTree(t), NEW u, Holds(t, u)
  PROVE  Copies(m, [tree EXCEPT ![h] = t], [untracked EXCEPT ![h] = u])
<1> DEFINE tt == [tree EXCEPT ![h] = t]
           uu == [untracked EXCEPT ![h] = u]
<1>1. /\ tt = [g \in Hosts |-> tt[g]]
      /\ uu = [g \in Hosts |-> uu[g]]
      /\ \A g \in Hosts : /\ tt[g] = IF g = h THEN t ELSE tree[g]
                          /\ uu[g] = IF g = h THEN u ELSE untracked[g]
  BY DEF Copies
<1>2. \A g \in Hosts : IsTree(tt[g]) /\ Holds(tt[g], uu[g])
  BY <1>1 DEF Copies
<1> QED  BY <1>1, <1>2 DEF Copies

\* A push is the end of its run, and gives up the claim that nobody shares.
LEMMA PushStep ==
  ASSUME RunsAssumption, RunsInv, NEW r \in Runners, run[r].phase = "publishing",
         NEW files, IsFiles(files), NEW result \in Results,
         Push(r, files), Ends(r, result), UNCHANGED <<untracked, auto, invalidations, faults>>
  PROVE  RunsInv'
<1> DEFINE h == HostOf[r]
           n == run[r].node
           graph == [main EXCEPT ![n] = files]
<1>1. /\ Copies(main, tree, untracked) /\ RunsTyped(run) /\ IsRun(run[r])
      /\ h \in Hosts /\ n \in Nodes
  BY CopiesTyped DEF RunsInv, RunsTyped, IsRun, RunsAssumption
<1>2. IsTree(graph)
  BY <1>1, TreeUpdated DEF Copies
<1>3. /\ IsTree(Synced(h, graph, tree[h], untracked[h]))
      /\ Holds(Synced(h, graph, tree[h], untracked[h]), untracked[h])
  BY <1>1, <1>2, SyncedTree DEF Copies
<1>4. untracked' = [untracked EXCEPT ![h] = untracked[h]]
  BY <1>1 DEF Copies
<1>5. /\ main' = graph
      /\ tree' = [tree EXCEPT ![h] = Synced(h, graph, tree[h], untracked[h])]
      /\ claimed' = claimed \ {n}
  BY DEF Push
<1>6. Copies(main', tree', untracked')
  <2> DEFINE t == Synced(h, graph, tree[h], untracked[h])
  <2>1. tree' = [tree EXCEPT ![h] = t]
    BY <1>5
  <2> HIDE DEF h, graph, t
  <2>2. Copies(graph, [tree EXCEPT ![h] = t], [untracked EXCEPT ![h] = untracked[h]])
    <3>1. IsTree(t) /\ Holds(t, untracked[h])
      BY <1>3 DEF t
    <3> QED  BY <1>1, <1>2, <3>1, CopiesUpdated
  <2> QED  BY <1>4, <1>5, <2>1, <2>2
<1>7. /\ RunsTyped(run') /\ run'[r].phase = "done"
      /\ \A q \in Runners : q # r => run'[q] = run[q]
  <2>1. IsRun(Ended(r, result)) /\ Ended(r, result).phase = "done"
    BY <1>1, EndedIsRun
  <2> QED  BY <1>1, <2>1, RunUpdated DEF Ends, Ended
<1>8. OneAttempt'
  <2>1. \A q \in Runners : Busy(q)' => q # r /\ Busy(q) /\ run'[q].node = run[q].node
    BY <1>7 DEF Busy
  <2>2. \A q \in Runners : Busy(q) /\ q # r => run[q].node # n
    BY DEF RunsInv, OneAttempt, Busy
  <2> QED  BY <1>5, <2>1, <2>2 DEF RunsInv, OneAttempt
<1>9. (TypeOK /\ UntrackedThere)'
  <2>1. claimed' \subseteq Nodes
    BY <1>5 DEF RunsInv, TypeOK
  <2> QED  BY <1>6, <1>7, <2>1, CopiesTyped
           DEF RunsInv, TypeOK, UntrackedThere, RunsTyped, Copies, IsTree, Holds
<1> QED  BY <1>8, <1>9 DEF RunsInv

LEMMA PublishStep ==
  ASSUME RunsAssumption, RunsInv, NEW r \in Runners, Publish(r)
  PROVE  RunsInv'
<1> DEFINE n == run[r].node
           conflictRun == File(<<"run", run[r].nnn>>, "merge-conflict")
<1>1. /\ IsRun(run[r]) /\ run[r].phase = "publishing" /\ n \in Nodes
      /\ IsFiles(main[n]) /\ run[r].nnn \in Nat /\ IsFiles(run[r].mine)
      /\ run[r].result \in Results
      /\ faults \in 0 .. MaxFaults
  BY DEF RunsInv, TypeOK, Publish, IsRun, RunsAssumption
<1>2. CASE /\ Push(r, Rebased(main[n], run[r].base, run[r].mine))
           /\ Ends(r, run[r].result)
           /\ UNCHANGED faults
  <2>1. IsFiles(Rebased(main[n], run[r].base, run[r].mine))
    BY <1>1, RebasedFiles
  <2> QED  BY <1>1, <1>2, <2>1, PushStep DEF Publish
<1>3. CASE /\ Push(r, Over(conflictRun, main[n]))
           /\ Ends(r, "merge-conflict")
           /\ UNCHANGED faults
  <2>1. IsFiles(conflictRun)
    BY <1>1, OneFile DEF Names, Chain, Contents, Failures
  <2>2. IsFiles(Over(conflictRun, main[n]))
    BY <1>1, <2>1, MergedFiles
  <2>3. "merge-conflict" \in Results
    BY DEF Results, Failures
  <2> QED  BY <1>1, <1>3, <2>2, <2>3, PushStep DEF Publish
<1>4. CASE /\ faults < MaxFaults
           /\ faults' = faults + 1
           /\ Ends(r, "merge-conflict")
           /\ UNCHANGED <<main, tree, claimed>>
  <2>1. faults' \in 0 .. MaxFaults /\ "merge-conflict" \in Results
    BY <1>1, <1>4 DEF Results, Failures, RunsAssumption
  <2> QED  BY <1>1, <1>4, <2>1, EndStep DEF Publish
<1> QED  BY <1>2, <1>3, <1>4 DEF Publish

-----------------------------------------------------------------------------
(* Steps of run_auto.                                                      *)

\* A step that touches no file and no claim, and puts nobody to work.
LEMMA SlotsStep ==
  ASSUME RunsInv, UNCHANGED <<main, tree, untracked, claimed, limits>>,
         RunsTyped(run'),
         auto' \in [Hosts -> [phase : {"off", "scan", "wait"}, skip : SUBSET Nodes]],
         \A q \in Runners : Busy(q)' => run'[q] = run[q]
  PROVE  RunsInv'
<1>1. Copies(main, tree, untracked)
  BY CopiesTyped DEF RunsInv
<1>2. Copies(main', tree', untracked')
  BY <1>1
<1>3. (TypeOK /\ UntrackedThere)'
  BY <1>2 DEF RunsInv, TypeOK, UntrackedThere, RunsTyped, limits
<1>4. OneAttempt'
  BY DEF RunsInv, OneAttempt, Busy
<1> QED  BY <1>3, <1>4 DEF RunsInv

LEMMA AutoStartStep ==
  ASSUME RunsInv, NEW h \in Hosts, AutoStart(h)
  PROVE  RunsInv'
<1>1. RunsTyped(run') /\ run' = run
  BY DEF RunsInv, TypeOK, RunsTyped, AutoStart
<1>2. auto' \in [Hosts -> [phase : {"off", "scan", "wait"}, skip : SUBSET Nodes]]
  BY DEF RunsInv, TypeOK, AutoStart
<1> QED  BY <1>1, <1>2, SlotsStep DEF AutoStart

LEMMA ScanStep ==
  ASSUME RunsAssumption, RunsInv, NEW h \in Hosts, Scan(h)
  PROVE  RunsInv'
<1>1. PICK job \in [Free(h) -> Candidates(h) \cup {NoNode}] :
        LET chosen == {job[r] : r \in Free(h)} \ {NoNode}
        IN  /\ run' = [r \in Runners |->
                         IF r \in Free(h) /\ job[r] # NoNode
                         THEN Begun(job[r], "agent") ELSE run[r]]
            /\ auto' = [auto EXCEPT
                 ![h].phase = IF chosen \cup InFlight(h) = {} THEN "off" ELSE "wait"]
  BY DEF Scan
<1>2. auto' \in [Hosts -> [phase : {"off", "scan", "wait"}, skip : SUBSET Nodes]]
  <2>1. PICK p \in {"off", "wait"} : auto' = [auto EXCEPT ![h].phase = p]
    BY <1>1
  <2>2. auto[h] \in [phase : {"off", "scan", "wait"}, skip : SUBSET Nodes]
    BY DEF RunsInv, TypeOK
  <2>3. [auto[h] EXCEPT !.phase = p] \in [phase : {"off", "scan", "wait"}, skip : SUBSET Nodes]
    BY <2>1, <2>2
  <2> QED  BY <2>1, <2>3 DEF RunsInv, TypeOK
<1>3. \A r \in Runners : \/ run'[r] = run[r]
                         \/ IsRun(run'[r]) /\ run'[r].phase = "begun"
  <2> SUFFICES ASSUME NEW r \in Runners, r \in Free(h), job[r] # NoNode
               PROVE  /\ run'[r] = Begun(job[r], "agent")
                      /\ IsRun(Begun(job[r], "agent"))
                      /\ Begun(job[r], "agent").phase = "begun"
    BY <1>1
  <2>1. job[r] \in Nodes
    BY DEF Candidates
  <2> QED  BY <1>1, <2>1, BegunIsRun DEF Begun
<1>4. RunsTyped(run')
  BY <1>1, <1>3 DEF RunsInv, TypeOK, RunsTyped
<1> QED  BY <1>2, <1>3, <1>4, SlotsStep DEF Scan, Busy

LEMMA CollectStep ==
  ASSUME RunsAssumption, RunsInv, NEW h \in Hosts, Collect(h)
  PROVE  RunsInv'
<1>1. PICK r \in Slots(h) :
        /\ run[r].phase = "done"
        /\ auto' = [auto EXCEPT
             ![h].phase = "scan",
             ![h].skip = @ \cup IF run[r].result = "error" THEN {run[r].node} ELSE {}]
        /\ run' = [run EXCEPT ![r] = Idle]
  BY DEF Collect
<1>2. r \in Runners /\ RunsTyped(run) /\ run[r].node \in Nodes
  BY <1>1 DEF Slots, RunsAssumption, RunsInv, TypeOK, RunsTyped, IsRun
<1>3. auto' \in [Hosts -> [phase : {"off", "scan", "wait"}, skip : SUBSET Nodes]]
  <2> DEFINE s == IF run[r].result = "error" THEN {run[r].node} ELSE {}
  <2>1. s \in SUBSET Nodes
    BY <1>2
  <2>2. auto' = [auto EXCEPT ![h].phase = "scan", ![h].skip = @ \cup s]
    BY <1>1
  <2>3. auto[h] \in [phase : {"off", "scan", "wait"}, skip : SUBSET Nodes]
    BY DEF RunsInv, TypeOK
  <2> HIDE DEF s
  <2>4. [auto[h] EXCEPT !.phase = "scan", !.skip = @ \cup s]
          \in [phase : {"off", "scan", "wait"}, skip : SUBSET Nodes]
    BY <2>1, <2>3
  <2>5. auto' = [auto EXCEPT ![h] = [auto[h] EXCEPT !.phase = "scan", !.skip = @ \cup s]]
    BY <2>2, <2>3 DEF RunsInv, TypeOK
  <2> QED  BY <2>4, <2>5 DEF RunsInv, TypeOK
<1>4. /\ RunsTyped(run') /\ run'[r].phase = "idle"
      /\ \A q \in Runners : q # r => run'[q] = run[q]
  BY <1>1, <1>2, IdleIsRun, RunUpdated
<1> QED  BY <1>3, <1>4, SlotsStep DEF Collect, Busy

-----------------------------------------------------------------------------
(* Steps of people.                                                        *)

\* A step that touches neither runs nor claims.
LEMMA PeopleStep ==
  ASSUME RunsInv, UNCHANGED <<claimed, run, auto>>, Copies(main', tree', untracked'),
         invalidations' \in 0 .. MaxInvalidations, faults' \in 0 .. MaxFaults
  PROVE  RunsInv'
<1>1. (TypeOK /\ UntrackedThere)'
  BY DEF RunsInv, TypeOK, UntrackedThere, Copies, IsTree, Holds
<1>2. OneAttempt'
  BY DEF RunsInv, OneAttempt, Busy
<1> QED  BY <1>1, <1>2 DEF RunsInv

LEMMA PullStep ==
  ASSUME RunsInv, NEW h \in Hosts, Pull(h)
  PROVE  RunsInv'
<1> DEFINE unknown == {u \in untracked[h] : u[2] \notin DOMAIN main[u[1]]}
           new == [n \in Nodes |-> Over(Kept(n, tree[h][n], unknown), main[n])]
<1>1. Copies(main, tree, untracked)
  BY CopiesTyped DEF RunsInv
<1>2. \A n \in Nodes : IsFiles(Kept(n, tree[h][n], unknown)) /\ IsFiles(main[n])
  BY <1>1, KeptFiles DEF Copies, IsTree, Holds
<1>3. IsTree(new)
  <2>1. \A n \in Nodes : IsFiles(new[n])
    BY <1>2, MergedFiles
  <2> QED  BY <2>1 DEF IsTree
<1>4. Holds(new, unknown)
  <2>1. unknown \subseteq Nodes \X Names
    BY <1>1 DEF Copies, Holds
  <2>2. \A u \in unknown : u[2] \in DOMAIN new[u[1]]
    <3> SUFFICES ASSUME NEW u \in unknown PROVE u[2] \in DOMAIN new[u[1]]
      OBVIOUS
    <3>1. u[1] \in Nodes
      BY <2>1
    <3>2. u[2] \in DOMAIN Kept(u[1], tree[h][u[1]], unknown)
      BY DEF Kept
    <3> QED  BY <3>1, <3>2 DEF Over
  <2> QED  BY <2>1, <2>2 DEF Holds
<1>5. /\ tree' = [tree EXCEPT ![h] = new]
      /\ untracked' = [untracked EXCEPT ![h] = unknown]
      /\ main' = main
  BY DEF Pull
<1> HIDE DEF unknown, new
<1>6. Copies(main, [tree EXCEPT ![h] = new], [untracked EXCEPT ![h] = unknown])
  BY <1>1, <1>3, <1>4, CopiesUpdated DEF Copies
<1> QED  BY <1>5, <1>6, PeopleStep DEF Pull, RunsInv, TypeOK, limits

LEMMA PublishedCopies ==
  ASSUME Copies(main, tree, untracked), NEW h \in Hosts, NEW n \in Nodes,
         NEW new, IsFiles(new), NEW published, IsFiles(published),
         NEW unknown, Holds([tree[h] EXCEPT ![n] = new], unknown),
         PublishFrom(h, n, new, unknown, published),
         untracked' = [untracked EXCEPT ![h] = unknown]
  PROVE  Copies(main', tree', untracked')
<1> DEFINE graph == [main EXCEPT ![n] = published]
           t == [tree[h] EXCEPT ![n] = new]
           s == Synced(h, graph, t, unknown)
<1>1. IsTree(graph) /\ IsTree(t)
  BY TreeUpdated DEF Copies
<1>2. main' = graph /\ tree' = [tree EXCEPT ![h] = s]
  BY DEF PublishFrom
<1> HIDE DEF graph, t
<1>3. IsTree(s) /\ Holds(s, unknown)
  <2>1. Holds(t, unknown)
    BY DEF t
  <2> QED  BY <1>1, <2>1, SyncedTree
<1> HIDE DEF s
<1>4. Copies(graph, [tree EXCEPT ![h] = s], [untracked EXCEPT ![h] = unknown])
  BY <1>1, <1>3, CopiesUpdated
<1> QED  BY <1>2, <1>4

\* More files for a node, some of them unknown to git.
LEMMA MoreFiles ==
  ASSUME NEW t, IsTree(t), NEW n \in Nodes, NEW unknown, Holds(t, unknown),
         NEW files, IsFiles(files), DOMAIN t[n] \subseteq DOMAIN files,
         NEW names, names \subseteq DOMAIN files
  PROVE  Holds([t EXCEPT ![n] = files], unknown \cup ({n} \X names))
<1> DEFINE new == [t EXCEPT ![n] = files]
<1>1. new[n] = files /\ \A m \in Nodes : m # n => new[m] = t[m]
  BY DEF IsTree
<1> HIDE DEF new
<1>2. unknown \cup ({n} \X names) \subseteq Nodes \X Names
  BY DEF Holds, IsFiles
<1>3. \A u \in unknown \cup ({n} \X names) : u[2] \in DOMAIN new[u[1]]
  BY <1>1 DEF Holds
<1> QED  BY <1>2, <1>3 DEF Holds, new

LEMMA VerdictStep ==
  ASSUME RunsAssumption, RunsInv, NEW h \in Hosts, NEW n \in Nodes, Verdict(h, n)
  PROVE  RunsInv'
<1> DEFINE files == tree[h][n]
           name == <<"audit-result", Latest(files, "pending-audit")>>
           unknown == untracked[h] \cup {<<n, name>>}
<1>1. /\ Copies(main, tree, untracked)
      /\ IsTree(tree[h]) /\ Holds(tree[h], untracked[h])
      /\ IsFiles(files) /\ IsFiles(main[n])
  BY CopiesTyped DEF RunsInv, Copies, IsTree
<1>2. name \in Names
  BY LatestIsNumber DEF RunsAssumption, Names, Chain
<1>3. untracked' = [untracked EXCEPT ![h] = unknown] /\ untracked'[h] = unknown
  BY <1>1 DEF Verdict, Copies
<1>4. PICK result \in {"success", "failed"} :
        \/ /\ PublishFrom(h, n, Over(File(name, result), files),
                          unknown, Over(File(name, result), main[n]))
           /\ UNCHANGED faults
        \/ /\ faults < MaxFaults
           /\ faults' = faults + 1
           /\ tree' = [tree EXCEPT ![h][n] = Over(File(name, result), files)]
           /\ UNCHANGED main
  BY <1>3 DEF Verdict
<1> DEFINE new == Over(File(name, result), files)
           published == Over(File(name, result), main[n])
<1> HIDE DEF name
<1>5. IsFiles(new) /\ IsFiles(published)
  BY <1>1, <1>2, OneFile, MergedFiles DEF Contents, Failures
<1>6. DOMAIN files \subseteq DOMAIN new /\ {name} \subseteq DOMAIN new
  BY DEF Over, File
<1>7. Holds([tree[h] EXCEPT ![n] = new], unknown)
  <2> HIDE DEF new
  <2>1. Holds([tree[h] EXCEPT ![n] = new], untracked[h] \cup ({n} \X {name}))
    BY <1>1, <1>5, <1>6, MoreFiles
  <2>2. {n} \X {name} = {<<n, name>>}
    OBVIOUS
  <2> QED  BY <2>1, <2>2
<1> HIDE DEF new, published, unknown
<1>8. ASSUME PublishFrom(h, n, new, unknown, published)
      PROVE  Copies(main', tree', untracked')
  BY <1>1, <1>3, <1>5, <1>7, <1>8, PublishedCopies
<1>9. ASSUME tree' = [tree EXCEPT ![h][n] = new], UNCHANGED main
      PROVE  Copies(main', tree', untracked')
  <2> DEFINE t == [tree[h] EXCEPT ![n] = new]
  <2>1. tree' = [tree EXCEPT ![h] = t]
    BY <1>9
  <2>2. IsTree(t) /\ Holds(t, unknown)
    BY <1>1, <1>5, <1>7, TreeUpdated
  <2> HIDE DEF t
  <2>3. Copies(main, [tree EXCEPT ![h] = t], [untracked EXCEPT ![h] = unknown])
    BY <1>1, <2>2, CopiesUpdated DEF Copies
  <2> QED  BY <1>3, <1>9, <2>1, <2>3
<1>10. Copies(main', tree', untracked')
  BY <1>4, <1>8, <1>9 DEF new, published
<1>11. faults' \in 0 .. MaxFaults /\ invalidations' \in 0 .. MaxInvalidations
  BY <1>4 DEF Verdict, RunsInv, TypeOK, RunsAssumption
<1> QED  BY <1>10, <1>11, PeopleStep DEF Verdict

LEMMA InvalidateStep ==
  ASSUME RunsAssumption, RunsInv, NEW h \in Hosts, NEW n \in Nodes, Invalidate(h, n)
  PROVE  RunsInv'
<1> DEFINE files == tree[h][n]
           chain == {f \in DOMAIN files : f[1] \in Chain}
           archive == IF chain = {} THEN {} ELSE {<<"history", Latest(files, "history") + 1>>}
           archived == [f \in archive |-> "written"]
           new == Over(archived, Without(files, chain))
           unknown == (untracked[h] \ ({n} \X chain)) \cup ({n} \X archive)
           published == Over(new, Without(main[n], chain))
<1>1. /\ Copies(main, tree, untracked)
      /\ IsTree(tree[h]) /\ Holds(tree[h], untracked[h])
      /\ IsFiles(files) /\ IsFiles(main[n])
  BY CopiesTyped DEF RunsInv, Copies, IsTree
<1>2. archive \subseteq Names
  <2>1. Latest(files, "history") + 1 \in Nat
    BY LatestIsNumber DEF RunsAssumption
  <2> QED  BY <2>1 DEF Names
<1>3. /\ untracked' = [untracked EXCEPT ![h] = unknown]
      /\ PublishFrom(h, n, new, unknown, published)
  BY DEF Invalidate
<1> HIDE DEF archive, chain
<1>4. IsFiles(archived)
  BY <1>2 DEF IsFiles, Contents
<1> HIDE DEF archived
<1>5. IsFiles(new) /\ IsFiles(published)
  BY <1>1, <1>4, WithoutFiles, MergedFiles
<1>6. DOMAIN new = archive \cup (DOMAIN files \ chain)
  BY DEF Over, Without, archived
<1> HIDE DEF new
<1>7. Holds([tree[h] EXCEPT ![n] = new], unknown)
  <2> DEFINE t == [tree[h] EXCEPT ![n] = new]
  <2>1. t[n] = new /\ \A m \in Nodes : m # n => t[m] = tree[h][m]
    BY <1>1 DEF IsTree
  <2> HIDE DEF t
  <2>2. unknown \subseteq Nodes \X Names
    BY <1>1, <1>2 DEF Holds
  <2>3. \A u \in unknown : u[2] \in DOMAIN t[u[1]]
    <3> SUFFICES ASSUME NEW u \in unknown PROVE u[2] \in DOMAIN t[u[1]]
      OBVIOUS
    <3>1. CASE u \in {n} \X archive
      BY <1>6, <2>1, <3>1
    <3>2. CASE u \in untracked[h] \ ({n} \X chain)
      <4>1. u \in Nodes \X Names /\ u[2] \in DOMAIN tree[h][u[1]]
        BY <1>1, <3>2 DEF Holds
      <4>2. u = <<u[1], u[2]>>
        BY <4>1
      <4>3. CASE u[1] = n
        BY <1>6, <2>1, <3>2, <4>1, <4>2, <4>3
      <4> QED  BY <2>1, <4>1, <4>3
    <3> QED  BY <3>1, <3>2
  <2> QED  BY <2>2, <2>3 DEF Holds, t
<1> HIDE DEF unknown, published
<1>8. Copies(main', tree', untracked')
  BY <1>1, <1>3, <1>5, <1>7, PublishedCopies
<1>9. faults' \in 0 .. MaxFaults /\ invalidations' \in 0 .. MaxInvalidations
  BY DEF Invalidate, RunsInv, TypeOK, RunsAssumption
<1> QED  BY <1>8, <1>9, PeopleStep DEF Invalidate

LEMMA RejectPlanStep ==
  ASSUME RunsAssumption, RunsInv, NEW h \in Hosts, NEW n \in Nodes, RejectPlan(h, n)
  PROVE  RunsInv'
<1> DEFINE files == tree[h][n]
           review == File(<<"plan-rejected", Latest(files, "plan")>>, "written")
           new == Marked(Over(review, files))
           t == [tree[h] EXCEPT ![n] = new]
           unknown == untracked[h] \cup ({n} \X Changed(files, new))
<1>1. /\ Copies(main, tree, untracked)
      /\ IsTree(tree[h]) /\ Holds(tree[h], untracked[h])
      /\ IsFiles(files)
  BY CopiesTyped DEF RunsInv, Copies, IsTree
<1>2. /\ tree' = [tree EXCEPT ![h] = t]
      /\ untracked' = [untracked EXCEPT ![h] = unknown]
      /\ main' = main
  BY DEF RejectPlan
<1>3. IsFiles(review)
  <2>1. <<"plan-rejected", Latest(files, "plan")>> \in Names
    BY LatestIsNumber DEF RunsAssumption, Names
  <2> QED  BY <2>1, OneFile DEF Contents
<1> HIDE DEF review
<1>4. IsFiles(new)
  BY <1>1, <1>3, MergedFiles, MarkedFiles
<1>5. DOMAIN files \subseteq DOMAIN new
  BY DEF Over, Marked
<1> HIDE DEF new
<1>6. Changed(files, new) \subseteq DOMAIN new
  BY <1>5 DEF Changed
<1>7. IsTree(t) /\ Holds(t, unknown)
  <2> HIDE DEF files
  <2>1. DOMAIN tree[h][n] \subseteq DOMAIN new
    BY <1>5 DEF files
  <2>2. Holds(t, unknown)
    BY <1>1, <1>4, <1>6, <2>1, MoreFiles
  <2> QED  BY <1>1, <1>4, <2>2, TreeUpdated
<1> HIDE DEF t, unknown
<1>8. Copies(main, [tree EXCEPT ![h] = t], [untracked EXCEPT ![h] = unknown])
  BY <1>1, <1>7, CopiesUpdated DEF Copies
<1> QED  BY ZenonT(60), <1>2, <1>8, PeopleStep DEF RejectPlan, RunsInv, TypeOK, limits

-----------------------------------------------------------------------------
(* The invariant.                                                          *)

LEMMA InitRuns ==
  ASSUME RunsAssumption, Init
  PROVE  RunsInv
<1>1. /\ 0 \in 0 .. MaxInvalidations /\ 0 \in 0 .. MaxFaults
      /\ invalidations = 0 /\ faults = 0
  BY DEF RunsAssumption, Init
<1>2. IsTree(main)
  BY NoFilesAreFiles DEF Init, IsTree
<1>3. Copies(main, tree, untracked)
  BY <1>2 DEF Init, Copies, Holds
<1>4. RunsTyped(run) /\ \A r \in Runners : run[r].phase = "idle"
  BY IdleIsRun DEF Init, RunsTyped
<1>5. /\ claimed \subseteq Nodes
      /\ auto \in [Hosts -> [phase : {"off", "scan", "wait"}, skip : SUBSET Nodes]]
  BY DEF Init
<1>6. OneAttempt
  BY <1>4 DEF OneAttempt, Busy
<1>7. TypeOK /\ UntrackedThere
  BY <1>1, <1>3, <1>4, <1>5, CopiesTyped
<1> QED  BY <1>6, <1>7 DEF RunsInv

LEMMA StutterStep ==
  ASSUME RunsInv, UNCHANGED vars
  PROVE  RunsInv'
<1>1. Copies(main', tree', untracked')
  BY CopiesTyped DEF RunsInv, vars
<1> QED  BY <1>1, PeopleStep DEF vars, limits, RunsInv, TypeOK

\* Whatever executors, auditors, people and git do, the files of a node keep known names
\* and contents, what git does not know in a checkout survives its fast-forwards, and a run
\* that works holds the claim of its node alone (claims.rs acquire_claim, publish.rs
\* release of the claim, git/compat.rs fast_forward_main).
THEOREM RunsInvariant ==
  Spec => []RunsInv
<1> USE RunsAssumption
<1>1. Init => RunsInv
  BY InitRuns
<1>2. RunsInv /\ [Next]_vars => RunsInv'
  <2> SUFFICES ASSUME RunsInv, [Next]_vars PROVE RunsInv'
    OBVIOUS
  <2>1. ASSUME NEW r \in Runners, RunStep(r) PROVE RunsInv'
    BY <2>1, PreflightStep, FetchStep, AcquireStep, WorkStep, PublishStep DEF RunStep
  <2>2. ASSUME NEW r \in Runners, GitError(r) \/ StartByHand(r) \/ Return(r) PROVE RunsInv'
    BY <2>2, GitErrorStep, StartByHandStep, ReturnStep
  <2>3. ASSUME NEW h \in Hosts, AutoStart(h) \/ Scan(h) \/ Collect(h) \/ Pull(h)
        PROVE  RunsInv'
    BY <2>3, AutoStartStep, ScanStep, CollectStep, PullStep
  <2>4. ASSUME NEW h \in Hosts, NEW n \in Nodes,
               Verdict(h, n) \/ Invalidate(h, n) \/ RejectPlan(h, n)
        PROVE  RunsInv'
    BY <2>4, VerdictStep, InvalidateStep, RejectPlanStep
  <2>5. CASE UNCHANGED vars
    BY <2>5, StutterStep
  <2> QED  BY <2>1, <2>2, <2>3, <2>4, <2>5 DEF Next
<1> QED  BY <1>1, <1>2, PTL DEF Spec

\* One attempt at a time, over all hosts: a run that works holds its node's claim, and two
\* of them are never on one node (claims.rs acquire_claim).
THEOREM OneAttemptHolds ==
  Spec => []OneAttempt
<1>1. RunsInv => OneAttempt
  BY DEF RunsInv
<1> QED  BY <1>1, RunsInvariant, PTL

-----------------------------------------------------------------------------
(* Files of a node that are a copy of main's, or an attempt ahead of them. *)

\* What a run file on main may say.
RunResults == Failures \cup {"success", "decomposed"}

\* Attempts are numbered from 1 without a gap.
Counted(files, c) == \A k \in Nat : <<"run", k>> \in DOMAIN files <=> k \in 1 .. c

FailedRuns(files) == {k \in Numbers(files, "run") : files[<<"run", k>>] \in Failures}

\* The new files differ from the old ones by verdicts, and by what no decision below reads.
Ahead(old, new) ==
  /\ \A kind \in {"run", "fact", "pending-audit"}, k \in Nat :
       <<kind, k>> \in DOMAIN old <=> <<kind, k>> \in DOMAIN new
  /\ \A kind \in {"run", "audit-result"}, k \in Nat :
       <<kind, k>> \in DOMAIN old =>
         <<kind, k>> \in DOMAIN new /\ old[<<kind, k>>] = new[<<kind, k>>]

\* Every fact and every opened audit has the run it came from.
Orderly(files) ==
  /\ \E c \in 0 .. MaxNumber : Counted(files, c)
  /\ \A kind \in {"fact", "pending-audit"}, k \in Nat :
       <<kind, k>> \in DOMAIN files => <<"run", k>> \in DOMAIN files
  /\ \A k \in Nat : <<"run", k>> \in DOMAIN files => files[<<"run", k>>] \in RunResults
  /\ \A k \in Nat : <<"plan", k>> \in DOMAIN files => k \in 1 .. MaxNumber

\* The names of the files an attempt may write.
Added(nnn) ==
  ({"run", "fact", "pending-audit"} \X {nnn}) \cup ({"plan"} \X (1 .. MaxNumber))
    \cup {<<"unresolvable", 1>>}

\* The attempt nnn adds files, its run file among them; it neither removes nor rewrites any.
Extends(old, new, nnn) ==
  /\ \A f \in DOMAIN old : f \in DOMAIN new /\ new[f] = old[f]
  /\ \A f \in DOMAIN new : f \in DOMAIN old \/ f \in Added(nnn)
  /\ <<"run", nnn>> \in DOMAIN new
  /\ new[<<"run", nnn>>] \in RunResults

LEMMA AheadSelf ==
  ASSUME NEW files
  PROVE  Ahead(files, files)
BY DEF Ahead

LEMMA AheadOn ==
  ASSUME NEW a, NEW b, NEW c, Ahead(a, b), Ahead(b, c)
  PROVE  Ahead(a, c)
<1>1. ASSUME NEW kind \in {"run", "fact", "pending-audit"}, NEW k \in Nat
      PROVE  <<kind, k>> \in DOMAIN a <=> <<kind, k>> \in DOMAIN c
  <2>1. <<kind, k>> \in DOMAIN a <=> <<kind, k>> \in DOMAIN b
    BY DEF Ahead
  <2>2. <<kind, k>> \in DOMAIN b <=> <<kind, k>> \in DOMAIN c
    BY DEF Ahead
  <2> QED  BY <2>1, <2>2
<1>2. ASSUME NEW kind \in {"run", "audit-result"}, NEW k \in Nat, <<kind, k>> \in DOMAIN a
      PROVE  <<kind, k>> \in DOMAIN c /\ a[<<kind, k>>] = c[<<kind, k>>]
  <2>1. <<kind, k>> \in DOMAIN b /\ a[<<kind, k>>] = b[<<kind, k>>]
    BY <1>2 DEF Ahead
  <2>2. <<kind, k>> \in DOMAIN c /\ b[<<kind, k>>] = c[<<kind, k>>]
    BY <2>1 DEF Ahead
  <2> QED  BY <2>1, <2>2
<1> QED  BY <1>1, <1>2 DEF Ahead

\* Files that only people and the marker write are not looked at.
LEMMA AheadAside ==
  ASSUME NEW old, NEW new,
         \A f \in DOMAIN old \cup DOMAIN new :
            \/ f[1] \in {"plan-rejected", "unresolvable"}
            \/ f \in DOMAIN old /\ f \in DOMAIN new /\ old[f] = new[f]
  PROVE  Ahead(old, new) /\ Ahead(new, old)
<1>1. ASSUME NEW kind \in {"run", "fact", "pending-audit", "audit-result"}, NEW k \in Nat
      PROVE  /\ <<kind, k>> \in DOMAIN old <=> <<kind, k>> \in DOMAIN new
             /\ <<kind, k>> \in DOMAIN old => old[<<kind, k>>] = new[<<kind, k>>]
  <2>1. <<kind, k>>[1] \notin {"plan-rejected", "unresolvable"}
    OBVIOUS
  <2> QED  BY <2>1
<1> QED  BY <1>1 DEF Ahead

LEMMA AheadNumbers ==
  ASSUME RunsAssumption, NEW old, NEW new, Ahead(old, new),
         NEW kind \in {"run", "fact", "pending-audit"}
  PROVE  Numbers(old, kind) = Numbers(new, kind)
<1>1. \A k \in 1 .. MaxNumber : k \in Nat
  BY DEF RunsAssumption
<1>2. \A k \in 1 .. MaxNumber : <<kind, k>> \in DOMAIN old <=> <<kind, k>> \in DOMAIN new
  BY <1>1 DEF Ahead
<1> QED  BY <1>2 DEF Numbers

\* What the old files say of the result, the new ones say, too.
LEMMA AheadState ==
  ASSUME RunsAssumption, NEW old, NEW new, Ahead(old, new)
  PROVE  /\ Resolved(old) => Resolved(new)
         /\ FactState(old) = "none" => FactState(new) = "none"
<1>1. PICK k \in Nat : k = Latest(old, "fact") /\ k = Latest(new, "fact")
  <2>1. Latest(old, "fact") = Latest(new, "fact")
    BY AheadNumbers DEF Latest
  <2>2. Latest(old, "fact") \in Nat
    BY LatestIsNumber DEF RunsAssumption
  <2> QED  BY <2>1, <2>2
<1>2. <<"pending-audit", k>> \in DOMAIN old <=> <<"pending-audit", k>> \in DOMAIN new
  BY DEF Ahead
<1>3. <<"audit-result", k>> \in DOMAIN old =>
        <<"audit-result", k>> \in DOMAIN new /\ old[<<"audit-result", k>>] = new[<<"audit-result", k>>]
  BY DEF Ahead
<1> QED  BY <1>1, <1>2, <1>3 DEF FactState, Resolved

LEMMA AheadFailed ==
  ASSUME RunsAssumption, NEW old, NEW new, Ahead(old, new)
  PROVE  FailedRuns(old) = FailedRuns(new)
<1>1. Numbers(old, "run") = Numbers(new, "run")
  BY AheadNumbers
<1>2. \A k \in Numbers(old, "run") : old[<<"run", k>>] = new[<<"run", k>>]
  <2> SUFFICES ASSUME NEW k \in Numbers(old, "run")
               PROVE  old[<<"run", k>>] = new[<<"run", k>>]
    OBVIOUS
  <2>1. k \in Nat /\ <<"run", k>> \in DOMAIN old
    BY DEF Numbers, RunsAssumption
  <2> QED  BY <2>1 DEF Ahead
<1> QED  BY <1>1, <1>2 DEF FailedRuns

LEMMA AheadCounted ==
  ASSUME NEW old, NEW new, Ahead(old, new), NEW c
  PROVE  Counted(old, c) <=> Counted(new, c)
<1>1. \A k \in Nat : <<"run", k>> \in DOMAIN old <=> <<"run", k>> \in DOMAIN new
  BY DEF Ahead
<1> QED  BY <1>1 DEF Counted

\* The next number is the first one that is free.
LEMMA CountedNext ==
  ASSUME RunsAssumption, NEW files, NEW c \in 0 .. MaxNumber, Counted(files, c)
  PROVE  NextNumber(files) = c + 1
<1>1. Numbers(files, "run") = 1 .. c
  <2>1. MaxNumber \in Nat
    BY DEF RunsAssumption
  <2>2. ASSUME NEW k \in 1 .. MaxNumber
        PROVE  <<"run", k>> \in DOMAIN files <=> k \in 1 .. c
    <3>1. k \in Nat
      BY <2>1
    <3> QED  BY <3>1 DEF Counted
  <2>3. \A k \in 1 .. c : k \in 1 .. MaxNumber
    BY <2>1
  <2> QED  BY <2>2, <2>3 DEF Numbers
<1>2. c \in Nat
  BY DEF RunsAssumption
<1>3. Cardinality(1 .. c) = c
  <2>1. PICK a \in Nat : a = 1
    OBVIOUS
  <2>2. Cardinality(a .. c) = IF a > c THEN 0 ELSE c - a + 1
    BY <1>2, <2>1, FS_Interval
  <2> QED  BY <1>2, <2>1, <2>2
<1> QED  BY <1>1, <1>3 DEF NextNumber

\* A count is unique.
LEMMA CountedOnce ==
  ASSUME RunsAssumption, NEW files, Orderly(files), NEW n, n = NextNumber(files)
  PROVE  n - 1 \in 0 .. MaxNumber /\ Counted(files, n - 1)
<1>1. PICK c \in 0 .. MaxNumber : Counted(files, c)
  BY DEF Orderly
<1>2. n = c + 1
  BY <1>1, CountedNext
<1>3. n - 1 = c
  BY <1>2 DEF RunsAssumption
<1> QED  BY <1>1, <1>3

LEMMA LatestIsLast ==
  ASSUME RunsAssumption, NEW files, NEW kind, NEW k \in Numbers(files, kind)
  PROVE  k <= Latest(files, kind)
<1> DEFINE S == Numbers(files, kind) \cup {0}
<1>1. S \subseteq 0 .. MaxNumber /\ S # {} /\ k \in S
  BY DEF Numbers, RunsAssumption
<1>2. PICK x \in S : \A y \in S : y <= x
  <2> HIDE DEF S
  <2> QED  BY <1>1, GreatestNumber DEF RunsAssumption
<1>3. \A y \in S : x >= y
  BY <1>1, <1>2 DEF RunsAssumption
<1>4. \A y \in S : Max(S) >= y
  <2> HIDE DEF S
  <2> QED  BY <1>3 DEF Max
<1>5. Max(S) >= k
  BY <1>1, <1>4
<1>6. Max(S) = Latest(files, kind)
  BY DEF Latest
<1>7. Latest(files, kind) \in Int /\ k \in Int
  BY LatestIsNumber DEF RunsAssumption, Numbers
<1> QED  BY <1>5, <1>6, <1>7

\* The next plan does not overwrite one.
LEMMA NewPlan ==
  ASSUME RunsAssumption, NEW files, Latest(files, "plan") < MaxNumber,
         NEW p, p = Latest(files, "plan") + 1
  PROVE  p \in 1 .. MaxNumber /\ <<"plan", p>> \notin DOMAIN files
<1>1. Latest(files, "plan") \in 0 .. MaxNumber
  BY LatestIsNumber
<1>2. p \in 1 .. MaxNumber
  BY <1>1 DEF RunsAssumption
<1>3. SUFFICES ASSUME <<"plan", p>> \in DOMAIN files PROVE FALSE
  BY <1>2
<1>4. p \in Numbers(files, "plan")
  BY <1>2, <1>3 DEF Numbers
<1>5. p <= Latest(files, "plan")
  BY <1>4, LatestIsLast
<1> QED  BY <1>1, <1>5 DEF RunsAssumption

LEMMA ExtendedOrderly ==
  ASSUME RunsAssumption, NEW old, NEW new, NEW nnn \in 1 .. MaxNumber,
         Orderly(old), Counted(old, nnn - 1), Extends(old, new, nnn)
  PROVE  Orderly(new)
<1>1. nnn \in Nat /\ nnn - 1 \in Nat
  BY DEF RunsAssumption
<1>2. ASSUME NEW k \in Nat
      PROVE  <<"run", k>> \in DOMAIN new <=> <<"run", k>> \in DOMAIN old \/ k = nnn
  <2>1. <<"run", k>> \in Added(nnn) <=> k = nnn
    BY DEF Added
  <2> QED  BY <2>1 DEF Extends
<1>3. Counted(new, nnn)
  <2> SUFFICES ASSUME NEW k \in Nat
               PROVE  <<"run", k>> \in DOMAIN new <=> k \in 1 .. nnn
    BY DEF Counted
  <2>1. <<"run", k>> \in DOMAIN old <=> k \in 1 .. nnn - 1
    BY DEF Counted
  <2>2. k \in 1 .. nnn <=> k \in 1 .. nnn - 1 \/ k = nnn
    BY <1>1
  <2> QED  BY <1>2, <2>1, <2>2
<1>4. ASSUME NEW kind \in {"fact", "pending-audit"}, NEW k \in Nat, <<kind, k>> \in DOMAIN new
      PROVE  <<"run", k>> \in DOMAIN new
  <2>1. <<kind, k>> \in Added(nnn) => k = nnn
    BY DEF Added
  <2>2. <<kind, k>> \in DOMAIN old \/ k = nnn
    BY <1>4, <2>1 DEF Extends
  <2>3. <<kind, k>> \in DOMAIN old => <<"run", k>> \in DOMAIN old
    BY DEF Orderly
  <2> QED  BY <1>2, <2>2, <2>3
<1>5. ASSUME NEW k \in Nat, <<"run", k>> \in DOMAIN new
      PROVE  new[<<"run", k>>] \in RunResults
  <2>1. CASE k = nnn
    BY <2>1 DEF Extends
  <2>2. CASE <<"run", k>> \in DOMAIN old
    BY <2>2 DEF Extends, Orderly
  <2> QED  BY <1>2, <1>5, <2>1, <2>2
<1>6. ASSUME NEW k \in Nat, <<"plan", k>> \in DOMAIN new
      PROVE  k \in 1 .. MaxNumber
  <2>1. <<"plan", k>> \in Added(nnn) => k \in 1 .. MaxNumber
    BY DEF Added
  <2> QED  BY <1>6, <2>1 DEF Extends, Orderly
<1>7. nnn \in 0 .. MaxNumber
  BY DEF RunsAssumption
<1> QED  BY <1>3, <1>4, <1>5, <1>6, <1>7 DEF Orderly

\* A rebase without a conflict adds the attempt to what main has by then.
LEMMA RebasedExtends ==
  ASSUME NEW theirs, NEW base, NEW mine, NEW nnn, Extends(base, mine, nnn),
         <<"run", nnn>> \notin DOMAIN base, ~Conflicting(theirs, base, mine)
  PROVE  Extends(theirs, Rebased(theirs, base, mine), nnn)
<1> DEFINE own == Changed(base, mine)
           new == Rebased(theirs, base, mine)
<1>1. /\ own \subseteq DOMAIN mine
      /\ own \cap DOMAIN base = {}
      /\ own \subseteq Added(nnn)
      /\ <<"run", nnn>> \in own
  BY DEF Extends, Changed
<1>2. own \cap DOMAIN theirs = {}
  BY <1>1 DEF Conflicting, Changed
<1>3. /\ DOMAIN new = DOMAIN theirs \cup own
      /\ \A f \in DOMAIN new : new[f] = IF f \in own THEN mine[f] ELSE theirs[f]
  BY <1>1, <1>2 DEF Rebased
<1> HIDE DEF own, new
<1>4. mine[<<"run", nnn>>] \in RunResults
  BY DEF Extends
<1>5. Extends(theirs, new, nnn)
  BY <1>1, <1>2, <1>3, <1>4 DEF Extends
<1> QED  BY <1>5 DEF new

\* So does the run file of a conflict.
LEMMA ConflictExtends ==
  ASSUME NEW theirs, NEW nnn, <<"run", nnn>> \notin DOMAIN theirs
  PROVE  Extends(theirs, Over(File(<<"run", nnn>>, "merge-conflict"), theirs), nnn)
<1>1. <<"run", nnn>> \in Added(nnn) /\ "merge-conflict" \in RunResults
  BY DEF Added, RunResults, Failures
<1> QED  BY <1>1 DEF Extends, Over, File

-----------------------------------------------------------------------------
(* What an attempt adds to the files it started from.                      *)

\* The files before the run file is written.
Draft(old, new, nnn) ==
  /\ \A f \in DOMAIN old : f \in DOMAIN new /\ new[f] = old[f]
  /\ \A f \in DOMAIN new : f \in DOMAIN old \/ f \in Added(nnn) \ {<<"run", nnn>>}

LEMMA DraftMore ==
  ASSUME NEW old, NEW mid, NEW nnn, Draft(old, mid, nnn), NEW content,
         NEW f \in Added(nnn) \ {<<"run", nnn>>}, f \notin DOMAIN old
  PROVE  Draft(old, Over(File(f, content), mid), nnn)
BY DEF Draft, Over, File

LEMMA DraftLess ==
  ASSUME NEW old, NEW mid, NEW nnn, Draft(old, mid, nnn), NEW f, f \notin DOMAIN old
  PROVE  Draft(old, Without(mid, {f}), nnn)
BY DEF Draft, Without

LEMMA DraftCounted ==
  ASSUME NEW old, NEW new, NEW nnn, NEW c, Draft(old, new, nnn), Counted(old, c)
  PROVE  Counted(new, c)
<1>1. ASSUME NEW k \in Nat
      PROVE  <<"run", k>> \in DOMAIN new <=> <<"run", k>> \in DOMAIN old
  <2>1. <<"run", k>> \notin Added(nnn) \ {<<"run", nnn>>}
    BY DEF Added
  <2> QED  BY <2>1 DEF Draft
<1> QED  BY <1>1 DEF Counted

LEMMA DraftRun ==
  ASSUME NEW old, NEW mid, NEW nnn, Draft(old, mid, nnn), <<"run", nnn>> \notin DOMAIN old,
         NEW content \in RunResults
  PROVE  Extends(old, Over(File(<<"run", nnn>>, content), mid), nnn)
<1>1. <<"run", nnn>> \in Added(nnn)
  BY DEF Added
<1> QED  BY <1>1 DEF Draft, Extends, Over, File

LEMMA MarkedExtends ==
  ASSUME NEW old, NEW new, NEW nnn, Extends(old, new, nnn)
  PROVE  Extends(old, Marked(new), nnn)
<1>1. Marked(new) \in {new, Over(new, File(<<"unresolvable", 1>>, "written"))}
  BY DEF Marked
<1>2. <<"unresolvable", 1>> \in Added(nnn)
  BY DEF Added
<1>3. Extends(old, Over(new, File(<<"unresolvable", 1>>, "written")), nnn)
  BY <1>2 DEF Extends, Over, File
<1> QED  BY <1>1, <1>3

\* One plan more is the next number at most.
LEMMA OnePlanMore ==
  ASSUME RunsAssumption, NEW old, NEW new, NEW p, p = Latest(old, "plan") + 1,
         \A k \in 1 .. MaxNumber : <<"plan", k>> \in DOMAIN new => <<"plan", k>> \in DOMAIN old \/ k = p
  PROVE  Latest(new, "plan") <= p
<1> DEFINE S == Numbers(new, "plan") \cup {0}
<1>1. S \subseteq 0 .. MaxNumber /\ S # {}
  BY DEF Numbers, RunsAssumption
<1>2. Max(S) \in S
  <2> HIDE DEF S
  <2> QED  BY <1>1, BoundedMax DEF RunsAssumption
<1>3. PICK k : k = Latest(new, "plan") /\ k \in S
  BY <1>2 DEF Latest
<1>4. Latest(old, "plan") \in 0 .. MaxNumber
  BY LatestIsNumber
<1>5. CASE k = 0
  BY <1>3, <1>4, <1>5 DEF RunsAssumption
<1>6. CASE k \in Numbers(new, "plan")
  <2>1. CASE k = p
    BY <1>3, <1>4, <2>1 DEF RunsAssumption
  <2>2. CASE <<"plan", k>> \in DOMAIN old
    <3>1. k \in Numbers(old, "plan")
      BY <1>6, <2>2 DEF Numbers
    <3>2. k <= Latest(old, "plan") /\ k \in Int
      BY <3>1, LatestIsLast DEF Numbers, RunsAssumption
    <3> QED  BY <1>3, <1>4, <3>2 DEF RunsAssumption
  <2> QED  BY <1>6, <2>1, <2>2 DEF Numbers
<1> QED  BY <1>3, <1>5, <1>6

\* Planning, and what the executor writes.
LEMMA LeftDraft ==
  ASSUME RunsAssumption, NEW r \in Runners, NEW o \in Outcome,
         run[r].nnn \in 1 .. MaxNumber,
         Orderly(run[r].base), Counted(run[r].base, run[r].nnn - 1),
         Latest(run[r].base, "plan") + 2 <= MaxNumber
  PROVE  Draft(run[r].base, Left(r, o), run[r].nnn)
<1> DEFINE base == run[r].base
           nnn == run[r].nnn
           p == Latest(base, "plan") + 1
           planned == AfterPlanning(r, o)
           fact == IF o.fact THEN File(<<"fact", nnn>>, "written") ELSE NoFiles
           files == Over(fact, planned)
<1>1. /\ p \in 1 .. MaxNumber /\ <<"plan", p>> \notin DOMAIN base
      /\ p < MaxNumber
  <2>1. Latest(base, "plan") \in 0 .. MaxNumber
    BY LatestIsNumber
  <2>2. Latest(base, "plan") < MaxNumber /\ p < MaxNumber
    BY <2>1 DEF RunsAssumption
  <2> HIDE DEF base
  <2> QED  BY <2>2, NewPlan
<1>2. <<"plan", p>> \in Added(nnn) \ {<<"run", nnn>>}
  BY <1>1 DEF Added
<1>3. Draft(base, base, nnn)
  BY DEF Draft
<1>4. planned \in {base, Over(File(<<"plan", p>>, o.plan), base)}
  BY DEF AfterPlanning, PlanAfter
<1>5. Draft(base, planned, nnn)
  <2> HIDE DEF base, nnn, p, planned
  <2>1. Draft(base, Over(File(<<"plan", p>>, o.plan), base), nnn)
    BY <1>1, <1>2, <1>3, DraftMore
  <2> QED  BY <1>3, <1>4, <2>1
<1>6. <<"fact", nnn>> \notin DOMAIN base /\ <<"fact", nnn>> \in Added(nnn) \ {<<"run", nnn>>}
  <2>1. nnn \in Nat /\ nnn \notin 1 .. nnn - 1
    BY DEF RunsAssumption
  <2>2. <<"run", nnn>> \notin DOMAIN base
    BY <2>1 DEF Counted
  <2> QED  BY <2>1, <2>2 DEF Orderly, Added
<1>7. Draft(base, files, nnn)
  <2>1. CASE o.fact
    <3> HIDE DEF base, nnn, planned
    <3>1. Draft(base, Over(File(<<"fact", nnn>>, "written"), planned), nnn)
      BY <1>5, <1>6, DraftMore
    <3> QED  BY <2>1, <3>1
  <2>2. CASE ~o.fact
    <3>1. files = Over(NoFiles, planned)
      BY <2>2
    <3> HIDE DEF files, base, nnn, planned
    <3> QED  BY <1>5, <3>1 DEF Draft, Over, NoFiles
  <2> QED  BY <2>1, <2>2
<1>8. \A k \in 1 .. MaxNumber :
        <<"plan", k>> \in DOMAIN files => <<"plan", k>> \in DOMAIN base \/ k = p
  <2>1. DOMAIN planned \subseteq DOMAIN base \cup {<<"plan", p>>}
    <3> HIDE DEF base, p, planned
    <3> QED  BY <1>4 DEF Over, File
  <2>2. DOMAIN files \subseteq DOMAIN planned \cup {<<"fact", nnn>>}
    <3> HIDE DEF planned, nnn
    <3> QED  BY DEF Over, File, NoFiles
  <2> HIDE DEF files, base, p, planned, nnn
  <2> QED  BY <2>1, <2>2
<1>9. Draft(base, PlanAfter(files, "composite"), nnn)
  <2> DEFINE q == Latest(files, "plan") + 1
  <2>1. Latest(files, "plan") <= p
    <3> HIDE DEF files, base
    <3> QED  BY <1>8, OnePlanMore
  <2> HIDE DEF files
  <2>2. Latest(files, "plan") < MaxNumber
    <3>1. Latest(files, "plan") \in 0 .. MaxNumber
      BY LatestIsNumber
    <3> HIDE DEF p
    <3> QED  BY <1>1, <2>1, <3>1 DEF RunsAssumption
  <2>3. q \in 1 .. MaxNumber /\ <<"plan", q>> \notin DOMAIN files
    BY <2>2, NewPlan
  <2>4. <<"plan", q>> \in Added(nnn) \ {<<"run", nnn>>} /\ <<"plan", q>> \notin DOMAIN base
    BY <1>7, <2>3 DEF Added, Draft
  <2>5. PlanAfter(files, "composite") = Over(File(<<"plan", q>>, "composite"), files)
    BY DEF PlanAfter
  <2> HIDE DEF q, base, nnn
  <2> QED  BY <1>7, <2>4, <2>5, DraftMore
<1>10. AfterExecution(r, o) \in {files, PlanAfter(files, "composite")}
  BY DEF AfterExecution
<1>11. Left(r, o) \in {planned, AfterExecution(r, o)}
  BY DEF Left
<1> HIDE DEF files, planned, base, nnn
<1>12. Draft(base, Left(r, o), nnn)
  BY <1>5, <1>7, <1>9, <1>10, <1>11
<1> QED  BY <1>12 DEF base, nnn

\* A fact's number is the one of its run file, whichever stage counted it.
LEMMA FinishedExtends ==
  ASSUME RunsAssumption, NEW r \in Runners, NEW o \in Outcome,
         run[r].nnn \in 1 .. MaxNumber,
         Orderly(run[r].base), Counted(run[r].base, run[r].nnn - 1),
         Latest(run[r].base, "plan") + 2 <= MaxNumber
  PROVE  Extends(run[r].base, Finished(r, o), run[r].nnn)
<1> DEFINE base == run[r].base
           nnn == run[r].nnn
           files == Left(r, o)
           next == NextNumber(files)
           opened == IF Audit[run[r].node] = "required"
                     THEN File(<<"pending-audit", next>>, "written") ELSE NoFiles
           result == ResultOf(r, o)
           accepted == Over(File(<<"run", next>>, result), Over(opened, files))
           refused == Over(File(<<"run", nnn>>, result), Without(files, {<<"fact", nnn>>}))
           other == Over(File(<<"run", nnn>>, result), files)
<1>1. Draft(base, files, nnn)
  BY LeftDraft
<1>2. nnn \in Nat /\ nnn - 1 \in 0 .. MaxNumber /\ nnn - 1 + 1 = nnn /\ nnn \notin 1 .. nnn - 1
  BY DEF RunsAssumption
<1>3. /\ <<"run", nnn>> \notin DOMAIN base
      /\ <<"fact", nnn>> \notin DOMAIN base
      /\ <<"pending-audit", nnn>> \notin DOMAIN base
  <2>1. <<"run", nnn>> \notin DOMAIN base
    BY <1>2 DEF Counted
  <2> QED  BY <1>2, <2>1 DEF Orderly
<1>4. Finished(r, o) \in {Marked(accepted), Marked(refused), Marked(other)}
  BY ResultIsResult DEF Finished
<1>5. result \in RunResults
  BY ResultIsResult DEF RunResults, Failures
<1>6. next = nnn
  <2>1. Counted(base, nnn - 1)
    OBVIOUS
  <2> HIDE DEF base, nnn, files
  <2>2. Counted(files, nnn - 1)
    BY <1>1, <2>1, DraftCounted
  <2>3. NextNumber(files) = nnn - 1 + 1
    <3>1. PICK c \in 0 .. MaxNumber : c = nnn - 1
      BY <1>2
    <3>2. Counted(files, c)
      BY <2>2, <3>1
    <3>3. NextNumber(files) = c + 1
      BY <3>2, CountedNext
    <3> QED  BY <3>1, <3>3
  <2> QED  BY <1>2, <2>3
<1> HIDE DEF base, nnn, files, next, result
<1>7. Draft(base, Over(opened, files), nnn)
  <2>1. CASE Audit[run[r].node] = "required"
    <3>1. opened = File(<<"pending-audit", nnn>>, "written")
      BY <1>6, <2>1
    <3>2. <<"pending-audit", nnn>> \in Added(nnn) \ {<<"run", nnn>>}
      BY DEF Added
    <3>3. Draft(base, Over(File(<<"pending-audit", nnn>>, "written"), files), nnn)
      BY <1>1, <1>3, <3>2, DraftMore
    <3> QED  BY <3>1, <3>3
  <2>2. CASE Audit[run[r].node] # "required"
    <3>1. opened = NoFiles
      BY <2>2
    <3> HIDE DEF opened
    <3> QED  BY <1>1, <3>1 DEF Draft, Over, NoFiles
  <2> QED  BY <2>1, <2>2
<1> HIDE DEF opened
<1>8. Extends(base, accepted, nnn)
  BY <1>3, <1>5, <1>6, <1>7, DraftRun
<1>9. Draft(base, Without(files, {<<"fact", nnn>>}), nnn)
  BY <1>1, <1>3, DraftLess
<1>10. Extends(base, refused, nnn)
  BY <1>3, <1>5, <1>9, DraftRun
<1>11. Extends(base, other, nnn)
  BY <1>1, <1>3, <1>5, DraftRun
<1> HIDE DEF accepted, refused, other
<1>12. Extends(base, Finished(r, o), nnn)
  BY <1>4, <1>8, <1>10, <1>11, MarkedExtends
<1> QED  BY <1>12 DEF base, nnn

-----------------------------------------------------------------------------
(* One `mt run --auto`.                                                    *)

\* Every run is a slot of run_auto on the host s, whose checkout is on main; the verdicts
\* are given in one other checkout, and nobody invalidates.
OneAutoHost(s) ==
  /\ s \in Hosts \cap MainCheckouts
  /\ AutoRunners = Runners
  /\ \A r \in Runners : HostOf[r] = s
  /\ s \notin Auditors
  /\ \A g, h \in Auditors : g = h
  /\ Invalidators = {}

\* What git does not know in the checkout is in nobody's way: no fast-forward is refused.
NotBlocked(s) == \A u \in untracked[s] : u[2] \notin DOMAIN main[u[1]]

\* The phases in which the number of the attempt is decided, and those in which it has a base.
Numbered == {"planned", "based", "working", "publishing"}
Based == {"based", "working", "publishing"}

\* The decisions of the run x are as true of the files m on main as they were in the
\* checkout, and its files extend those it started from.
Stands(x, m) ==
  /\ x.phase \in Numbered \cup {"begun"} => Cardinality(FailedRuns(m[x.node])) < AgentRetryMax
  /\ x.phase \in Numbered =>
       /\ x.nnn \in 1 .. MaxNumber
       /\ Counted(m[x.node], x.nnn - 1)
       /\ FactState(m[x.node]) = "none"
       /\ \A d \in Deps[x.node] : Resolved(m[d])
  /\ x.phase \in Based => Ahead(x.base, m[x.node]) /\ Orderly(x.base)
  /\ x.phase = "publishing" => Extends(x.base, x.mine, x.nnn)

\* The checkout of run_auto is behind main by verdicts only, m being main and t the checkout.
Follows(t, m) == \A n \in Nodes : Ahead(t[n], m[n])

\* What git does not know there: rejected plans and the markers they lead to.
Aside(unknown) == \A u \in unknown : u[2][1] \in {"plan-rejected", "unresolvable"}

\* An auditor's checkout t has every verdict that is in m.
Seen(t, m) ==
  \A n \in Nodes, k \in Nat :
    <<"audit-result", k>> \in DOMAIN m[n] => <<"audit-result", k>> \in DOMAIN t[n]

\* No node is in two slots.
OneSlot ==
  \A q, r \in Runners :
    run[q].phase # "idle" /\ run[r].phase # "idle" /\ run[q].node = run[r].node => q = r

\* The inductive invariant of one `mt run --auto`.
AutoInv(s) ==
  /\ \A n \in Nodes : Orderly(main[n])
  /\ Follows(tree[s], main)
  /\ Aside(untracked[s])
  /\ \A h \in Auditors \cap Hosts : Seen(tree[h], main)
  /\ OneSlot
  /\ \A r \in Runners : Stands(run[r], main)

LEMMA StandsAhead ==
  ASSUME RunsAssumption, NEW x, NEW m, NEW new, x.node \in Nodes, Stands(x, m),
         \A n \in Nodes : Ahead(m[n], new[n])
  PROVE  Stands(x, new)
<1> DEFINE n == x.node
<1>1. Ahead(m[n], new[n]) /\ n \in Nodes
  OBVIOUS
<1>2. FailedRuns(m[n]) = FailedRuns(new[n])
  BY <1>1, AheadFailed
<1>3. FactState(m[n]) = "none" => FactState(new[n]) = "none"
  BY <1>1, AheadState
<1>4. \A d \in Deps[n] : Resolved(m[d]) => Resolved(new[d])
  <2> SUFFICES ASSUME NEW d \in Deps[n] PROVE Resolved(m[d]) => Resolved(new[d])
    OBVIOUS
  <2>1. d \in Nodes
    BY <1>1 DEF RunsAssumption
  <2> QED  BY <2>1, AheadState
<1>5. Counted(m[n], x.nnn - 1) => Counted(new[n], x.nnn - 1)
  BY <1>1, AheadCounted
<1>6. Ahead(x.base, m[n]) => Ahead(x.base, new[n])
  BY <1>1, AheadOn
<1> QED  BY <1>2, <1>3, <1>4, <1>5, <1>6 DEF Stands

\* The files of a node without a result change, and nobody needs it or works on it.
LEMMA StandsBeside ==
  ASSUME RunsAssumption, NEW x, NEW m, NEW new, NEW n, x.node \in Nodes, Stands(x, m),
         x.phase # "idle" => x.node # n, FactState(m[n]) = "none",
         \A k \in Nodes : k # n => new[k] = m[k]
  PROVE  x.phase \notin {"idle", "done"} => Stands(x, new)
<1> SUFFICES ASSUME x.phase \notin {"idle", "done"} PROVE Stands(x, new)
  OBVIOUS
<1>1. new[x.node] = m[x.node]
  OBVIOUS
<1>2. ASSUME NEW d \in Deps[x.node], Resolved(m[d]) PROVE Resolved(new[d])
  <2>1. d \in Nodes /\ d # n
    BY <1>2 DEF RunsAssumption, Resolved
  <2> QED  BY <1>2, <2>1
<1> QED  BY <1>1, <1>2 DEF Stands

LEMMA StandsIdle ==
  ASSUME NEW x, NEW m, x.phase \in {"idle", "done"}
  PROVE  Stands(x, m)
BY DEF Stands, Numbered, Based

\* A checkout after a fast-forward that nothing is in the way of.
LEMMA KeptAhead ==
  ASSUME NEW n, NEW t, NEW unknown, Aside(unknown), NEW files
  PROVE  Ahead(Over(Kept(n, t, unknown), files), files)
<1> DEFINE kept == Kept(n, t, unknown)
<1>1. \A f \in DOMAIN kept : f[1] \in {"plan-rejected", "unresolvable"}
  BY DEF Kept, Aside
<1> HIDE DEF kept
<1>2. /\ DOMAIN Over(kept, files) = DOMAIN kept \cup DOMAIN files
      /\ \A f \in DOMAIN files : f \notin DOMAIN kept => Over(kept, files)[f] = files[f]
  BY DEF Over
<1>3. Ahead(Over(kept, files), files)
  <2> DEFINE new == Over(kept, files)
  <2> HIDE DEF new
  <2>1. /\ DOMAIN new = DOMAIN kept \cup DOMAIN files
        /\ \A f \in DOMAIN files : f \notin DOMAIN kept => new[f] = files[f]
    BY <1>2 DEF new
  <2>2. \A f \in DOMAIN new \cup DOMAIN files :
            \/ f[1] \in {"plan-rejected", "unresolvable"}
            \/ f \in DOMAIN new /\ f \in DOMAIN files /\ new[f] = files[f]
    BY <1>1, <2>1
  <2>3. Ahead(new, files)
    BY <2>2, AheadAside
  <2> QED  BY <2>3 DEF new
<1> QED  BY <1>3 DEF kept

LEMMA SyncedFollows ==
  ASSUME NEW s \in MainCheckouts, NEW graph, NEW t, NEW unknown, Aside(unknown),
         \A u \in unknown : u[2] \notin DOMAIN graph[u[1]]
  PROVE  Follows(Synced(s, graph, t, unknown), graph)
<1>1. Synced(s, graph, t, unknown) = [n \in Nodes |-> Over(Kept(n, t[n], unknown), graph[n])]
  BY DEF Synced
<1>2. \A n \in Nodes : Ahead(Over(Kept(n, t[n], unknown), graph[n]), graph[n])
  BY KeptAhead
<1> QED  BY <1>1, <1>2 DEF Follows

\* A step of one slot that touches no file.
LEMMA SlotStep ==
  ASSUME RunsAssumption, RunsInv, NEW s, OneAutoHost(s), AutoInv(s),
         NEW r \in Runners, NEW x, run' = [run EXCEPT ![r] = x],
         x.phase = "idle" \/ (run[r].phase # "idle" /\ x.node = run[r].node),
         Stands(x, main), UNCHANGED <<main, tree, untracked>>
  PROVE  AutoInv(s)'
<1>1. run'[r] = x /\ \A q \in Runners : q # r => run'[q] = run[q]
  BY DEF RunsInv, TypeOK
<1>2. OneSlot'
  BY <1>1 DEF AutoInv, OneSlot
<1>3. \A q \in Runners : Stands(run'[q], main)
  BY <1>1 DEF AutoInv
<1> QED  BY <1>2, <1>3 DEF AutoInv

LEMMA SlotEnds ==
  ASSUME RunsAssumption, RunsInv, NEW s, OneAutoHost(s), AutoInv(s),
         NEW r \in Runners, run[r].phase # "idle", NEW result, Ends(r, result),
         UNCHANGED <<main, tree, untracked>>
  PROVE  AutoInv(s)'
<1>1. Ended(r, result).phase = "done" /\ Ended(r, result).node = run[r].node
  BY DEF Ended, Begun
<1>2. Stands(Ended(r, result), main)
  BY <1>1, StandsIdle
<1>3. run' = [run EXCEPT ![r] = Ended(r, result)]
  BY DEF Ends, Ended
<1> QED  BY <1>1, <1>2, <1>3, SlotStep

\* What preflight finds in the checkout is so on main.
LEMMA AutoPreflight ==
  ASSUME RunsAssumption, RunsInv, NEW s, OneAutoHost(s), AutoInv(s),
         NEW r \in Runners, Preflight(r)
  PROVE  AutoInv(s)'
<1> DEFINE n == run[r].node
           files == tree[s][n]
           nnn == NextNumber(files)
           x == [run[r] EXCEPT !.phase = "planned", !.nnn = nnn]
<1>1. /\ HostOf[r] = s /\ run[r].phase = "begun" /\ n \in Nodes /\ IsRun(run[r])
      /\ UNCHANGED <<main, tree, untracked>>
  BY DEF OneAutoHost, Preflight, RunsInv, TypeOK, IsRun
<1>2. CASE /\ FactState(files) = "none"
           /\ DepsResolved(s, n)
           /\ nnn <= MaxNumber
           /\ run' = [run EXCEPT ![r].phase = "planned", ![r].nnn = nnn]
  <2>1. Ahead(files, main[n]) /\ Orderly(main[n])
    BY <1>1 DEF AutoInv, Follows
  <2>2. FactState(main[n]) = "none"
    BY <1>2, <2>1, AheadState
  <2>3. \A d \in Deps[n] : Resolved(main[d])
    <3> SUFFICES ASSUME NEW d \in Deps[n] PROVE Resolved(main[d])
      OBVIOUS
    <3>1. d \in Nodes
      BY <1>1 DEF RunsAssumption
    <3>2. Ahead(tree[s][d], main[d]) /\ Resolved(tree[s][d])
      BY <1>2, <3>1 DEF AutoInv, Follows, DepsResolved
    <3> QED  BY <3>2, AheadState
  <2>4. nnn \in 1 .. MaxNumber /\ Counted(main[n], nnn - 1)
    <3>1. PICK c \in 0 .. MaxNumber : Counted(main[n], c)
      BY <2>1 DEF Orderly
    <3>2. Counted(files, c)
      BY <2>1, <3>1, AheadCounted
    <3>3. nnn = c + 1
      BY <3>2, CountedNext
    <3>4. nnn - 1 = c /\ nnn \in 1 .. MaxNumber
      BY <1>2, <3>3 DEF RunsAssumption
    <3> QED  BY <3>1, <3>4
  <2>5. Cardinality(FailedRuns(main[n])) < AgentRetryMax
    BY <1>1 DEF AutoInv, Stands
  <2>6. x.phase = "planned" /\ x.node = n /\ x.nnn = nnn
    BY <1>1 DEF IsRun
  <2>7. run' = [run EXCEPT ![r] = x]
    BY <1>2
  <2> HIDE DEF n, nnn, files, x
  <2>8. Stands(x, main)
    BY <2>2, <2>3, <2>4, <2>5, <2>6 DEF Stands, Numbered, Based
  <2> QED  BY <1>1, <2>6, <2>7, <2>8, SlotStep DEF n
<1>3. CASE Ends(r, "error")
  BY <1>1, <1>3, SlotEnds
<1> QED  BY <1>1, <1>2, <1>3 DEF Preflight

LEMMA AutoFetch ==
  ASSUME RunsAssumption, RunsInv, NEW s, OneAutoHost(s), AutoInv(s),
         NEW r \in Runners, Fetch(r)
  PROVE  AutoInv(s)'
<1> DEFINE n == run[r].node
           x == [run[r] EXCEPT !.phase = "based", !.base = main[n]]
<1>1. /\ run[r].phase = "planned" /\ n \in Nodes /\ IsRun(run[r])
      /\ UNCHANGED <<main, tree, untracked>>
      /\ run' = [run EXCEPT ![r] = x]
  BY DEF Fetch, RunsInv, TypeOK, IsRun
<1>2. x.phase = "based" /\ x.node = n /\ x.nnn = run[r].nnn /\ x.base = main[n]
  BY <1>1 DEF IsRun
<1>3. Stands(run[r], main) /\ Orderly(main[n]) /\ Ahead(main[n], main[n])
  BY <1>1, AheadSelf DEF AutoInv
<1> HIDE DEF x
<1>4. Stands(x, main)
  BY <1>1, <1>2, <1>3 DEF Stands, Numbered, Based
<1> QED  BY <1>1, <1>2, <1>4, SlotStep

LEMMA AutoAcquire ==
  ASSUME RunsAssumption, RunsInv, NEW s, OneAutoHost(s), AutoInv(s),
         NEW r \in Runners, Acquire(r)
  PROVE  AutoInv(s)'
<1> DEFINE x == [run[r] EXCEPT !.phase = "working"]
<1>1. /\ run[r].phase = "based" /\ IsRun(run[r])
      /\ UNCHANGED <<main, tree, untracked>>
  BY DEF Acquire, RunsInv, TypeOK
<1>2. CASE run' = [run EXCEPT ![r].phase = "working"]
  <2>1. run' = [run EXCEPT ![r] = x]
    BY <1>2
  <2>2. /\ x.phase = "working" /\ x.node = run[r].node /\ x.nnn = run[r].nnn
        /\ x.base = run[r].base
    BY <1>1 DEF IsRun
  <2>3. Stands(run[r], main)
    BY DEF AutoInv
  <2> HIDE DEF x
  <2>4. Stands(x, main)
    BY <1>1, <2>2, <2>3 DEF Stands, Numbered, Based
  <2> QED  BY <1>1, <2>1, <2>2, <2>4, SlotStep
<1>3. CASE Ends(r, "error")
  BY <1>1, <1>3, SlotEnds
<1> QED  BY <1>2, <1>3 DEF Acquire

LEMMA AutoWork ==
  ASSUME RunsAssumption, RunsInv, NEW s, OneAutoHost(s), AutoInv(s),
         NEW r \in Runners, Work(r)
  PROVE  AutoInv(s)'
<1>1. /\ run[r].phase = "working" /\ IsRun(run[r])
      /\ Latest(run[r].base, "plan") + 2 <= MaxNumber
      /\ UNCHANGED <<main, tree, untracked>>
  BY DEF Work, RunsInv, TypeOK
<1>2. PICK o \in Outcome :
        run' = [run EXCEPT ![r].phase = "publishing", ![r].mine = Finished(r, o),
                           ![r].result = ResultOf(r, o)]
  BY DEF Work
<1> DEFINE x == [run[r] EXCEPT !.phase = "publishing", !.mine = Finished(r, o),
                               !.result = ResultOf(r, o)]
<1>3. /\ x.phase = "publishing" /\ x.node = run[r].node /\ x.nnn = run[r].nnn
      /\ x.base = run[r].base /\ x.mine = Finished(r, o)
  BY <1>1 DEF IsRun
<1>4. run' = [run EXCEPT ![r] = x]
  BY <1>2
<1>5. Stands(run[r], main)
  BY DEF AutoInv
<1>6. /\ run[r].nnn \in 1 .. MaxNumber
      /\ Orderly(run[r].base)
      /\ Counted(run[r].base, run[r].nnn - 1)
  BY <1>1, <1>5, AheadCounted DEF Stands, Numbered, Based
<1>7. Extends(run[r].base, Finished(r, o), run[r].nnn)
  BY <1>1, <1>6, FinishedExtends
<1> HIDE DEF x
<1>8. Stands(x, main)
  BY <1>1, <1>3, <1>5, <1>7 DEF Stands, Numbered, Based
<1> QED  BY <1>1, <1>3, <1>4, <1>8, SlotStep

\* A publication adds an attempt to what main has by then.
LEMMA PublishedExtends ==
  ASSUME RunsAssumption, RunsInv, NEW s, OneAutoHost(s), AutoInv(s),
         NEW r \in Runners, Publish(r)
  PROVE  \/ UNCHANGED <<main, tree>> /\ Ends(r, "merge-conflict")
         \/ \E files, result :
              /\ Extends(main[run[r].node], files, run[r].nnn)
              /\ Push(r, files)
              /\ Ends(r, result)
<1> DEFINE n == run[r].node
           nnn == run[r].nnn
           base == run[r].base
           mine == run[r].mine
<1>1. Stands(run[r], main) /\ run[r].phase = "publishing"
  BY DEF AutoInv, Publish
<1>2. /\ nnn \in Nat /\ nnn \notin 1 .. nnn - 1
      /\ Counted(main[n], nnn - 1)
      /\ Ahead(base, main[n])
      /\ Extends(base, mine, nnn)
  BY <1>1 DEF Stands, Numbered, Based, RunsAssumption
<1>3. Counted(base, nnn - 1)
  BY <1>2, AheadCounted
<1>4. <<"run", nnn>> \notin DOMAIN main[n] /\ <<"run", nnn>> \notin DOMAIN base
  BY <1>2, <1>3 DEF Counted
<1>5. CASE /\ ~Conflicting(main[n], base, mine)
           /\ Push(r, Rebased(main[n], base, mine))
           /\ Ends(r, run[r].result)
  <2>1. Extends(main[n], Rebased(main[n], base, mine), nnn)
    BY <1>2, <1>4, <1>5, RebasedExtends
  <2> QED  BY <1>5, <2>1
<1>6. CASE /\ Push(r, Over(File(<<"run", nnn>>, "merge-conflict"), main[n]))
           /\ Ends(r, "merge-conflict")
  <2>1. Extends(main[n], Over(File(<<"run", nnn>>, "merge-conflict"), main[n]), nnn)
    BY <1>4, ConflictExtends
  <2> QED  BY <1>6, <2>1
<1>7. CASE Ends(r, "merge-conflict") /\ UNCHANGED <<main, tree, claimed>>
  BY <1>7
<1> QED  BY <1>5, <1>6, <1>7 DEF Publish

LEMMA AutoPush ==
  ASSUME RunsAssumption, RunsInv, NEW s, OneAutoHost(s), AutoInv(s), NotBlocked(s)',
         NEW r \in Runners, run[r].phase = "publishing",
         NEW files, Extends(main[run[r].node], files, run[r].nnn),
         NEW result, Push(r, files), Ends(r, result), untracked' = untracked
  PROVE  AutoInv(s)'
<1> DEFINE n == run[r].node
           nnn == run[r].nnn
           graph == [main EXCEPT ![n] = files]
<1>1. /\ HostOf[r] = s /\ s \in Hosts /\ s \in MainCheckouts /\ s \notin Auditors
      /\ n \in Nodes /\ IsRun(run[r])
  BY DEF OneAutoHost, RunsInv, TypeOK, IsRun
<1>2. /\ main' = graph
      /\ tree' = [tree EXCEPT ![s] = Synced(s, graph, tree[s], untracked[s])]
  BY <1>1 DEF Push
<1>3. graph[n] = files /\ \A k \in Nodes : k # n => graph[k] = main[k]
  BY <1>1 DEF RunsInv, TypeOK
<1> HIDE DEF graph
<1>4. /\ tree'[s] = Synced(s, graph, tree[s], untracked[s])
      /\ \A h \in Hosts : h # s => tree'[h] = tree[h]
  <2> DEFINE t == Synced(s, graph, tree[s], untracked[s])
  <2>1. tree' = [tree EXCEPT ![s] = t]
    BY <1>2
  <2> HIDE DEF t
  <2>2. tree'[s] = t /\ \A h \in Hosts : h # s => tree'[h] = tree[h]
    BY <1>1, <2>1 DEF RunsInv, TypeOK
  <2> QED  BY <2>2 DEF t
<1>5. /\ Stands(run[r], main) /\ Orderly(main[n]) /\ Aside(untracked[s])
      /\ \A h \in Auditors \cap Hosts : Seen(tree[h], main)
  BY <1>1 DEF AutoInv
<1>6. /\ nnn \in 1 .. MaxNumber
      /\ Counted(main[n], nnn - 1)
      /\ FactState(main[n]) = "none"
  BY <1>5 DEF Stands, Numbered
<1>7. \A k \in Nodes : Orderly(main'[k])
  <2>1. Orderly(files)
    BY <1>5, <1>6, ExtendedOrderly
  <2> QED  BY <1>2, <1>3, <2>1 DEF AutoInv
<1>8. Follows(tree'[s], main')
  <2>1. \A u \in untracked[s] : u[2] \notin DOMAIN graph[u[1]]
    BY <1>2 DEF NotBlocked
  <2> QED  BY <1>1, <1>2, <1>4, <1>5, <2>1, SyncedFollows
<1>9. \A h \in Auditors \cap Hosts : Seen(tree'[h], main')
  <2> SUFFICES ASSUME NEW h \in Auditors \cap Hosts, NEW m \in Nodes, NEW k \in Nat,
                      <<"audit-result", k>> \in DOMAIN graph[m]
               PROVE  <<"audit-result", k>> \in DOMAIN tree[h][m]
    BY <1>1, <1>2, <1>4 DEF Seen
  <2>1. <<"audit-result", k>> \notin Added(nnn)
    BY DEF Added
  <2>2. <<"audit-result", k>> \in DOMAIN main[m]
    BY <1>3, <2>1 DEF Extends
  <2> QED  BY <1>5, <2>2 DEF Seen
<1>10. /\ run'[r].phase = "done" /\ run'[r].node = n
       /\ \A q \in Runners : q # r => run'[q] = run[q]
  BY DEF Ends, Begun, RunsInv, TypeOK
<1>11. OneSlot'
  BY <1>10 DEF AutoInv, OneSlot
<1>12. \A q \in Runners : Stands(run'[q], main')
  <2> SUFFICES ASSUME NEW q \in Runners PROVE Stands(run'[q], main')
    OBVIOUS
  <2>1. CASE q = r \/ run[q].phase \in {"idle", "done"}
    BY <1>10, <2>1, StandsIdle
  <2>2. CASE q # r /\ run[q].phase \notin {"idle", "done"}
    <3>1. run[q].node \in Nodes /\ run[q].node # n /\ Stands(run[q], main)
      BY <2>2 DEF AutoInv, OneSlot, RunsInv, TypeOK, IsRun
    <3> HIDE DEF n
    <3>2. Stands(run[q], graph)
      BY <1>3, <1>6, <2>2, <3>1, StandsBeside
    <3> QED  BY <1>2, <1>10, <2>2, <3>2
  <2> QED  BY <2>1, <2>2
<1>13. Aside(untracked'[s])
  BY <1>5
<1> QED  BY <1>7, <1>8, <1>9, <1>11, <1>12, <1>13 DEF AutoInv

LEMMA AutoPublish ==
  ASSUME RunsAssumption, RunsInv, NEW s, OneAutoHost(s), AutoInv(s), NotBlocked(s)',
         NEW r \in Runners, Publish(r)
  PROVE  AutoInv(s)'
<1>1. run[r].phase = "publishing" /\ untracked' = untracked
  BY DEF Publish
<1>2. CASE UNCHANGED <<main, tree>> /\ Ends(r, "merge-conflict")
  BY <1>1, <1>2, SlotEnds
<1>3. ASSUME NEW files, NEW result,
             Extends(main[run[r].node], files, run[r].nnn), Push(r, files), Ends(r, result)
      PROVE  AutoInv(s)'
  BY <1>1, <1>3, AutoPush
<1> QED  BY <1>2, <1>3, PublishedExtends

\* run_auto takes a node that is in no slot, below the end of its ladder on main.
LEMMA AutoScan ==
  ASSUME RunsAssumption, RunsInv, NEW s, OneAutoHost(s), AutoInv(s),
         NEW h \in Hosts, Scan(h)
  PROVE  AutoInv(s)'
<1>1. PICK job \in [Free(h) -> Candidates(h) \cup {NoNode}] :
        /\ \A q, r \in Free(h) : job[q] = job[r] => q = r \/ job[q] = NoNode
        /\ run' = [r \in Runners |->
                     IF r \in Free(h) /\ job[r] # NoNode
                     THEN Begun(job[r], "agent") ELSE run[r]]
  BY DEF Scan
<1>2. Slots(h) = IF h = s THEN Runners ELSE {}
  BY DEF Slots, OneAutoHost
<1>3. UNCHANGED <<main, tree, untracked>>
  BY DEF Scan
<1> DEFINE Taken(r) == r \in Free(h) /\ job[r] # NoNode
<1>4. \A r \in Runners : ~Taken(r) => run'[r] = run[r]
  BY <1>1
<1>5. ASSUME NEW r \in Runners, Taken(r)
      PROVE  /\ h = s /\ run[r].phase = "idle"
             /\ job[r] \in Nodes /\ Waiting(s, job[r]) /\ job[r] \notin InFlight(s)
             /\ run'[r].phase = "begun" /\ run'[r].node = job[r]
  <2>1. run'[r] = Begun(job[r], "agent")
    BY <1>1, <1>5
  <2>2. run'[r].phase = "begun" /\ run'[r].node = job[r]
    BY <2>1 DEF Begun
  <2>3. h = s /\ run[r].phase = "idle"
    BY <1>2, <1>5 DEF Free
  <2> QED  BY <1>5, <2>2, <2>3 DEF Candidates
<1>6. \A r \in Runners : Stands(run'[r], main)
  <2> SUFFICES ASSUME NEW r \in Runners, Taken(r) PROVE Stands(run'[r], main)
    BY <1>4 DEF AutoInv
  <2> DEFINE n == job[r]
  <2>1. n \in Nodes /\ Waiting(s, n) /\ run'[r].phase = "begun" /\ run'[r].node = n
    BY <1>5
  <2> HIDE DEF n
  <2>2. FactState(tree[s][n]) = "none" /\ FailedStreak(tree[s][n]) < AgentRetryMax
    BY <2>1 DEF Waiting
  <2>3. FailedStreak(tree[s][n]) = Cardinality(FailedRuns(tree[s][n]))
    <3>1. AcceptedFact(tree[s][n]) = 0
      BY <2>2 DEF AcceptedFact, Resolved
    <3>2. \A k \in Numbers(tree[s][n], "run") : k > 0
      BY DEF Numbers, RunsAssumption
    <3> QED  BY <3>1, <3>2 DEF FailedStreak, FailedRuns
  <2>4. FailedRuns(tree[s][n]) = FailedRuns(main[n])
    BY <2>1, AheadFailed DEF AutoInv, Follows
  <2> QED  BY <2>1, <2>2, <2>3, <2>4 DEF Stands, Numbered, Based
<1>7. OneSlot'
  <2> SUFFICES ASSUME NEW q \in Runners, NEW r \in Runners,
                      run'[q].phase # "idle", run'[r].phase # "idle",
                      run'[q].node = run'[r].node
               PROVE  q = r
    BY DEF OneSlot
  <2>1. ASSUME NEW a \in Runners, NEW b \in Runners, Taken(a), ~Taken(b),
               run'[b].phase # "idle", run'[a].node = run'[b].node
        PROVE  FALSE
    <3>1. run'[b] = run[b] /\ h = s
      BY <1>4, <1>5, <2>1
    <3>2. b \in Slots(s) \ Free(s)
      BY <1>2, <2>1, <3>1 DEF Free
    <3>3. run[b].node \in InFlight(s)
      BY <3>2 DEF InFlight
    <3> QED  BY <1>5, <2>1, <3>1, <3>3
  <2>2. CASE Taken(q) /\ Taken(r)
    <3>1. job[q] = job[r]
      BY <1>5, <2>2
    <3> QED  BY <1>1, <2>2, <3>1
  <2>3. CASE ~Taken(q) /\ ~Taken(r)
    BY <1>4, <2>3 DEF AutoInv, OneSlot
  <2> HIDE DEF Taken
  <2> QED  BY <2>1, <2>2, <2>3
<1> QED  BY <1>3, <1>6, <1>7 DEF AutoInv

LEMMA AutoCollect ==
  ASSUME RunsAssumption, RunsInv, NEW s, OneAutoHost(s), AutoInv(s),
         NEW h \in Hosts, Collect(h)
  PROVE  AutoInv(s)'
<1>1. PICK r \in Slots(h) : run' = [run EXCEPT ![r] = Idle]
  BY DEF Collect
<1>2. r \in Runners
  BY <1>1 DEF Slots, RunsAssumption
<1>3. Idle.phase = "idle" /\ Stands(Idle, main)
  BY StandsIdle DEF Idle, Begun
<1>4. UNCHANGED <<main, tree, untracked>>
  BY DEF Collect
<1> QED  BY <1>1, <1>2, <1>3, <1>4, SlotStep

\* A fast-forward, refused or not, leaves an auditor the verdicts it has.
LEMMA SyncedSeen ==
  ASSUME NEW h, NEW graph, NEW t, NEW unknown, Seen(t, graph)
  PROVE  Seen(Synced(h, graph, t, unknown), graph)
<1>1. CASE Synced(h, graph, t, unknown) = t
  BY <1>1
<1>2. CASE Synced(h, graph, t, unknown) = [n \in Nodes |-> Over(Kept(n, t[n], unknown), graph[n])]
  <2>1. \A n \in Nodes : DOMAIN graph[n] \subseteq DOMAIN Over(Kept(n, t[n], unknown), graph[n])
    BY DEF Over
  <2> QED  BY <1>2, <2>1 DEF Seen
<1> QED  BY <1>1, <1>2 DEF Synced

LEMMA NewVerdict ==
  ASSUME NEW files, NEW k \in Nat, NEW content, <<"audit-result", k>> \notin DOMAIN files
  PROVE  /\ Ahead(files, Over(File(<<"audit-result", k>>, content), files))
         /\ Orderly(files) => Orderly(Over(File(<<"audit-result", k>>, content), files))
<1> DEFINE new == Over(File(<<"audit-result", k>>, content), files)
<1>1. /\ DOMAIN new = DOMAIN files \cup {<<"audit-result", k>>}
      /\ \A f \in DOMAIN files : new[f] = files[f]
  BY DEF Over, File
<1> HIDE DEF new
<1>2. \A kind \in {"run", "fact", "pending-audit", "plan"}, j \in Nat :
        <<kind, j>> \in DOMAIN new <=> <<kind, j>> \in DOMAIN files
  BY <1>1
<1>3. Ahead(files, new)
  BY <1>1, <1>2 DEF Ahead
<1>4. ASSUME Orderly(files) PROVE Orderly(new)
  <2>1. PICK c \in 0 .. MaxNumber : Counted(files, c)
    BY <1>4 DEF Orderly
  <2>2. Counted(new, c)
    BY <1>3, <2>1, AheadCounted
  <2>3. \A kind \in {"fact", "pending-audit"}, j \in Nat :
          <<kind, j>> \in DOMAIN new => <<"run", j>> \in DOMAIN new
    BY <1>2, <1>4 DEF Orderly
  <2>4. \A j \in Nat : <<"run", j>> \in DOMAIN new => new[<<"run", j>>] \in RunResults
    BY <1>1, <1>2, <1>4 DEF Orderly
  <2>5. \A j \in Nat : <<"plan", j>> \in DOMAIN new => j \in 1 .. MaxNumber
    BY <1>2, <1>4 DEF Orderly
  <2> QED  BY <2>2, <2>3, <2>4, <2>5 DEF Orderly
<1> QED  BY <1>3, <1>4 DEF new

\* A verdict is about an audit without one, on main, too: there is one auditor.
LEMMA AutoVerdict ==
  ASSUME RunsAssumption, RunsInv, NEW s, OneAutoHost(s), AutoInv(s),
         NEW h \in Hosts, NEW n \in Nodes, Verdict(h, n)
  PROVE  /\ AutoInv(s)'
         /\ \A m \in Nodes : \A f \in DOMAIN main[m] : f \in DOMAIN main'[m] /\ main'[m][f] = main[m][f]
<1>1. PICK k \in Nat : k = Latest(tree[h][n], "pending-audit")
  BY LatestIsNumber DEF RunsAssumption
<1> DEFINE name == <<"audit-result", k>>
           files == tree[h][n]
<1>2. /\ h \in Auditors /\ h # s /\ s \in Hosts
      /\ \A g \in Auditors : g = h
      /\ name \notin DOMAIN files
      /\ run' = run
  BY <1>1 DEF Verdict, OneAutoHost
<1>3. \E content :
        \/ PublishFrom(h, n, Over(File(name, content), files),
                       untracked'[h], Over(File(name, content), main[n]))
        \/ /\ tree' = [tree EXCEPT ![h][n] = Over(File(name, content), files)]
           /\ UNCHANGED main
  BY <1>1 DEF Verdict
<1>4. PICK content :
        \/ PublishFrom(h, n, Over(File(name, content), files),
                       untracked'[h], Over(File(name, content), main[n]))
        \/ /\ tree' = [tree EXCEPT ![h][n] = Over(File(name, content), files)]
           /\ UNCHANGED main
  BY <1>3
<1> DEFINE new == Over(File(name, content), files)
           published == Over(File(name, content), main[n])
           graph == [main EXCEPT ![n] = published]
           t == [tree[h] EXCEPT ![n] = new]
<1>5. /\ main = [m \in Nodes |-> main[m]]
      /\ tree = [g \in Hosts |-> tree[g]]
      /\ tree[h] = [m \in Nodes |-> tree[h][m]]
      /\ untracked = [g \in Hosts |-> untracked[g]]
  <2>1. Copies(main, tree, untracked)
    BY CopiesTyped DEF RunsInv
  <2> QED  BY <2>1 DEF Copies, IsTree
<1>6. /\ DOMAIN new = DOMAIN files \cup {name}
      /\ DOMAIN published = DOMAIN main[n] \cup {name}
  BY DEF Over, File
<1>7. Seen(tree[h], main) /\ name \notin DOMAIN main[n]
  BY <1>2 DEF AutoInv, Seen
<1>8. /\ Ahead(main[n], published)
      /\ Orderly(main[n]) => Orderly(published)
      /\ \A f \in DOMAIN main[n] : f \in DOMAIN published /\ published[f] = main[n][f]
  <2>1. \A f \in DOMAIN main[n] : f \in DOMAIN published /\ published[f] = main[n][f]
    BY <1>7 DEF Over, File
  <2> QED  BY <1>7, <2>1, NewVerdict
<1> HIDE DEF new, published
<1>9. /\ graph[n] = published /\ \A m \in Nodes : m # n => graph[m] = main[m]
      /\ t[n] = new /\ \A m \in Nodes : m # n => t[m] = tree[h][m]
  BY <1>5
<1> HIDE DEF graph, t
<1>10. /\ Seen(t, graph)
       /\ Seen(t, main)
  BY <1>6, <1>7, <1>9 DEF Seen
<1>11. \A m \in Nodes : Ahead(main[m], graph[m]) /\ (Orderly(main[m]) => Orderly(graph[m]))
  BY <1>8, <1>9, AheadSelf
<1>12. \/ /\ main' = graph
          /\ tree' = [tree EXCEPT ![h] = Synced(h, graph, t, untracked'[h])]
       \/ /\ main' = main
          /\ tree' = [tree EXCEPT ![h] = t]
  BY <1>4, <1>5 DEF PublishFrom, graph, t, new, published
<1>13. \A m \in Nodes : Ahead(main[m], main'[m]) /\ (Orderly(main[m]) => Orderly(main'[m]))
  BY <1>11, <1>12, AheadSelf
<1>14. PICK tt : tree' = [tree EXCEPT ![h] = tt] /\ Seen(tt, main')
  <2>1. Seen(Synced(h, graph, t, untracked'[h]), graph)
    BY <1>10, SyncedSeen
  <2> QED  BY <1>10, <1>12, <2>1
<1>15. tree'[h] = tt /\ tree'[s] = tree[s]
  BY <1>2, <1>5, <1>14
<1>16. untracked'[s] = untracked[s]
  BY <1>2, <1>5 DEF Verdict
<1>17. Follows(tree'[s], main')
  <2> SUFFICES ASSUME NEW m \in Nodes PROVE Ahead(tree[s][m], main'[m])
    BY <1>15 DEF Follows
  <2>1. Ahead(tree[s][m], main[m]) /\ Ahead(main[m], main'[m])
    BY <1>13 DEF AutoInv, Follows
  <2> QED  BY <2>1, AheadOn
<1>18. \A r \in Runners : Stands(run'[r], main')
  <2> SUFFICES ASSUME NEW r \in Runners PROVE Stands(run[r], main')
    BY <1>2
  <2>1. CASE run[r].phase = "idle"
    BY <2>1, StandsIdle
  <2>2. CASE run[r].phase # "idle"
    <3>1. run[r].node \in Nodes /\ Stands(run[r], main)
      BY <2>2 DEF AutoInv, RunsInv, TypeOK, IsRun
    <3> QED  BY <1>13, <3>1, StandsAhead
  <2> QED  BY <2>1, <2>2
<1>19. \A m \in Nodes : Orderly(main'[m])
  BY <1>13 DEF AutoInv
<1>20. \A g \in Auditors \cap Hosts : Seen(tree'[g], main')
  BY <1>2, <1>14, <1>15
<1>21. AutoInv(s)'
  BY <1>2, <1>16, <1>17, <1>18, <1>19, <1>20 DEF AutoInv, OneSlot
<1>22. \A m \in Nodes : \A f \in DOMAIN main[m] : f \in DOMAIN main'[m] /\ main'[m][f] = main[m][f]
  BY <1>8, <1>9, <1>12
<1> QED  BY <1>21, <1>22

\* A rejected plan stays in the checkout.
LEMMA AutoRejectPlan ==
  ASSUME RunsAssumption, RunsInv, NEW s, OneAutoHost(s), AutoInv(s),
         NEW h \in Hosts, NEW n \in Nodes, RejectPlan(h, n)
  PROVE  AutoInv(s)'
<1> DEFINE files == tree[h][n]
           name == <<"plan-rejected", Latest(files, "plan")>>
           review == Over(File(name, "written"), files)
           new == Marked(review)
           t == [tree[h] EXCEPT ![n] = new]
           unknown == untracked[h] \cup ({n} \X Changed(files, new))
<1>1. /\ tree = [g \in Hosts |-> tree[g]]
      /\ tree[h] = [m \in Nodes |-> tree[h][m]]
      /\ untracked = [g \in Hosts |-> untracked[g]]
      /\ s \in Hosts
  <2>1. Copies(main, tree, untracked)
    BY CopiesTyped DEF RunsInv
  <2> QED  BY <2>1 DEF Copies, IsTree, OneAutoHost
<1>2. /\ tree' = [tree EXCEPT ![h] = t]
      /\ untracked' = [untracked EXCEPT ![h] = unknown]
      /\ main' = main /\ run' = run
      /\ name \notin DOMAIN files
  BY DEF RejectPlan
<1>3. /\ DOMAIN review = DOMAIN files \cup {name}
      /\ \A f \in DOMAIN files : review[f] = files[f]
  BY <1>2 DEF Over, File
<1> HIDE DEF review
<1>4. /\ DOMAIN files \subseteq DOMAIN new
      /\ \A f \in DOMAIN files : new[f] = files[f]
      /\ DOMAIN new \subseteq DOMAIN files \cup {name, <<"unresolvable", 1>>}
  BY <1>3 DEF Marked, Over, File
<1> HIDE DEF new
<1>5. name[1] = "plan-rejected" /\ <<"unresolvable", 1>>[1] = "unresolvable"
  OBVIOUS
<1>6. Ahead(new, files)
  <2> HIDE DEF files, name
  <2>1. \A f \in DOMAIN new \cup DOMAIN files :
            \/ f[1] \in {"plan-rejected", "unresolvable"}
            \/ f \in DOMAIN new /\ f \in DOMAIN files /\ new[f] = files[f]
    BY <1>4, <1>5
  <2> QED  BY <2>1, AheadAside
<1>7. \A f \in Changed(files, new) : f[1] \in {"plan-rejected", "unresolvable"}
  <2> HIDE DEF files, name
  <2> QED  BY <1>4, <1>5 DEF Changed
<1>8. t[n] = new /\ \A m \in Nodes : m # n => t[m] = tree[h][m]
  BY <1>1
<1> HIDE DEF t
<1>9. tree'[h] = t /\ \A g \in Hosts : g # h => tree'[g] = tree[g]
  BY <1>1, <1>2
<1>10. Follows(tree'[s], main)
  <2>1. CASE h # s
    BY <1>1, <1>9, <2>1 DEF AutoInv
  <2>2. CASE h = s
    <3>1. Ahead(new, main[n])
      <4>1. Ahead(files, main[n])
        BY <2>2 DEF AutoInv, Follows
      <4> HIDE DEF files
      <4> QED  BY <1>6, <4>1, AheadOn
    <3> QED  BY <1>8, <1>9, <2>2, <3>1 DEF AutoInv, Follows
  <2> QED  BY <2>1, <2>2
<1>11. Aside(untracked'[s])
  <2>1. CASE h # s
    BY <1>1, <1>2, <2>1 DEF AutoInv
  <2>2. CASE h = s
    <3>1. untracked'[s] = unknown /\ Aside(untracked[s])
      BY <1>1, <1>2, <2>2 DEF AutoInv
    <3> HIDE DEF new, files
    <3> QED  BY <1>7, <2>2, <3>1 DEF Aside
  <2> QED  BY <2>1, <2>2
<1>12. \A g \in Auditors \cap Hosts : Seen(tree'[g], main)
  <2> SUFFICES ASSUME NEW g \in Auditors \cap Hosts PROVE Seen(tree'[g], main)
    OBVIOUS
  <2>1. Seen(tree[g], main)
    BY DEF AutoInv
  <2>2. CASE g # h
    BY <1>9, <2>1, <2>2
  <2>3. CASE g = h
    BY <1>4, <1>8, <1>9, <2>1, <2>3 DEF Seen
  <2> QED  BY <2>2, <2>3
<1>13. UNCHANGED <<main, run>>
  BY <1>2
<1> HIDE DEF unknown
<1> QED  BY <1>10, <1>11, <1>12, <1>13 DEF AutoInv, OneSlot

LEMMA AutoPull ==
  ASSUME RunsAssumption, RunsInv, NEW s, OneAutoHost(s), AutoInv(s),
         NEW h \in Hosts, Pull(h)
  PROVE  AutoInv(s)'
<1> DEFINE unknown == {u \in untracked[h] : u[2] \notin DOMAIN main[u[1]]}
           t == [n \in Nodes |-> Over(Kept(n, tree[h][n], unknown), main[n])]
<1>1. /\ tree = [g \in Hosts |-> tree[g]]
      /\ untracked = [g \in Hosts |-> untracked[g]]
      /\ s \in Hosts
  <2>1. Copies(main, tree, untracked)
    BY CopiesTyped DEF RunsInv
  <2> QED  BY <2>1 DEF Copies, OneAutoHost
<1>2. /\ tree' = [tree EXCEPT ![h] = t]
      /\ untracked' = [untracked EXCEPT ![h] = unknown]
      /\ UNCHANGED <<main, run>>
  BY DEF Pull
<1>3. unknown \subseteq untracked[h]
  OBVIOUS
<1>4. Aside(untracked[h]) => Follows(t, main) /\ Aside(unknown)
  <2> HIDE DEF unknown
  <2> SUFFICES ASSUME Aside(untracked[h]) PROVE Follows(t, main) /\ Aside(unknown)
    OBVIOUS
  <2>1. Aside(unknown)
    BY <1>3 DEF Aside
  <2>2. \A n \in Nodes : Ahead(Over(Kept(n, tree[h][n], unknown), main[n]), main[n])
    BY <2>1, KeptAhead
  <2> QED  BY <2>1, <2>2 DEF Follows
<1>5. Seen(t, main)
  <2> HIDE DEF unknown
  <2>1. \A n \in Nodes : DOMAIN main[n] \subseteq DOMAIN Over(Kept(n, tree[h][n], unknown), main[n])
    BY DEF Over
  <2> QED  BY <2>1 DEF Seen
<1> HIDE DEF unknown, t
<1>6. /\ tree'[h] = t /\ untracked'[h] = unknown
      /\ \A g \in Hosts : g # h => tree'[g] = tree[g] /\ untracked'[g] = untracked[g]
  BY <1>1, <1>2
<1>7. Follows(tree'[s], main) /\ Aside(untracked'[s])
  BY <1>1, <1>4, <1>6 DEF AutoInv
<1>8. \A g \in Auditors \cap Hosts : Seen(tree'[g], main)
  BY <1>5, <1>6 DEF AutoInv
<1> QED  BY <1>2, <1>7, <1>8 DEF AutoInv, OneSlot

LEMMA AutoInit ==
  ASSUME RunsAssumption, NEW s, OneAutoHost(s), Init
  PROVE  AutoInv(s)
<1>1. Orderly(NoFiles)
  <2>1. DOMAIN NoFiles = {}
    BY DEF NoFiles
  <2>2. PICK c \in 0 .. MaxNumber : c = 0
    BY DEF RunsAssumption
  <2>3. \A k \in Nat : k \notin 1 .. c
    BY <2>2
  <2>4. Counted(NoFiles, c)
    BY <2>1, <2>3 DEF Counted
  <2> QED  BY <2>1, <2>4 DEF Orderly
<1>2. \A n \in Nodes : main[n] = NoFiles
  BY DEF Init
<1>3. s \in Hosts /\ \A h \in Hosts : tree[h] = main /\ untracked[h] = {}
  BY DEF Init, OneAutoHost
<1>4. \A r \in Runners : run[r].phase = "idle"
  BY DEF Init, Idle, Begun
<1>5. Follows(tree[s], main)
  BY <1>3, AheadSelf DEF Follows
<1>6. \A r \in Runners : Stands(run[r], main)
  BY <1>4, StandsIdle
<1>7. OneSlot
  BY <1>4 DEF OneSlot
<1>8. Aside(untracked[s]) /\ \A h \in Auditors \cap Hosts : Seen(tree[h], main)
  BY <1>3 DEF Aside, Seen
<1> QED  BY <1>1, <1>2, <1>5, <1>6, <1>7, <1>8 DEF AutoInv

\* Files that main has stay on it as they are.
HistoryStays ==
  \A n \in Nodes : \A f \in DOMAIN main[n] :
    f \in DOMAIN main'[n] /\ main'[n][f] = main[n][f]

LEMMA AutoHistory ==
  ASSUME RunsAssumption, RunsInv, NEW s, OneAutoHost(s), AutoInv(s),
         NEW r \in Runners, Publish(r)
  PROVE  HistoryStays
<1>1. run[r].node \in Nodes
  BY DEF RunsInv, TypeOK, IsRun, Publish
<1>2. CASE main' = main
  BY <1>2 DEF HistoryStays
<1>3. ASSUME NEW files, Extends(main[run[r].node], files, run[r].nnn), Push(r, files)
      PROVE  HistoryStays
  <2>1. main' = [main EXCEPT ![run[r].node] = files]
    BY <1>3 DEF Push
  <2>2. \A n \in Nodes : main'[n] = IF n = run[r].node THEN files ELSE main[n]
    BY <2>1 DEF RunsInv, TypeOK
  <2> QED  BY <1>1, <1>3, <2>2 DEF HistoryStays, Extends
<1> QED  BY <1>2, <1>3, PublishedExtends

LEMMA AutoNext ==
  ASSUME RunsAssumption, RunsInv, NEW s, OneAutoHost(s), AutoInv(s), NotBlocked(s)',
         [Next]_vars
  PROVE  AutoInv(s)' /\ HistoryStays
<1>1. ASSUME main' = main PROVE HistoryStays
  BY <1>1 DEF HistoryStays
<1>2. ASSUME NEW r \in Runners, RunStep(r) PROVE AutoInv(s)' /\ HistoryStays
  <2>1. CASE Publish(r)
    BY <2>1, AutoPublish, AutoHistory
  <2>2. CASE Preflight(r) \/ Fetch(r) \/ Acquire(r) \/ Work(r)
    <3>1. main' = main
      BY <2>2 DEF Preflight, Fetch, Acquire, Work
    <3>2. AutoInv(s)'
      BY <2>2, AutoPreflight, AutoFetch, AutoAcquire, AutoWork
    <3> QED  BY <1>1, <3>1, <3>2
  <2> QED  BY <1>2, <2>1, <2>2 DEF RunStep
<1>3. ASSUME NEW r \in Runners, GitError(r) PROVE AutoInv(s)' /\ HistoryStays
  <2>1. /\ run[r].phase # "idle" /\ Ends(r, "error")
        /\ UNCHANGED <<main, tree, untracked>>
    BY <1>3 DEF GitError
  <2>2. AutoInv(s)'
    BY <2>1, SlotEnds
  <2> QED  BY <1>1, <2>1, <2>2
<1>4. \A r \in Runners : ~StartByHand(r) /\ ~Return(r)
  BY DEF OneAutoHost, StartByHand, Return
<1>5. ASSUME NEW h \in Hosts, AutoStart(h) \/ Scan(h) \/ Collect(h) \/ Pull(h)
      PROVE  AutoInv(s)' /\ HistoryStays
  <2>1. main' = main
    BY <1>5 DEF AutoStart, Scan, Collect, Pull
  <2>2. HistoryStays
    BY <1>1, <2>1
  <2>3. CASE AutoStart(h)
    <3>1. UNCHANGED <<main, tree, untracked, run>>
      BY <2>3 DEF AutoStart
    <3> QED  BY <2>2, <3>1 DEF AutoInv, OneSlot
  <2>4. CASE Scan(h)
    BY <2>2, <2>4, AutoScan
  <2>5. CASE Collect(h)
    BY <2>2, <2>5, AutoCollect
  <2>6. CASE Pull(h)
    BY <2>2, <2>6, AutoPull
  <2> QED  BY <1>5, <2>3, <2>4, <2>5, <2>6
<1>6. ASSUME NEW h \in Hosts, NEW n \in Nodes, Verdict(h, n)
      PROVE  AutoInv(s)' /\ HistoryStays
  BY <1>6, AutoVerdict DEF HistoryStays
<1>7. ASSUME NEW h \in Hosts, NEW n \in Nodes, RejectPlan(h, n)
      PROVE  AutoInv(s)' /\ HistoryStays
  <2>1. main' = main
    BY <1>7 DEF RejectPlan
  <2> QED  BY <1>1, <1>7, <2>1, AutoRejectPlan
<1>8. \A h \in Hosts, n \in Nodes : ~Invalidate(h, n)
  BY DEF OneAutoHost, Invalidate
<1>9. CASE UNCHANGED vars
  BY <1>1, <1>9 DEF vars, AutoInv, OneSlot
<1> QED  BY <1>2, <1>3, <1>4, <1>5, <1>6, <1>7, <1>8, <1>9 DEF Next

\* What a run decided in the checkout is so on main until it publishes: its number is free
\* there, its node has no result, and what it needs has one.
LEMMA AutoAlways ==
  ASSUME NEW s, OneAutoHost(s)
  PROVE  Spec /\ []NotBlocked(s) => [](RunsInv /\ AutoInv(s)) /\ [][HistoryStays]_vars
<1> USE RunsAssumption
<1>1. Init => AutoInv(s)
  BY AutoInit
<1>2. RunsInv /\ AutoInv(s) /\ [Next]_vars /\ NotBlocked(s)' => AutoInv(s)' /\ [HistoryStays]_vars
  BY AutoNext
<1>3. Spec => []RunsInv
  BY RunsInvariant
<1> QED  BY <1>1, <1>2, <1>3, PTL DEF Spec

\* A run of `mt run --auto` works only while the results it builds on stand on main, for
\* all nodes, dependencies and numbers of slots, if its checkout can be fast-forwarded, one
\* auditor gives the verdicts elsewhere, and nobody invalidates (runner.rs preflight).
THEOREM InputsStand ==
  ASSUME NEW s, OneAutoHost(s)
  PROVE  Spec /\ []NotBlocked(s) => []InputsAccepted
<1>1. RunsInv /\ AutoInv(s) => InputsAccepted
  <2> SUFFICES ASSUME RunsInv, AutoInv(s), NEW r \in Runners, Busy(r)
               PROVE  \A d \in Deps[run[r].node] : Resolved(main[d])
    BY DEF InputsAccepted
  <2>1. Stands(run[r], main)
    BY DEF AutoInv
  <2> QED  BY <2>1 DEF Stands, Numbered, Busy
<1> QED  BY <1>1, AutoAlways, PTL

\* Under the same conditions run_auto stops at the ladder's end as main has it, although it
\* counts the failures in its checkout (lib.rs failed_streak, orchestrate.rs scan).
THEOREM LaddersHold ==
  ASSUME NEW s, OneAutoHost(s)
  PROVE  Spec /\ []NotBlocked(s) => []LadderHolds
<1> USE RunsAssumption
<1>1. RunsInv /\ AutoInv(s) => LadderHolds
  <2> SUFFICES ASSUME RunsInv, AutoInv(s), NEW r \in Runners, Busy(r)
               PROVE  Attempts(run[r].base) < AgentRetryMax
    BY DEF LadderHolds, RunsAssumption
  <2> DEFINE base == run[r].base
             files == main[run[r].node]
             counted == {k \in Numbers(base, "run") :
                           /\ base[<<"run", k>>] \notin {"success", "decomposed"}
                           /\ Resolved(base) => k > Latest(base, "fact")}
  <2>1. /\ Cardinality(FailedRuns(files)) < AgentRetryMax
        /\ Ahead(base, files) /\ Orderly(base)
    BY DEF AutoInv, Stands, Numbered, Based, Busy
  <2>2. FailedRuns(base) = FailedRuns(files)
    BY <2>1, AheadFailed
  <2> HIDE DEF base, files
  <2>3. counted \subseteq FailedRuns(base)
    <3> SUFFICES ASSUME NEW k \in counted PROVE k \in FailedRuns(base)
      OBVIOUS
    <3>1. k \in Nat /\ k \in Numbers(base, "run") /\ <<"run", k>> \in DOMAIN base
      BY DEF Numbers, RunsAssumption
    <3>2. base[<<"run", k>>] \in RunResults
      BY <2>1, <3>1 DEF Orderly
    <3> QED  BY <3>1, <3>2 DEF FailedRuns, RunResults
  <2>4. IsFiniteSet(FailedRuns(base))
    <3>1. PICK a \in Nat : a = 1
      OBVIOUS
    <3>2. IsFiniteSet(a .. MaxNumber)
      BY <3>1, FS_Interval DEF RunsAssumption
    <3>3. FailedRuns(base) \subseteq a .. MaxNumber
      BY <3>1 DEF FailedRuns, Numbers
    <3> QED  BY <3>2, <3>3, FS_Subset
  <2> HIDE DEF counted
  <2>5. /\ Cardinality(counted) \in Nat /\ Cardinality(FailedRuns(base)) \in Nat
        /\ Cardinality(counted) <= Cardinality(FailedRuns(base))
    BY <2>3, <2>4, FS_Subset, FS_CardinalityType
  <2>6. Attempts(base) = Cardinality(counted)
    BY DEF Attempts, counted
  <2>7. Attempts(base) < AgentRetryMax
    BY <2>1, <2>2, <2>5, <2>6 DEF RunsAssumption
  <2> QED  BY <2>7 DEF base
<1> QED  BY <1>1, AutoAlways, PTL

\* Under the same conditions no publish of a run or of a verdict removes or rewrites a file
\* on main (signal.rs next_run_nnn, publish.rs rebase_and_push).
THEOREM HistoryStands ==
  ASSUME NEW s, OneAutoHost(s)
  PROVE  Spec /\ []NotBlocked(s) => HistoryKept
<1>1. Spec /\ []NotBlocked(s) => [][HistoryStays]_vars
  BY AutoAlways, PTL
<1>2. [HistoryStays]_vars => [HistoryStays]_main
  BY DEF vars
<1>3. Spec /\ []NotBlocked(s) => [][HistoryStays]_main
  BY <1>1, <1>2, PTL
<1> QED  BY <1>3 DEF HistoryKept, HistoryStays

\* The premise NotBlocked holds by itself where plans are rejected in other checkouts: then
\* git knows every file of the checkout of run_auto (git/compat.rs fast_forward_main).
THEOREM NothingBlocked ==
  ASSUME NEW s, OneAutoHost(s), s \notin Reviewers
  PROVE  Spec => []NotBlocked(s)
<1> DEFINE Clean == untracked[s] = {}
<1>1. Init => Clean
  BY DEF Init, OneAutoHost
<1>2. RunsInv /\ Clean /\ [Next]_vars => Clean'
  <2> SUFFICES ASSUME RunsInv, Clean, [Next]_vars PROVE Clean'
    OBVIOUS
  <2>1. s \in Hosts /\ untracked = [h \in Hosts |-> untracked[h]]
    BY DEF OneAutoHost, RunsInv, TypeOK
  <2>2. ASSUME NEW r \in Runners,
               RunStep(r) \/ GitError(r) \/ StartByHand(r) \/ Return(r)
        PROVE  untracked' = untracked
    BY <2>2 DEF RunStep, Preflight, Fetch, Acquire, Work, Publish, GitError, StartByHand, Return
  <2>3. ASSUME NEW h \in Hosts, AutoStart(h) \/ Scan(h) \/ Collect(h)
        PROVE  untracked' = untracked
    BY <2>3 DEF AutoStart, Scan, Collect
  <2>4. ASSUME NEW h \in Hosts, Pull(h) PROVE Clean'
    BY <2>1, <2>4 DEF Pull
  <2>5. ASSUME NEW h \in Hosts, NEW n \in Nodes, Verdict(h, n) \/ RejectPlan(h, n)
        PROVE  Clean'
    <3>1. h # s
      BY <2>5 DEF Verdict, RejectPlan, OneAutoHost
    <3>2. \E unknown : untracked' = [untracked EXCEPT ![h] = unknown]
      BY <2>5 DEF Verdict, RejectPlan
    <3> QED  BY <2>1, <3>1, <3>2
  <2>6. \A h \in Hosts, n \in Nodes : ~Invalidate(h, n)
    BY DEF OneAutoHost, Invalidate
  <2>7. CASE UNCHANGED vars
    BY <2>7 DEF vars
  <2> QED  BY <2>2, <2>3, <2>4, <2>5, <2>6, <2>7 DEF Next
<1>3. Clean => NotBlocked(s)
  BY DEF NotBlocked
<1> QED  BY <1>1, <1>2, <1>3, RunsInvariant, PTL DEF Spec
=============================================================================
