------------------------ MODULE CompositeTree_proofs ------------------------
(***************************************************************************)
(* Composite nodes: files that stay what they look like, for all trees,    *)
(* hosts and runners; no child without a decision that made it, as long as *)
(* the commands that create and remove nodes come from one checkout and    *)
(* reach main; results that stay, parents completed on evidence and none   *)
(* left open, as long as the runs are on one machine and people command    *)
(* in checkouts that are up to date.                                       *)
(***************************************************************************)
EXTENDS CompositeTree, FiniteSetTheorems, NumberLemmas, TLAPS

-----------------------------------------------------------------------------
(* Numbers.                                                                *)

LEMMA NumbersAreNumbers ==
  ASSUME NEW files, NEW kind
  PROVE  /\ Numbers(files, kind) \subseteq 1 .. MaxNumber
         /\ IsFiniteSet(Numbers(files, kind))
         /\ NextNumber(files) \in Nat
<1>1. ASSUME NEW k  PROVE Numbers(files, k) \subseteq 1 .. MaxNumber /\ IsFiniteSet(Numbers(files, k))
  <2>1. Numbers(files, k) \subseteq 1 .. MaxNumber /\ MaxNumber \in Nat
    BY TreeAssumption DEF Numbers, TreeAssumption
  <2>2. IsFiniteSet(1 .. MaxNumber)
    BY <2>1, FS_Interval
  <2>3. IsFiniteSet(Numbers(files, k))
    BY <2>1, <2>2, FS_Subset
  <2> QED  BY <2>1, <2>3
<1>2. Cardinality(Numbers(files, "run")) \in Nat
  BY <1>1, FS_CardinalityType
<1> QED  BY <1>1, <1>2 DEF NextNumber

LEMMA LatestIsGreatest ==
  ASSUME NEW files, NEW kind
  PROVE  /\ Latest(files, kind) \in 0 .. MaxNumber
         /\ Latest(files, kind) # 0 => <<kind, Latest(files, kind)>> \in DOMAIN files
         /\ \A k \in 1 .. MaxNumber : <<kind, k>> \in DOMAIN files => k <= Latest(files, kind)
<1> DEFINE S == Numbers(files, kind) \cup {0}
<1>1. S \subseteq 0 .. MaxNumber /\ S # {} /\ MaxNumber \in Nat
  BY TreeAssumption DEF Numbers, TreeAssumption
<1>2. PICK x \in S : \A y \in S : y <= x
  <2> HIDE DEF S
  <2> QED  BY <1>1, GreatestNumber
<1>3. \A y \in S : x >= y
  <2>1. \A y \in S : y \in Int
    BY <1>1
  <2> HIDE DEF S
  <2> QED  BY <1>2, <2>1
<1>4. Max(S) \in S /\ \A y \in S : Max(S) >= y
  <2> HIDE DEF S
  <2> QED  BY <1>3 DEF Max
<1>5. \A y \in S : y <= Max(S)
  <2>1. \A y \in S : y \in Int
    BY <1>1
  <2> HIDE DEF S
  <2> QED  BY <1>4, <2>1
<1>6. Latest(files, kind) = Max(S)
  BY DEF Latest
<1> HIDE DEF S
<1>7. Latest(files, kind) \in S /\ \A y \in S : y <= Latest(files, kind)
  BY <1>4, <1>5, <1>6
<1> QED  BY <1>1, <1>7 DEF S, Numbers

-----------------------------------------------------------------------------
(* Files and trees of them.                                                *)

FileMaps == UNION {[names -> TreeContents] : names \in SUBSET TreeNames}
Trees == [Nodes -> FileMaps]

LEMMA IsFileMap ==
  ASSUME NEW x, x = [f \in DOMAIN x |-> x[f]], DOMAIN x \subseteq TreeNames,
         \A f \in DOMAIN x : x[f] \in TreeContents
  PROVE  x \in FileMaps
BY DEF FileMaps

LEMMA FileMapIs ==
  ASSUME NEW x \in FileMaps
  PROVE  /\ x = [f \in DOMAIN x |-> x[f]] /\ DOMAIN x \subseteq TreeNames
         /\ \A f \in DOMAIN x : x[f] \in TreeContents
BY DEF FileMaps

LEMMA KnownNames ==
  /\ \A k \in Nat : \A kind \in Chain \cup {"plan", "plan-rejected", "history"} :
       <<kind, k>> \in TreeNames
  /\ \A k \in Nat : <<"plan-approved", k>> \in TreeNames
  /\ Task \in TreeNames
BY DEF TreeNames, Names

LEMMA KnownContents ==
  /\ {"success", "failed", "merge-conflict", "decomposed", "composite", "written", "weakened"}
       \subseteq TreeContents
  /\ facts \in Nat /\ facts < MaxFacts => Fact(facts + 1) \in TreeContents
<1>1. {"success", "failed", "merge-conflict", "decomposed", "composite", "written", "weakened"}
        \subseteq TreeContents
  BY DEF TreeContents, Contents, Failures
<1>2. ASSUME facts \in Nat, facts < MaxFacts  PROVE facts + 1 \in 1 .. MaxFacts
  BY <1>2, TreeAssumption DEF TreeAssumption
<1>3. ASSUME NEW k \in 1 .. MaxFacts  PROVE Fact(k) \in TreeContents
  BY DEF TreeContents
<1> QED  BY <1>1, <1>2, <1>3

LEMMA FileMap ==
  ASSUME NEW name \in TreeNames, NEW content \in TreeContents
  PROVE  File(name, content) \in FileMaps
<1> DEFINE x == File(name, content)
<1>1. /\ x = [f \in DOMAIN x |-> x[f]] /\ DOMAIN x \subseteq TreeNames
      /\ \A f \in DOMAIN x : x[f] \in TreeContents
  BY DEF File
<1> HIDE DEF x
<1>2. x \in FileMaps
  BY <1>1, IsFileMap
<1> QED  BY <1>2 DEF x

LEMMA NoFileMap == NoFiles \in FileMaps
<1>1. /\ NoFiles = [f \in DOMAIN NoFiles |-> NoFiles[f]] /\ DOMAIN NoFiles = {}
  BY DEF NoFiles
<1> HIDE DEF NoFiles
<1> QED  BY <1>1, IsFileMap

LEMMA OverMap ==
  ASSUME NEW a \in FileMaps, NEW b \in FileMaps
  PROVE  Over(a, b) \in FileMaps
<1> DEFINE x == Over(a, b)
<1>1. /\ DOMAIN a \subseteq TreeNames /\ \A f \in DOMAIN a : a[f] \in TreeContents
      /\ DOMAIN b \subseteq TreeNames /\ \A f \in DOMAIN b : b[f] \in TreeContents
  BY FileMapIs
<1>2. /\ x = [f \in DOMAIN x |-> x[f]] /\ DOMAIN x \subseteq TreeNames
      /\ \A f \in DOMAIN x : x[f] \in TreeContents
  BY <1>1 DEF Over
<1> HIDE DEF x
<1>3. x \in FileMaps
  BY <1>2, IsFileMap
<1> QED  BY <1>3 DEF x

LEMMA WithoutMap ==
  ASSUME NEW a \in FileMaps, NEW names
  PROVE  Without(a, names) \in FileMaps
<1> DEFINE x == Without(a, names)
<1>1. DOMAIN a \subseteq TreeNames /\ \A f \in DOMAIN a : a[f] \in TreeContents
  BY FileMapIs
<1>2. /\ x = [f \in DOMAIN x |-> x[f]] /\ DOMAIN x \subseteq TreeNames
      /\ \A f \in DOMAIN x : x[f] \in TreeContents
  BY <1>1 DEF Without
<1> HIDE DEF x
<1>3. x \in FileMaps
  BY <1>2, IsFileMap
<1> QED  BY <1>3 DEF x

LEMMA RebasedMap ==
  ASSUME NEW theirs \in FileMaps, NEW base, NEW mine \in FileMaps
  PROVE  Rebased(theirs, base, mine) \in FileMaps
<1> DEFINE x == Rebased(theirs, base, mine)
<1>1. /\ DOMAIN theirs \subseteq TreeNames /\ \A f \in DOMAIN theirs : theirs[f] \in TreeContents
      /\ DOMAIN mine \subseteq TreeNames /\ \A f \in DOMAIN mine : mine[f] \in TreeContents
  BY FileMapIs
<1>2. /\ x = [f \in DOMAIN x |-> x[f]] /\ DOMAIN x \subseteq TreeNames
      /\ \A f \in DOMAIN x : x[f] \in TreeContents
  BY <1>1 DEF Rebased
<1> HIDE DEF x
<1>3. x \in FileMaps
  BY <1>2, IsFileMap
<1> QED  BY <1>3 DEF x

LEMMA MarkedMap ==
  ASSUME NEW a \in FileMaps
  PROVE  Marked(a) \in FileMaps
<1>1. File(<<"unresolvable", 1>>, "written") \in FileMaps
  BY FileMap, KnownNames, KnownContents DEF Chain
<1> QED  BY <1>1, OverMap DEF Marked

LEMMA NamesOfFiles ==
  ASSUME NEW files \in FileMaps, NEW kind, Latest(files, kind) # 0
  PROVE  files[<<kind, Latest(files, kind)>>] \in TreeContents
BY LatestIsGreatest, FileMapIs

LEMMA ArchivedMap ==
  ASSUME NEW a \in FileMaps
  PROVE  Archived(a) \in FileMaps
<1> DEFINE chain == ChainOf(a)
           k == Latest(a, "fact")
           kept == IF k = 0 THEN "written" ELSE a[<<"fact", k>>]
           name == <<"history", Latest(a, "history") + 1>>
<1>1. kept \in TreeContents
  BY NamesOfFiles, KnownContents
<1>2. name \in TreeNames
  <2>1. Latest(a, "history") \in 0 .. MaxNumber /\ MaxNumber \in Nat
    BY LatestIsGreatest, TreeAssumption DEF TreeAssumption
  <2>2. Latest(a, "history") + 1 \in Nat
    BY <2>1
  <2> QED  BY <2>2, KnownNames
<1>3. Over(File(name, kept), Without(a, chain)) \in FileMaps
  <2> HIDE DEF name, kept, chain
  <2> QED  BY <1>1, <1>2, FileMap, WithoutMap, OverMap
<1>4. Archived(a) = IF chain = {} THEN a ELSE Over(File(name, kept), Without(a, chain))
  BY DEF Archived
<1> QED  BY <1>3, <1>4

LEMMA CompletedTree ==
  ASSUME NEW t \in Trees, NEW p \in Nodes, NEW fact \in TreeContents
  PROVE  Completed(t, p, fact) \in Trees
<1> DEFINE k == NextNumber(t[p])
<1>1. k \in Nat
  BY NumbersAreNumbers
<1>2. t[p] \in FileMaps
  BY DEF Trees
<1>3. Over(Over(File(<<"run", k>>, "success"), File(<<"fact", k>>, fact)), t[p]) \in FileMaps
  <2>1. <<"run", k>> \in TreeNames /\ <<"fact", k>> \in TreeNames /\ "success" \in TreeContents
    BY <1>1, KnownNames, KnownContents DEF Chain
  <2> HIDE DEF k
  <2> QED  BY <1>2, <2>1, FileMap, OverMap
<1>4. Completed(t, p, fact)
        = [t EXCEPT ![p] = Over(Over(File(<<"run", k>>, "success"), File(<<"fact", k>>, fact)), t[p])]
  BY DEF Completed, Trees
<1> QED  BY <1>3, <1>4 DEF Trees

\* One step up: the parent is completed, or the climb ends.
Climbing(s, fact) ==
    LET p == IF s.at = NoNode THEN NoNode ELSE Parent[s.at]
    IN  IF p # NoNode /\ MayComplete(s.tree, p)
        THEN [tree |-> Completed(s.tree, p, fact), at |-> p]
        ELSE [s EXCEPT !.at = NoNode]

\* Pairs of a number of steps and what a climb reached by them, closed under a step more.
ClimbsIn(Z, fact) == \A d \in Nat : \A s : <<d, s>> \in Z => <<d + 1, Climbing(s, fact)>> \in Z

\* A climb ends in such a set if it begins there.
LEMMA ClimbStays ==
  ASSUME NEW Z, NEW t, NEW n \in Nodes, NEW fact, <<0, [tree |-> t, at |-> n]>> \in Z,
         ClimbsIn(Z, fact)
  PROVE  \E s : <<Cardinality(Nodes), s>> \in Z /\ Propagated(t, n, fact) = s.tree
<1> DEFINE X == {s \in {z[2] : z \in Z} : \E d \in Nat : <<d, s>> \in Z}
           x == [tree |-> t, at |-> n]
           Step(s) == Climbing(s, fact)
           D(g) == [d \in Nat |-> IF d = 0 THEN x ELSE Step(g[d - 1])]
           F == [s \in X |-> Step(s)]
           climb == CHOOSE g : g = D(g)
<1>1. Propagated(t, n, fact) = climb[Cardinality(Nodes)].tree
  BY DEF Propagated, Climbing
<1>2. Cardinality(Nodes) \in Nat
  BY TreeAssumption, FS_CardinalityType DEF TreeAssumption
<1>3. \A s : \A d \in Nat : <<d, s>> \in Z => s \in X
  <2>1. ASSUME NEW s, NEW d \in Nat, <<d, s>> \in Z  PROVE s \in X
    <3>1. <<d, s>>[2] = s
      OBVIOUS
    <3>2. s \in {z[2] : z \in Z}
      BY <2>1, <3>1
    <3> QED  BY <2>1, <3>2
  <2> HIDE DEF X
  <2> QED  BY <2>1
<1>4. ASSUME NEW s \in X  PROVE Step(s) \in X
  <2>1. PICK d \in Nat : <<d, s>> \in Z
    BY <1>4
  <2>2. d + 1 \in Nat /\ <<d + 1, Step(s)>> \in Z
    BY <2>1 DEF ClimbsIn
  <2> HIDE DEF X, Step
  <2> QED  BY <1>3, <2>2
<1>5. x \in X /\ F \in [X -> X]
  <2>1. x \in X
    <3> HIDE DEF X
    <3> QED  BY <1>3
  <2> HIDE DEF X, Step
  <2> QED  BY <1>4, <2>1
<1>6. PICK f \in [Nat -> X] : Iterated(F, x, f)
  <2> HIDE DEF X, F, x
  <2> QED  BY <1>5, Iteration
<1>7. f = D(f)
  <2>1. ASSUME NEW d \in Nat  PROVE f[d] = IF d = 0 THEN x ELSE Step(f[d - 1])
    <3> HIDE DEF X, Step, x
    <3>1. CASE d = 0
      BY <1>6, <3>1 DEF Iterated
    <3>2. CASE d # 0
      <4>1. d - 1 \in Nat /\ d = (d - 1) + 1
        BY <3>2
      <4>2. f[(d - 1) + 1] = F[f[d - 1]] /\ f[d - 1] \in X
        BY <1>6, <4>1 DEF Iterated
      <4> QED  BY <3>2, <4>1, <4>2
    <3> QED  BY <3>1, <3>2
  <2>2. f = [d \in Nat |-> f[d]]
    BY <1>6
  <2> HIDE DEF Step, X, x
  <2> QED  BY <2>1, <2>2
<1>8. climb = D(climb)
  <2> HIDE DEF D
  <2> QED  BY <1>7
<1> HIDE DEF climb
<1> DEFINE In == {d \in Nat : <<d, climb[d]>> \in Z}
<1>9. Nat \subseteq In
  <2>1. \A d \in Nat : climb[d] = IF d = 0 THEN x ELSE Step(climb[d - 1])
    <3> HIDE DEF Step, x
    <3> QED  BY <1>8
  <2>2. 0 \in In
    BY <2>1
  <2>3. ASSUME NEW k \in Nat, k \in In  PROVE k + 1 \in In
    <3>1. k + 1 \in Nat /\ k + 1 # 0 /\ (k + 1) - 1 = k
      OBVIOUS
    <3>2. climb[k + 1] = Step(climb[k])
      <4> HIDE DEF Step, x
      <4> QED  BY <2>1, <3>1
    <3>3. <<k, climb[k]>> \in Z
      BY <2>3
    <3>4. <<k + 1, Step(climb[k])>> \in Z
      BY <3>3 DEF ClimbsIn
    <3> HIDE DEF Step
    <3> QED  BY <3>1, <3>2, <3>4
  <2> HIDE DEF In
  <2> QED  BY <2>2, <2>3, AllNumbers
<1>10. <<Cardinality(Nodes), climb[Cardinality(Nodes)]>> \in Z
  BY <1>2, <1>9
<1> QED  BY <1>1, <1>10

\* What completing a parent keeps, completing one after the other keeps.
LEMMA PropagatedStays ==
  ASSUME NEW Y, NEW t \in Y, NEW n \in Nodes, NEW fact,
         \A u \in Y, p \in Nodes : MayComplete(u, p) => Completed(u, p, fact) \in Y
  PROVE  Propagated(t, n, fact) \in Y
<1> DEFINE X == [tree : Y, at : Nodes \cup {NoNode}]
           Z == Nat \X X
<1>1. ASSUME NEW s \in X  PROVE Climbing(s, fact) \in X
  <2> DEFINE p == IF s.at = NoNode THEN NoNode ELSE Parent[s.at]
  <2>1. p \in Nodes \cup {NoNode}
    BY TreeAssumption DEF TreeAssumption
  <2>2. CASE p # NoNode /\ MayComplete(s.tree, p)
    <3>1. Climbing(s, fact) = [tree |-> Completed(s.tree, p, fact), at |-> p]
      BY <2>2 DEF Climbing
    <3>2. Completed(s.tree, p, fact) \in Y
      BY <2>1, <2>2
    <3> HIDE DEF p
    <3> QED  BY <2>1, <3>1, <3>2
  <2>3. CASE ~(p # NoNode /\ MayComplete(s.tree, p))
    <3>1. Climbing(s, fact) = [s EXCEPT !.at = NoNode]
      BY <2>3 DEF Climbing
    <3> HIDE DEF p
    <3> QED  BY <3>1
  <2> QED  BY <2>2, <2>3
<1>2. <<0, [tree |-> t, at |-> n]>> \in Z
  OBVIOUS
<1>3. ASSUME NEW d \in Nat, NEW s, <<d, s>> \in Z  PROVE <<d + 1, Climbing(s, fact)>> \in Z
  <2> HIDE DEF X
  <2> QED  BY <1>1, <1>3
<1>4. ClimbsIn(Z, fact)
  <2> HIDE DEF Z
  <2> QED  BY <1>3 DEF ClimbsIn
<1>5. PICK s : <<Cardinality(Nodes), s>> \in Z /\ Propagated(t, n, fact) = s.tree
  <2> HIDE DEF Z
  <2> QED  BY <1>2, <1>4, ClimbStays
<1> QED  BY <1>5

-----------------------------------------------------------------------------
(* What everything is.                                                     *)

Phases == {"idle", "working", "publishing"}

RunRecords ==
    [phase : Phases, node : Nodes \cup {NoNode}, nnn : Nat, base : Trees, mine : Trees]

Busy(r) == run[r].phase # "idle"

\* A run is of a node that has a task, where it started and in the worktree.
RunsOfTasks ==
    \A r \in Runners : Busy(r) => /\ run[r].node \in claimed
                                  /\ HasTask(run[r].base, run[r].node)

TypeInv ==
    /\ main \in Trees
    /\ tree \in [Hosts -> Trees]
    /\ head \in [Hosts -> Trees]
    /\ run \in [Runners -> RunRecords]
    /\ claimed \subseteq Nodes
    /\ facts \in 0 .. MaxFacts /\ mutations \in 0 .. MaxMutations /\ faults \in 0 .. MaxFaults
    /\ RunsOfTasks
    /\ \A r, s \in Runners : Busy(r) /\ Busy(s) /\ run[r].node = run[s].node => r = s

LEMMA NothingIsTree == Nothing \in Trees
<1> HIDE DEF FileMaps, NoFiles
<1> QED  BY NoFileMap DEF Nothing, Trees

LEMMA IdleRecord == IdleRun \in RunRecords
<1> HIDE DEF Trees, Nothing
<1> QED  BY NothingIsTree DEF IdleRun, RunRecords, Phases

\* A tree with other files of one node.
LEMMA TreeWith ==
  ASSUME NEW t \in Trees, NEW n \in Nodes, NEW a \in FileMaps
  PROVE  [t EXCEPT ![n] = a] \in Trees
BY DEF Trees

LEMMA BoundNumbers ==
  ASSUME NEW files, NEW kind
  PROVE  Latest(files, kind) \in Nat /\ Latest(files, kind) + 1 \in Nat
<1>1. Latest(files, kind) \in 0 .. MaxNumber /\ MaxNumber \in Nat
  BY LatestIsGreatest, TreeAssumption DEF TreeAssumption
<1> QED  BY <1>1

LEMMA ExecutedMap ==
  ASSUME NEW r \in Runners, run[r] \in RunRecords, run[r].node \in Nodes, facts \in Nat,
         NEW fact \in BOOLEAN, fact => facts < MaxFacts, NEW contract \in TreeContents
  PROVE  Executed(r, fact, contract) \in FileMaps
<1> DEFINE n == run[r].node
           files == run[r].base[n]
           own == Over(File(Task, contract), files)
           k == Latest(files, "plan") + 1
           planned == Over(File(<<"plan", k>>, "composite"), own)
           done == Over(File(<<"fact", run[r].nnn>>, Fact(facts + 1)), own)
<1>1. files \in FileMaps /\ run[r].nnn \in Nat
  BY DEF RunRecords, Trees
<1>2. own \in FileMaps
  <2> HIDE DEF files
  <2> QED  BY <1>1, FileMap, OverMap, KnownNames
<1>3. planned \in FileMaps
  <2>1. k \in Nat
    BY BoundNumbers
  <2>2. <<"plan", k>> \in TreeNames /\ "composite" \in TreeContents
    BY <2>1, KnownNames, KnownContents
  <2> HIDE DEF own, k
  <2> QED  BY <1>2, <2>2, FileMap, OverMap
<1>4. ASSUME fact  PROVE done \in FileMaps
  <2>1. <<"fact", run[r].nnn>> \in TreeNames
    BY <1>1, KnownNames DEF Chain
  <2>2. Fact(facts + 1) \in TreeContents
    BY <1>4, KnownContents
  <2> HIDE DEF own
  <2> QED  BY <1>2, <2>1, <2>2, FileMap, OverMap
<1>5. Executed(r, fact, contract)
        = CASE Planned(n) # {} -> planned
            [] Planned(n) = {} /\ fact -> done
            [] OTHER -> own
  BY DEF Executed
<1> HIDE DEF planned, done, own
<1>6. CASE Planned(n) # {}
  BY <1>3, <1>5, <1>6
<1>7. CASE Planned(n) = {} /\ fact
  BY <1>4, <1>5, <1>7
<1>8. CASE Planned(n) = {} /\ ~fact
  BY <1>2, <1>5, <1>8
<1> QED  BY <1>6, <1>7, <1>8

\* The four things a signal may do, and nothing else.
LEMMA SignalCases ==
  ASSUME NEW r \in Runners, run[r] \in RunRecords, run[r].node \in Nodes, NEW files, NEW seen
  PROVE  LET n == run[r].node
             base == run[r].base
             next == NextNumber(files)
             opened == IF Audit[n] = "required" THEN File(<<"pending-audit", next>>, "written")
                       ELSE NoFiles
             done == [base EXCEPT ![n] = Over(Over(File(<<"run", next>>, "success"), opened), files)]
         IN  \/ Signalled(r, files, seen)
                  = [base EXCEPT ![n] = Over(File(<<"run", run[r].nnn>>, "decomposed"), files)]
             \/ Signalled(r, files, seen)
                  = [base EXCEPT ![n] = Marked(Over(File(<<"run", run[r].nnn>>, "failed"),
                                                    Without(files, {<<"fact", run[r].nnn>>})))]
             \/ Signalled(r, files, seen) = done
             \/ /\ Signalled(r, files, seen) = Propagated(done, n, files[<<"fact", next>>])
                /\ <<"fact", next>> \in DOMAIN files
BY DEF Signalled

LEMMA SignalledTree ==
  ASSUME NEW r \in Runners, run[r] \in RunRecords, run[r].node \in Nodes,
         NEW files \in FileMaps, NEW seen
  PROVE  Signalled(r, files, seen) \in Trees
<1> DEFINE n == run[r].node
           base == run[r].base
           nnn == run[r].nnn
           next == NextNumber(files)
           opened == IF Audit[n] = "required" THEN File(<<"pending-audit", next>>, "written")
                     ELSE NoFiles
           finished == Over(Over(File(<<"run", next>>, "success"), opened), files)
           planned == Over(File(<<"run", nnn>>, "decomposed"), files)
           refused == Marked(Over(File(<<"run", nnn>>, "failed"), Without(files, {<<"fact", nnn>>})))
<1>1. base \in Trees /\ nnn \in Nat /\ next \in Nat /\ n \in Nodes
  BY NumbersAreNumbers DEF RunRecords
<1>2. /\ <<"run", next>> \in TreeNames /\ <<"run", nnn>> \in TreeNames
      /\ <<"pending-audit", next>> \in TreeNames
      /\ {"written", "success", "decomposed", "failed"} \subseteq TreeContents
  BY <1>1, KnownNames, KnownContents DEF Chain
<1> HIDE DEF next, nnn, base, n
<1>3. opened \in FileMaps
  BY <1>2, FileMap, NoFileMap
<1>4. finished \in FileMaps
  <2> HIDE DEF opened
  <2> QED  BY <1>2, <1>3, FileMap, OverMap
<1>5. planned \in FileMaps
  BY <1>2, FileMap, OverMap
<1>6. refused \in FileMaps
  BY <1>2, FileMap, WithoutMap, OverMap, MarkedMap
<1> DEFINE done == [base EXCEPT ![n] = finished]
<1>7. /\ done \in Trees
      /\ [base EXCEPT ![n] = planned] \in Trees
      /\ [base EXCEPT ![n] = refused] \in Trees
  <2> HIDE DEF finished, planned, refused
  <2> QED  BY <1>1, <1>4, <1>5, <1>6, TreeWith
<1>8. ASSUME <<"fact", next>> \in DOMAIN files
      PROVE  Propagated(done, n, files[<<"fact", next>>]) \in Trees
  <2>1. files[<<"fact", next>>] \in TreeContents
    BY <1>8, FileMapIs
  <2>2. \A u \in Trees, p \in Nodes : Completed(u, p, files[<<"fact", next>>]) \in Trees
    BY <2>1, CompletedTree
  <2> HIDE DEF done
  <2> QED  BY <1>1, <1>7, <2>2, PropagatedStays
<1>9. \/ Signalled(r, files, seen) = [base EXCEPT ![n] = planned]
      \/ Signalled(r, files, seen) = [base EXCEPT ![n] = refused]
      \/ Signalled(r, files, seen) = done
      \/ /\ Signalled(r, files, seen) = Propagated(done, n, files[<<"fact", next>>])
         /\ <<"fact", next>> \in DOMAIN files
  BY SignalCases DEF next, nnn, base, n
<1> HIDE DEF done, planned, refused
<1> QED  BY <1>7, <1>8, <1>9

LEMMA CheckoutTrees ==
  ASSUME NEW h \in Hosts, NEW now \in Trees, NEW files \in Trees,
         tree \in [Hosts -> Trees], head \in [Hosts -> Trees], Checkout(h, now, files)
  PROVE  tree' \in [Hosts -> Trees] /\ head' \in [Hosts -> Trees]
<1> DEFINE merged == [n \in Nodes |-> Rebased(now[n], head[h][n], files[n])]
<1>1. merged \in Trees
  <2>1. ASSUME NEW n \in Nodes  PROVE Rebased(now[n], head[h][n], files[n]) \in FileMaps
    BY RebasedMap DEF Trees
  <2> QED  BY <2>1 DEF Trees
<1>2. \/ tree' = [tree EXCEPT ![h] = merged] /\ head' = [head EXCEPT ![h] = now]
      \/ tree' = [tree EXCEPT ![h] = files] /\ head' = head
  BY DEF Checkout
<1> HIDE DEF merged
<1> QED  BY <1>1, <1>2

\* Of a command: what it leaves in the checkout, what it takes from main and puts there.
LEMMA PublishTrees ==
  ASSUME NEW h \in Hosts, NEW files \in Trees, NEW gone, NEW present \in Trees,
         TypeInv, PublishFrom(h, files, gone, present)
  PROVE  /\ main' \in Trees /\ tree' \in [Hosts -> Trees] /\ head' \in [Hosts -> Trees]
         /\ faults' \in 0 .. MaxFaults
<1> DEFINE now == [n \in Nodes |-> Over(present[n], Without(main[n], gone[n]))]
<1>1. now \in Trees
  <2>1. ASSUME NEW n \in Nodes  PROVE Over(present[n], Without(main[n], gone[n])) \in FileMaps
    BY WithoutMap, OverMap DEF Trees, TypeInv
  <2> QED  BY <2>1 DEF Trees
<1>2. CASE main' = now /\ Checkout(h, main', files) /\ UNCHANGED faults
  <2> HIDE DEF now
  <2>1. tree' \in [Hosts -> Trees] /\ head' \in [Hosts -> Trees]
    BY <1>1, <1>2, CheckoutTrees DEF TypeInv
  <2> QED  BY <1>1, <1>2, <2>1 DEF TypeInv
<1>3. CASE /\ faults < MaxFaults
           /\ faults' = faults + 1
           /\ tree' = [tree EXCEPT ![h] = files]
           /\ UNCHANGED <<main, head>>
  <2>1. faults' \in 0 .. MaxFaults
    BY <1>3, TreeAssumption DEF TypeInv, TreeAssumption
  <2> QED  BY <1>3, <2>1 DEF TypeInv
<1> QED  BY <1>2, <1>3 DEF PublishFrom

\* A command leaves runs and claims alone.
LEMMA CommandTypes ==
  ASSUME TypeInv, UNCHANGED <<claimed, run, facts>>, mutations' \in 0 .. MaxMutations,
         NEW h \in Hosts, NEW files \in Trees, NEW gone, NEW present \in Trees,
         PublishFrom(h, files, gone, present)
  PROVE  TypeInv'
<1>1. /\ main' \in Trees /\ tree' \in [Hosts -> Trees] /\ head' \in [Hosts -> Trees]
      /\ faults' \in 0 .. MaxFaults
  BY PublishTrees
<1> HIDE DEF Trees, RunRecords
<1> QED  BY <1>1 DEF TypeInv, RunsOfTasks, Busy
LEMMA PartTree ==
  ASSUME NEW t \in Trees, NEW nodes
  PROVE  Part(t, nodes) \in Trees
<1> HIDE DEF FileMaps, NoFiles
<1> QED  BY NoFileMap DEF Part, Trees

LEMMA TypesInit == TreeInit => TypeInv
<1> SUFFICES ASSUME TreeInit PROVE TypeInv
  OBVIOUS
<1> DEFINE task == File(Task, "written")
           plan == Over(File(<<"plan", 1>>, "composite"), File(<<"plan-approved", 1>>, "written"))
<1>1. task \in FileMaps /\ plan \in FileMaps /\ Over(task, plan) \in FileMaps
  <2>1. <<"plan", 1>> \in TreeNames /\ <<"plan-approved", 1>> \in TreeNames
    BY KnownNames
  <2> QED  BY <2>1, FileMap, OverMap, KnownNames, KnownContents
<1>2. main = [n \in Nodes |-> IF n \in Grown THEN Over(task, plan)
                              ELSE IF Parent[n] = NoNode \/ Parent[n] \in Grown THEN task
                              ELSE NoFiles]
  BY DEF TreeInit
<1> HIDE DEF task, plan, FileMaps
<1>3. main \in Trees
  BY <1>1, <1>2, NoFileMap DEF Trees
<1>4. IdleRun.phase = "idle"
  BY DEF IdleRun
<1>5. 0 \in 0 .. MaxFacts /\ 0 \in 0 .. MaxMutations /\ 0 \in 0 .. MaxFaults
  BY TreeAssumption DEF TreeAssumption
<1> HIDE DEF Trees, RunRecords, IdleRun
<1> QED  BY <1>3, <1>4, <1>5, IdleRecord DEF TreeInit, TypeInv, RunsOfTasks, Busy

LEMMA TypesApprove ==
  ASSUME TypeInv, NEW h \in Hosts, NEW n \in Nodes, Approve(h, n)
  PROVE  TypeInv'
<1> DEFINE k == Latest(tree[h][n], "plan")
           born == [c \in Nodes |->
                      IF c \in Planned(n) /\ ~HasTask(tree[h], c)
                      THEN Over(File(Task, "written"), tree[h][c]) ELSE tree[h][c]]
           approved == File(<<"plan-approved", k>>, "written")
           new == [born EXCEPT ![n] = Over(approved, @)]
<1>1. tree[h] \in Trees
  BY DEF TypeInv
<1>2. approved \in FileMaps
  BY BoundNumbers, FileMap, KnownNames, KnownContents
<1>3. born \in Trees
  <2>1. ASSUME NEW c \in Nodes  PROVE born[c] \in FileMaps
    <3>1. tree[h][c] \in FileMaps /\ File(Task, "written") \in FileMaps
      BY <1>1, FileMap, KnownNames, KnownContents DEF Trees
    <3> HIDE DEF FileMaps
    <3> QED  BY <3>1, OverMap
  <2> QED  BY <2>1 DEF Trees
<1>4. new \in Trees
  <2> HIDE DEF born, approved
  <2>1. born[n] \in FileMaps /\ new = [born EXCEPT ![n] = Over(approved, born[n])]
    BY <1>3 DEF Trees
  <2> HIDE DEF new
  <2> QED  BY <1>2, <1>3, <2>1, OverMap, TreeWith
<1>5. ApprovedFiles(new, n) \in Trees
  <2> DEFINE part == Part(new, UNION {Below(c) : c \in Planned(n)})
             verdict == File(<<"plan-approved", Latest(new[n], "plan")>>, "written")
  <2>1. part \in Trees
    <3> HIDE DEF new
    <3> QED  BY <1>4, PartTree
  <2>2. verdict \in FileMaps
    <3> HIDE DEF new
    <3> QED  BY BoundNumbers, FileMap, KnownNames, KnownContents
  <2>3. ApprovedFiles(new, n) = [part EXCEPT ![n] = verdict]
    BY DEF ApprovedFiles
  <2> HIDE DEF part, verdict
  <2> QED  BY <2>1, <2>2, <2>3, TreeWith
<1>6. PublishFrom(h, new, NoNames, ApprovedFiles(new, n)) /\ UNCHANGED <<claimed, run, facts, mutations>>
  BY DEF Approve
<1>7. mutations' \in 0 .. MaxMutations
  BY <1>6 DEF TypeInv
<1> HIDE DEF new
<1> QED  BY <1>4, <1>5, <1>6, <1>7, CommandTypes

LEMMA TypesVerdict ==
  ASSUME TypeInv, NEW h \in Hosts, NEW n \in Nodes, Verdict(h, n)
  PROVE  TypeInv'
<1> DEFINE name == <<"audit-result", Latest(tree[h][n], "pending-audit")>>
<1>1. PICK result \in {"success", "failed"} :
        PublishFrom(h, [tree[h] EXCEPT ![n] = Over(File(name, result), @)], NoNames,
                    [Nothing EXCEPT ![n] = File(name, result)])
  BY DEF Verdict
<1>2. File(name, result) \in FileMaps
  <2>1. name \in TreeNames
    BY BoundNumbers, KnownNames DEF Chain
  <2> HIDE DEF name
  <2> QED  BY <2>1, FileMap, KnownContents
<1> HIDE DEF name
<1>3. tree[h] \in Trees /\ tree[h][n] \in FileMaps
  BY DEF TypeInv, Trees
<1>4. [tree[h] EXCEPT ![n] = Over(File(name, result), @)] \in Trees
  <2>1. [tree[h] EXCEPT ![n] = Over(File(name, result), @)]
          = [tree[h] EXCEPT ![n] = Over(File(name, result), tree[h][n])]
    BY <1>3 DEF Trees
  <2> QED  BY <1>2, <1>3, <2>1, OverMap, TreeWith
<1>5. [Nothing EXCEPT ![n] = File(name, result)] \in Trees
  BY <1>2, NothingIsTree, TreeWith
<1>6. UNCHANGED <<claimed, run, facts>> /\ mutations' \in 0 .. MaxMutations
  BY DEF Verdict, TypeInv
<1> QED  BY <1>1, <1>4, <1>5, <1>6, CommandTypes

LEMMA MutationCounted ==
  ASSUME TypeInv, mutations < MaxMutations, mutations' = mutations + 1
  PROVE  mutations' \in 0 .. MaxMutations
BY TreeAssumption DEF TypeInv, TreeAssumption

LEMMA TypesInvalidate ==
  ASSUME TypeInv, NEW h \in Hosts, NEW n \in Nodes, Invalidate(h, n)
  PROVE  TypeInv'
<1> DEFINE reached == Cascade(tree[h], n)
           new == [m \in Nodes |-> IF m \in reached THEN Archived(tree[h][m]) ELSE tree[h][m]]
<1>1. new \in Trees
  <2>1. \A m \in Nodes : tree[h][m] \in FileMaps /\ Archived(tree[h][m]) \in FileMaps
    BY ArchivedMap DEF TypeInv, Trees
  <2> HIDE DEF FileMaps
  <2> QED  BY <2>1 DEF Trees
<1>2. PublishFrom(h, new, Gone(tree[h], new), Republished(tree[h], new, n))
  BY DEF Invalidate
<1>3. UNCHANGED <<claimed, run, facts>> /\ mutations < MaxMutations /\ mutations' = mutations + 1
  BY DEF Invalidate
<1> HIDE DEF new
<1>4. Republished(tree[h], new, n) \in Trees
  BY <1>1, PartTree DEF Republished
<1> QED  BY <1>1, <1>2, <1>3, <1>4, MutationCounted, CommandTypes

LEMMA TypesKill ==
  ASSUME TypeInv, NEW h \in Hosts, NEW n \in Nodes, Kill(h, n)
  PROVE  TypeInv'
<1> DEFINE new == [m \in Nodes |-> IF m \in Below(n) THEN NoFiles ELSE tree[h][m]]
<1>1. new \in Trees
  <2>1. \A m \in Nodes : tree[h][m] \in FileMaps /\ NoFiles \in FileMaps
    BY NoFileMap DEF TypeInv, Trees
  <2> HIDE DEF FileMaps, NoFiles
  <2> QED  BY <2>1 DEF Trees
<1>2. PublishFrom(h, new, Gone(tree[h], new), Nothing)
  BY DEF Kill
<1>3. UNCHANGED <<claimed, run, facts>> /\ mutations < MaxMutations /\ mutations' = mutations + 1
  BY DEF Kill
<1> HIDE DEF new
<1> QED  BY <1>1, <1>2, <1>3, NothingIsTree, MutationCounted, CommandTypes

LEMMA TypesStart ==
  ASSUME TypeInv, NEW r \in Runners, Start(r)
  PROVE  TypeInv'
<1>1. PICK n \in Nodes \ claimed :
        /\ HasTask(main, n)
        /\ claimed' = claimed \cup {n}
        /\ run' = [run EXCEPT ![r] =
             [phase |-> "working", node |-> n, nnn |-> NextNumber(tree[HostOf[r]][n]),
              base |-> main, mine |-> main]]
  BY DEF Start, Claimable
<1> DEFINE started == [phase |-> "working", node |-> n, nnn |-> NextNumber(tree[HostOf[r]][n]),
                       base |-> main, mine |-> main]
<1>2. started \in RunRecords
  BY NumbersAreNumbers DEF TypeInv, RunRecords, Phases
<1>3. started.phase = "working" /\ started.node = n /\ started.base = main
  OBVIOUS
<1>4. run' = [run EXCEPT ![r] = started]
  BY <1>1
<1> HIDE DEF started, Trees
<1>5. run' \in [Runners -> RunRecords]
  <2> HIDE DEF RunRecords
  <2> QED  BY <1>2, <1>4 DEF TypeInv
<1>6. run'[r] = started /\ \A s \in Runners : s # r => run'[s] = run[s]
  BY <1>4 DEF TypeInv
<1>7. RunsOfTasks'
  BY <1>1, <1>3, <1>6 DEF TypeInv, RunsOfTasks, Busy
<1>8. \A s \in Runners : s # r /\ Busy(s) => run[s].node # n
  BY DEF TypeInv, RunsOfTasks
<1>9. \A s, q \in Runners : Busy(s)' /\ Busy(q)' /\ run'[s].node = run'[q].node => s = q
  BY <1>3, <1>6, <1>8 DEF TypeInv, Busy
<1> HIDE DEF RunRecords
<1> QED  BY <1>1, <1>5, <1>7, <1>9 DEF TypeInv, Start, limits

LEMMA TypesFinish ==
  ASSUME TypeInv, NEW r \in Runners, Finish(r)
  PROVE  TypeInv'
<1> DEFINE n == run[r].node
<1>1. PICK fact \in BOOLEAN, weaken \in {FALSE, MayWeaken}, seen \in {run[r].base[n], main[n]} :
        /\ fact => facts < MaxFacts /\ Planned(n) = {}
        /\ facts' = IF fact THEN facts + 1 ELSE facts
        /\ run' = [run EXCEPT
             ![r].phase = "publishing",
             ![r].mine = Signalled(r, Executed(r, fact,
                 IF weaken THEN "weakened" ELSE run[r].base[n][Task]), seen)]
  BY DEF Finish
<1> DEFINE contract == IF weaken THEN "weakened" ELSE run[r].base[n][Task]
           made == Signalled(r, Executed(r, fact, contract), seen)
           finished == [run[r] EXCEPT !.phase = "publishing", !.mine = made]
<1>2. Busy(r) /\ run[r] \in RunRecords
  BY DEF Finish, TypeInv, Busy
<1>3. n \in Nodes /\ HasTask(run[r].base, n)
  BY <1>2 DEF TypeInv, RunsOfTasks
<1>4. contract \in TreeContents
  <2>1. run[r].base[n] \in FileMaps
    BY <1>2, <1>3 DEF RunRecords, Trees
  <2>2. run[r].base[n][Task] \in TreeContents
    BY <1>3, <2>1, FileMapIs DEF HasTask
  <2> QED  BY <2>2, KnownContents
<1>5. facts \in Nat /\ facts' \in 0 .. MaxFacts
  BY <1>1, TreeAssumption DEF TypeInv, TreeAssumption
<1>6. Executed(r, fact, contract) \in FileMaps
  <2> HIDE DEF contract, FileMaps, RunRecords
  <2> QED  BY <1>1, <1>2, <1>3, <1>4, <1>5, ExecutedMap
<1>7. made \in Trees
  <2> HIDE DEF contract, Trees, FileMaps, RunRecords
  <2> QED  BY <1>2, <1>3, <1>6, SignalledTree
<1>8. run' = [run EXCEPT ![r].phase = "publishing", ![r].mine = made]
  BY <1>1
<1> HIDE DEF made, contract
<1>9. run' = [run EXCEPT ![r] = finished]
  BY <1>8 DEF TypeInv
<1>10. /\ finished \in RunRecords /\ finished.phase = "publishing"
       /\ finished.node = run[r].node /\ finished.base = run[r].base
  <2> HIDE DEF Trees
  <2> QED  BY <1>2, <1>7 DEF RunRecords, Phases
<1> HIDE DEF finished, n, Trees
<1>11. run' \in [Runners -> RunRecords]
  <2> HIDE DEF RunRecords
  <2> QED  BY <1>9, <1>10 DEF TypeInv
<1>12. run'[r] = finished /\ \A s \in Runners : s # r => run'[s] = run[s]
  BY <1>9 DEF TypeInv
<1>13. \A s \in Runners : /\ Busy(s)' => Busy(s)
                          /\ run'[s].node = run[s].node /\ run'[s].base = run[s].base
  <2>1. ASSUME NEW s \in Runners
        PROVE  /\ Busy(s)' => Busy(s)
               /\ run'[s].node = run[s].node /\ run'[s].base = run[s].base
    <3>1. CASE s = r
      BY <1>2, <1>10, <1>12, <3>1
    <3>2. CASE s # r
      BY <1>12, <3>2 DEF Busy
    <3> QED  BY <3>1, <3>2
  <2> QED  BY <2>1
<1>14. RunsOfTasks'
  BY <1>13 DEF TypeInv, RunsOfTasks, Finish
<1>15. \A s, q \in Runners : Busy(s)' /\ Busy(q)' /\ run'[s].node = run'[q].node => s = q
  BY <1>13 DEF TypeInv
<1> HIDE DEF RunRecords
<1> QED  BY <1>5, <1>11, <1>14, <1>15 DEF TypeInv, Finish

\* A run that is over.
LEMMA TypesOver ==
  ASSUME TypeInv, NEW r \in Runners, run' = [run EXCEPT ![r] = IdleRun],
         claimed' \in {claimed, claimed \ {run[r].node}},
         Busy(r) \/ claimed' = claimed
  PROVE  /\ run' \in [Runners -> RunRecords] /\ claimed' \subseteq Nodes
         /\ RunsOfTasks'
         /\ \A s, q \in Runners : Busy(s)' /\ Busy(q)' /\ run'[s].node = run'[q].node => s = q
<1> HIDE DEF Trees, RunRecords
<1>1. IdleRun \in RunRecords /\ IdleRun.phase = "idle"
  BY IdleRecord DEF IdleRun
<1> HIDE DEF IdleRun
<1>2. run' \in [Runners -> RunRecords]
  BY <1>1 DEF TypeInv
<1>3. run'[r] = IdleRun /\ \A s \in Runners : s # r => run'[s] = run[s]
  BY DEF TypeInv
<1>4. \A s \in Runners : Busy(s)' => s # r /\ run'[s] = run[s] /\ Busy(s)
  BY <1>1, <1>3 DEF Busy
<1>5. \A s \in Runners : Busy(s)' => run[s].node \in claimed'
  BY <1>4 DEF TypeInv, RunsOfTasks
<1>6. RunsOfTasks'
  BY <1>4, <1>5 DEF TypeInv, RunsOfTasks
<1>7. \A s, q \in Runners : Busy(s)' /\ Busy(q)' /\ run'[s].node = run'[q].node => s = q
  BY <1>4 DEF TypeInv
<1> QED  BY <1>2, <1>6, <1>7 DEF TypeInv

LEMMA TypesDie ==
  ASSUME TypeInv, NEW r \in Runners, Die(r)
  PROVE  TypeInv'
<1>1. run' = [run EXCEPT ![r] = IdleRun] /\ claimed' = claimed
  BY DEF Die
<1>2. faults' \in 0 .. MaxFaults
  BY TreeAssumption DEF Die, TypeInv, TreeAssumption
<1> HIDE DEF Trees, RunRecords
<1>3. /\ run' \in [Runners -> RunRecords] /\ claimed' \subseteq Nodes
      /\ RunsOfTasks'
      /\ \A s, q \in Runners : Busy(s)' /\ Busy(q)' /\ run'[s].node = run'[q].node => s = q
  BY <1>1, TypesOver
<1> QED  BY <1>2, <1>3 DEF TypeInv, Die

\* What a run leaves on main: its failure alone, or its worktree on top of main.
LEMMA PublishedIs ==
  ASSUME NEW r \in Runners, PublishRun(r)
  PROVE  LET n == run[r].node
             failure == File(<<"run", run[r].nnn>>, "merge-conflict")
             rebased == [m \in Nodes |-> Rebased(main[m], run[r].base[m], run[r].mine[m])]
         IN  /\ \/ main' = [main EXCEPT ![n] = Over(failure, @)]
                \/ /\ main' = rebased
                   /\ \A m \in Nodes : ~Conflicting(main[m], run[r].base[m], run[r].mine[m])
             /\ Checkout(HostOf[r], main', tree[HostOf[r]])
             /\ claimed' = claimed \ {n}
             /\ run' = [run EXCEPT ![r] = IdleRun]
             /\ UNCHANGED limits
             /\ Busy(r)
BY DEF PublishRun, Busy

LEMMA TypesPublish ==
  ASSUME TypeInv, NEW r \in Runners, PublishRun(r)
  PROVE  TypeInv'
<1> DEFINE n == run[r].node
           failure == File(<<"run", run[r].nnn>>, "merge-conflict")
           rebased == [m \in Nodes |-> Rebased(main[m], run[r].base[m], run[r].mine[m])]
<1>1. Busy(r) /\ run[r] \in RunRecords
  BY PublishedIs DEF TypeInv
<1>2. n \in Nodes
  BY <1>1 DEF TypeInv, RunsOfTasks
<1>3. failure \in FileMaps
  <2>1. <<"run", run[r].nnn>> \in TreeNames
    BY <1>1, KnownNames DEF Chain, RunRecords
  <2> QED  BY <2>1, FileMap, KnownContents
<1>4. [main EXCEPT ![n] = Over(failure, @)] \in Trees
  <2> HIDE DEF failure, n
  <2>1. main \in Trees /\ main[n] \in FileMaps
    BY <1>2 DEF TypeInv, Trees
  <2>2. [main EXCEPT ![n] = Over(failure, @)] = [main EXCEPT ![n] = Over(failure, main[n])]
    BY <1>2, <2>1 DEF Trees
  <2> QED  BY <1>2, <1>3, <2>1, <2>2, OverMap, TreeWith
<1>5. rebased \in Trees
  <2>1. run[r].mine \in Trees
    BY <1>1 DEF RunRecords
  <2>2. ASSUME NEW m \in Nodes
        PROVE  Rebased(main[m], run[r].base[m], run[r].mine[m]) \in FileMaps
    BY <2>1, RebasedMap DEF TypeInv, Trees
  <2> QED  BY <2>2 DEF Trees
<1>6. /\ main' \in {[main EXCEPT ![n] = Over(failure, @)], rebased}
      /\ Checkout(HostOf[r], main', tree[HostOf[r]])
      /\ claimed' = claimed \ {n}
      /\ run' = [run EXCEPT ![r] = IdleRun]
      /\ UNCHANGED limits
  BY PublishedIs
<1> HIDE DEF failure, rebased
<1>7. main' \in Trees
  BY <1>4, <1>5, <1>6
<1>8. HostOf[r] \in Hosts /\ tree[HostOf[r]] \in Trees
  BY TreeAssumption DEF TypeInv, TreeAssumption
<1>9. tree' \in [Hosts -> Trees] /\ head' \in [Hosts -> Trees]
  BY <1>6, <1>7, <1>8, CheckoutTrees DEF TypeInv
<1> HIDE DEF Trees, RunRecords
<1>10. /\ run' \in [Runners -> RunRecords] /\ claimed' \subseteq Nodes
       /\ RunsOfTasks'
       /\ \A s, q \in Runners : Busy(s)' /\ Busy(q)' /\ run'[s].node = run'[q].node => s = q
  BY <1>1, <1>6, TypesOver
<1> QED  BY <1>6, <1>7, <1>9, <1>10 DEF TypeInv, limits

LEMMA TypesPull ==
  ASSUME TypeInv, NEW h \in Hosts, Pull(h)
  PROVE  TypeInv'
<1> DEFINE pulled == [n \in Nodes |-> Rebased(tree[h][n], head[h][n], main[n])]
<1>1. pulled \in Trees
  <2>1. ASSUME NEW n \in Nodes  PROVE Rebased(tree[h][n], head[h][n], main[n]) \in FileMaps
    BY RebasedMap DEF TypeInv, Trees
  <2> QED  BY <2>1 DEF Trees
<1>2. tree' = [tree EXCEPT ![h] = [n \in Nodes |-> Rebased(@[n], head[h][n], main[n])]]
  BY DEF Pull
<1>3. tree' = [tree EXCEPT ![h] = pulled]
  BY <1>2 DEF TypeInv
<1>4. head' = [head EXCEPT ![h] = main] /\ UNCHANGED <<main, claimed, run, limits>>
  BY DEF Pull
<1> HIDE DEF pulled, Trees, RunRecords
<1>5. tree' \in [Hosts -> Trees] /\ head' \in [Hosts -> Trees]
  BY <1>1, <1>3, <1>4 DEF TypeInv
<1> QED  BY <1>4, <1>5 DEF TypeInv, RunsOfTasks, Busy, limits

LEMMA TypesNext == TypeInv /\ [TreeNext]_treeVars => TypeInv'
<1> SUFFICES ASSUME TypeInv, [TreeNext]_treeVars PROVE TypeInv'
  OBVIOUS
<1>1. ASSUME NEW r \in Runners, Start(r) \/ Finish(r) \/ PublishRun(r) \/ Die(r)  PROVE TypeInv'
  BY <1>1, TypesStart, TypesFinish, TypesPublish, TypesDie
<1>2. ASSUME NEW h \in Hosts, NEW n \in Nodes,
             Approve(h, n) \/ Verdict(h, n) \/ LifecycleCommand(h, n)
      PROVE  TypeInv'
  BY <1>2, TypesApprove, TypesVerdict, TypesInvalidate, TypesKill DEF LifecycleCommand
<1>3. ASSUME NEW h \in Hosts, Pull(h)  PROVE TypeInv'
  BY <1>3, TypesPull
<1>4. CASE UNCHANGED treeVars
  BY <1>4 DEF treeVars, limits, TypeInv, RunsOfTasks, Busy
<1> QED  BY <1>1, <1>2, <1>3, <1>4 DEF TreeNext

LEMMA TypesAlways == TreeSpec => []TypeInv
BY TypesInit, TypesNext, PTL DEF TreeSpec

LEMMA TypesImply == TypeInv => TreeTypeOK
<1> SUFFICES ASSUME TypeInv PROVE TreeTypeOK
  OBVIOUS
<1>1. \A t \in Trees : IsNodes(t)
  <2>1. ASSUME NEW t \in Trees, NEW n \in Nodes
        PROVE  DOMAIN t[n] \subseteq TreeNames /\ \A f \in DOMAIN t[n] : t[n][f] \in TreeContents
    <3>1. t[n] \in FileMaps
      BY DEF Trees
    <3> QED  BY <3>1, FileMapIs
  <2> QED  BY <2>1 DEF IsNodes
<1>2. \A r \in Runners : /\ run[r].phase \in Phases /\ run[r].node \in Nodes \cup {NoNode}
                         /\ run[r].base \in Trees /\ run[r].mine \in Trees
  <2> HIDE DEF Trees
  <2> QED  BY DEF TypeInv, RunRecords
<1> HIDE DEF Trees
<1> QED  BY <1>1, <1>2 DEF TypeInv, TreeTypeOK, RunsOfTasks, Busy, Phases

\* Files keep the names and contents that the readers know, whatever is archived, restored,
\* merged or killed, a run is of a node that is claimed, and the bounds hold (the files of
\* mt-core/lib.rs and lifecycle.rs), for all trees, hosts and runners.
THEOREM TreeTypes == TreeSpec => []TreeTypeOK
BY TypesAlways, TypesImply, PTL
-----------------------------------------------------------------------------
(* The directory of a node.                                                *)

\* It has the node, and with a node the children that a plan of it lists, and nothing else.
LEMMA BelowClosed ==
  ASSUME NEW n \in Nodes
  PROVE  /\ n \in Below(n)
         /\ \A c \in Nodes : Parent[c] \in Below(n) => c \in Below(n)
         /\ \A U : n \in U /\ (\A c \in Nodes : Parent[c] \in U => c \in U) => Below(n) \subseteq U
<1> DEFINE X == SUBSET Nodes
           x == {n}
           Step(s) == s \cup {c \in Nodes : Parent[c] \in s}
           D(g) == [d \in Nat |-> IF d = 0 THEN x ELSE g[d - 1] \cup {c \in Nodes : Parent[c] \in g[d - 1]}]
           F == [s \in X |-> Step(s)]
           down == CHOOSE g : g = D(g)
           K == Cardinality(Nodes)
<1>1. Below(n) = down[K]
  BY DEF Below
<1>2. IsFiniteSet(Nodes) /\ K \in Nat
  BY TreeAssumption, FS_CardinalityType DEF TreeAssumption
<1>3. x \in X /\ F \in [X -> X]
  OBVIOUS
<1>4. PICK f \in [Nat -> X] : Iterated(F, x, f)
  <2> HIDE DEF X, F, x
  <2> QED  BY <1>3, Iteration
<1>5. f = D(f)
  <2>1. ASSUME NEW d \in Nat
        PROVE  f[d] = IF d = 0 THEN x ELSE f[d - 1] \cup {c \in Nodes : Parent[c] \in f[d - 1]}
    <3>1. CASE d = 0
      <4> HIDE DEF x
      <4> QED  BY <1>4, <3>1 DEF Iterated
    <3>2. CASE d # 0
      <4>1. d - 1 \in Nat /\ d = (d - 1) + 1
        BY <3>2
      <4>2. f[(d - 1) + 1] = F[f[d - 1]]
        <5> HIDE DEF F
        <5> QED  BY <1>4, <4>1 DEF Iterated
      <4>3. f[d - 1] \in X
        BY <1>4, <4>1
      <4>4. F[f[d - 1]] = Step(f[d - 1])
        BY <4>3
      <4>5. f[d] = F[f[d - 1]]
        <5> HIDE DEF F
        <5> QED  BY <4>1, <4>2
      <4> HIDE DEF F, X
      <4> QED  BY <3>2, <4>4, <4>5
    <3> QED  BY <3>1, <3>2
  <2>2. f = [d \in Nat |-> f[d]]
    BY <1>4
  <2> HIDE DEF X, x
  <2> QED  BY <2>1, <2>2
<1>6. down = D(down)
  <2> HIDE DEF D
  <2> QED  BY <1>5
<1> HIDE DEF down
<1>7. /\ down[0] = x
      /\ \A d \in Nat : down[d + 1] = Step(down[d])
  <2>1. \A d \in Nat : down[d] = IF d = 0 THEN x ELSE Step(down[d - 1])
    <3> HIDE DEF x
    <3> QED  BY <1>6
  <2>2. ASSUME NEW d \in Nat  PROVE down[d + 1] = Step(down[d])
    <3>1. d + 1 \in Nat /\ d + 1 # 0 /\ (d + 1) - 1 = d
      OBVIOUS
    <3> HIDE DEF Step
    <3> QED  BY <2>1, <3>1
  <2> QED  BY <2>1, <2>2
<1> HIDE DEF D, F
<1> DEFINE Full(d) == down[d + 1] = down[d]
           Known == {d \in Nat : /\ down[d] \in SUBSET Nodes /\ n \in down[d]
                                 /\ IsFiniteSet(down[d])
                                 /\ Full(d) \/ Cardinality(down[d]) >= d + 1}
<1>8. Nat \subseteq Known
  <2>1. 0 \in Known
    <3>1. down[0] = {n}
      BY <1>7
    <3>2. IsFiniteSet({n}) /\ Cardinality({n}) = 1
      BY FS_Singleton
    <3>3. Cardinality(down[0]) >= 0 + 1
      BY <3>1, <3>2
    <3> QED  BY <3>1, <3>2, <3>3
  <2>2. ASSUME NEW d \in Nat, d \in Known  PROVE d + 1 \in Known
    <3>1. d + 1 \in Nat /\ (d + 1) + 1 \in Nat
      OBVIOUS
    <3>2. down[d + 1] = Step(down[d]) /\ down[(d + 1) + 1] = Step(down[d + 1])
      <4> HIDE DEF Step
      <4> QED  BY <1>7, <3>1
    <3>3. down[d + 1] \in SUBSET Nodes /\ n \in down[d + 1] /\ down[d] \subseteq down[d + 1]
      BY <2>2, <3>2
    <3>4. IsFiniteSet(down[d + 1])
      BY <1>2, <3>3, FS_Subset
    <3>5. CASE Full(d)
      <4>1. Full(d + 1)
        <5> HIDE DEF Step
        <5> QED  BY <3>2, <3>5
      <4> QED  BY <3>1, <3>3, <3>4, <4>1
    <3>6. CASE ~Full(d)
      <4>1. Cardinality(down[d]) >= d + 1 /\ IsFiniteSet(down[d])
        BY <2>2, <3>6
      <4>2. Cardinality(down[d]) < Cardinality(down[d + 1])
        <5>1. Cardinality(down[d]) <= Cardinality(down[d + 1])
          BY <3>3, <3>4, FS_Subset
        <5>2. Cardinality(down[d]) # Cardinality(down[d + 1])
          BY <3>3, <3>4, <3>6, FS_Subset
        <5>3. Cardinality(down[d]) \in Nat /\ Cardinality(down[d + 1]) \in Nat
          BY <3>4, <4>1, FS_CardinalityType
        <5> QED  BY <5>1, <5>2, <5>3
      <4>3. Cardinality(down[d]) \in Nat /\ Cardinality(down[d + 1]) \in Nat
        BY <3>4, <4>1, FS_CardinalityType
      <4>4. Cardinality(down[d + 1]) >= (d + 1) + 1
        BY <4>1, <4>2, <4>3
      <4> QED  BY <3>1, <3>3, <3>4, <4>4
    <3> QED  BY <3>5, <3>6
  <2> HIDE DEF Known
  <2> QED  BY <2>1, <2>2, AllNumbers
<1>9. K \in Known
  BY <1>2, <1>8
<1>10. Full(K)
  <2>1. Cardinality(down[K]) <= K /\ Cardinality(down[K]) \in Nat
    BY <1>2, <1>9, FS_Subset, FS_CardinalityType
  <2>2. ~(Cardinality(down[K]) >= K + 1)
    BY <1>2, <2>1
  <2> QED  BY <1>9, <2>2
<1>11. down[K + 1] = Step(down[K])
  BY <1>2, <1>7
<1>12. ASSUME NEW U, n \in U, \A c \in Nodes : Parent[c] \in U => c \in U
       PROVE  down[K] \subseteq U
  <2> DEFINE In == {d \in Nat : down[d] \subseteq U}
  <2>1. 0 \in In
    BY <1>7, <1>12
  <2>2. ASSUME NEW d \in Nat, d \in In  PROVE d + 1 \in In
    <3>1. down[d + 1] = Step(down[d])
      <4> HIDE DEF Step
      <4> QED  BY <1>7
    <3>2. down[d] \subseteq U /\ d + 1 \in Nat
      BY <2>2
    <3> QED  BY <1>12, <3>1, <3>2
  <2> HIDE DEF In
  <2>3. K \in In
    BY <1>2, <2>1, <2>2, AllNumbers
  <2> QED  BY <2>3 DEF In
<1> HIDE DEF K
<1> QED  BY <1>1, <1>9, <1>10, <1>11, <1>12

\* The nodes in it other than its node have their parents in it.
LEMMA BelowParents ==
  ASSUME NEW n \in Nodes, NEW c \in Below(n), c # n
  PROVE  c \in Nodes /\ Parent[c] \in Below(n)
<1> DEFINE U == {m \in Below(n) : m \in Nodes /\ (m = n \/ Parent[m] \in Below(n))}
<1>1. n \in U /\ \A m \in Nodes : Parent[m] \in U => m \in U
  BY BelowClosed
<1>2. Below(n) \subseteq U
  <2> HIDE DEF U
  <2> QED  BY <1>1, BelowClosed
<1> QED  BY <1>2

\* The directory of a node is in that of its parent.
LEMMA BelowUp ==
  ASSUME NEW c \in Nodes, Parent[c] \in Nodes
  PROVE  Below(c) \subseteq Below(Parent[c])
BY BelowClosed

-----------------------------------------------------------------------------
(* Marks: what makes a node and its children legitimate.                   *)

MarkNames == {Task} \cup ({"plan-approved"} \X Nat)
PlanNames == {"plan"} \X Nat

Marks(files) == DOMAIN files \cap MarkNames
Plans(files) == DOMAIN files \cap PlanNames

LEMMA OtherNames ==
  ASSUME NEW k, NEW kind \in {"run", "fact", "history", "pending-audit", "audit-result", "unresolvable"}
  PROVE  <<kind, k>> \notin MarkNames /\ <<kind, k>> \notin PlanNames
BY DEF MarkNames, PlanNames, Task

LEMMA MarkNamesApart ==
  /\ Task \in MarkNames /\ Task \notin PlanNames
  /\ MarkNames \cap PlanNames = {}
  /\ \A k \in Nat : /\ <<"plan-approved", k>> \in MarkNames /\ <<"plan-approved", k>> # Task
                    /\ <<"plan", k>> \in PlanNames
BY DEF MarkNames, PlanNames, Task

\* Files of other kinds change neither.
LEMMA OverMarks ==
  ASSUME NEW a, NEW b
  PROVE  /\ Marks(Over(a, b)) = Marks(a) \cup Marks(b)
         /\ Plans(Over(a, b)) = Plans(a) \cup Plans(b)
BY DEF Over, Marks, Plans

LEMMA OverOthers ==
  ASSUME NEW a, NEW b, Marks(a) = {}, Plans(a) = {}
  PROVE  /\ Marks(Over(a, b)) = Marks(b) /\ Plans(Over(a, b)) = Plans(b)
         /\ Marks(Over(b, a)) = Marks(b) /\ Plans(Over(b, a)) = Plans(b)
<1>1. /\ Marks(Over(a, b)) = Marks(a) \cup Marks(b) /\ Plans(Over(a, b)) = Plans(a) \cup Plans(b)
      /\ Marks(Over(b, a)) = Marks(b) \cup Marks(a) /\ Plans(Over(b, a)) = Plans(b) \cup Plans(a)
  BY OverMarks
<1> QED  BY <1>1, Zenon

LEMMA OtherFile ==
  ASSUME NEW k, NEW content,
         NEW kind \in {"run", "fact", "history", "pending-audit", "audit-result", "unresolvable"}
  PROVE  Marks(File(<<kind, k>>, content)) = {} /\ Plans(File(<<kind, k>>, content)) = {}
<1>1. DOMAIN File(<<kind, k>>, content) = {<<kind, k>>}
  BY DEF File
<1> QED  BY <1>1, OtherNames DEF Marks, Plans

LEMMA NoMarks == Marks(NoFiles) = {} /\ Plans(NoFiles) = {}
<1>1. DOMAIN NoFiles = {}
  BY DEF NoFiles
<1> QED  BY <1>1 DEF Marks, Plans

LEMMA WithoutMarks ==
  ASSUME NEW a, NEW names
  PROVE  Marks(Without(a, names)) = Marks(a) \ names /\ Plans(Without(a, names)) = Plans(a) \ names
BY DEF Without, Marks, Plans

LEMMA MarkedMarks ==
  ASSUME NEW a
  PROVE  Marks(Marked(a)) = Marks(a) /\ Plans(Marked(a)) = Plans(a)
<1>1. /\ Marks(File(<<"unresolvable", 1>>, "written")) = {}
      /\ Plans(File(<<"unresolvable", 1>>, "written")) = {}
  BY OtherFile
<1>2. /\ Marks(Over(a, File(<<"unresolvable", 1>>, "written"))) = Marks(a)
      /\ Plans(Over(a, File(<<"unresolvable", 1>>, "written"))) = Plans(a)
  BY <1>1, OverOthers
<1> QED  BY <1>2 DEF Marked

\* An archive takes neither a mark nor a plan.
LEMMA ArchivedMarks ==
  ASSUME NEW a
  PROVE  Marks(Archived(a)) = Marks(a) /\ Plans(Archived(a)) = Plans(a)
<1> DEFINE chain == ChainOf(a)
           k == Latest(a, "fact")
           kept == IF k = 0 THEN "written" ELSE a[<<"fact", k>>]
           file == File(<<"history", Latest(a, "history") + 1>>, kept)
<1>1. Archived(a) = IF chain = {} THEN a ELSE Over(file, Without(a, chain))
  BY DEF Archived
<1>2. Marks(file) = {} /\ Plans(file) = {}
  BY OtherFile
<1>3. chain \cap MarkNames = {} /\ chain \cap PlanNames = {}
  <2>1. ASSUME NEW f \in MarkNames \cup PlanNames  PROVE f[1] \notin Chain
    BY DEF MarkNames, PlanNames, Task, Chain
  <2> QED  BY <2>1 DEF ChainOf
<1>4. Marks(a) \cap chain = {} /\ Plans(a) \cap chain = {}
  BY <1>3 DEF Marks, Plans
<1> HIDE DEF chain, file
<1>5. Marks(Without(a, chain)) = Marks(a) /\ Plans(Without(a, chain)) = Plans(a)
  <2>1. /\ Marks(Without(a, chain)) = Marks(a) \ chain
        /\ Plans(Without(a, chain)) = Plans(a) \ chain
    BY WithoutMarks
  <2>2. Marks(a) \ chain = Marks(a) /\ Plans(a) \ chain = Plans(a)
    BY <1>4
  <2> QED  BY <2>1, <2>2
<1>6. /\ Marks(Over(file, Without(a, chain))) = Marks(a)
      /\ Plans(Over(file, Without(a, chain))) = Plans(a)
  <2>1. /\ Marks(Over(file, Without(a, chain))) = Marks(Without(a, chain))
        /\ Plans(Over(file, Without(a, chain))) = Plans(Without(a, chain))
    BY <1>2, OverOthers
  <2> QED  BY <1>5, <2>1
<1> QED  BY <1>1, <1>6

\* Two copies with the same marks, merged: the same marks.
LEMMA MergedMarks ==
  ASSUME NEW theirs, NEW base, NEW mine, Marks(theirs) = Marks(mine)
  PROVE  LET merged == Rebased(theirs, base, mine)
         IN  /\ Marks(merged) = Marks(theirs)
             /\ Plans(merged) \subseteq Plans(theirs) \cup Plans(mine)
             /\ Plans(theirs) \cap Plans(mine) \subseteq Plans(merged)
<1> DEFINE own == Changed(base, mine)
<1>1. DOMAIN Rebased(theirs, base, mine) = (DOMAIN theirs \ own) \cup (own \cap DOMAIN mine)
  BY DEF Rebased
<1> HIDE DEF own
<1> QED  BY <1>1 DEF Marks, Plans

\* Changes of a run that keeps marks and takes no plan, on top of main.
LEMMA RebasedMarks ==
  ASSUME NEW theirs, NEW base, NEW mine, ~Conflicting(theirs, base, mine),
         Marks(base) = Marks(mine), Plans(base) \subseteq Plans(mine)
  PROVE  LET merged == Rebased(theirs, base, mine)
         IN  Marks(merged) = Marks(theirs) /\ Plans(theirs) \subseteq Plans(merged)
<1> DEFINE own == Changed(base, mine)
           merged == Rebased(theirs, base, mine)
<1>1. DOMAIN merged = (DOMAIN theirs \ own) \cup (own \cap DOMAIN mine)
  BY DEF Rebased
<1>2. own \subseteq DOMAIN base \cup DOMAIN mine
  BY DEF Changed
<1>3. \A f \in own \cap DOMAIN base : f \in DOMAIN theirs
  BY DEF Conflicting, Changed
<1> HIDE DEF own, merged
<1>4. ASSUME NEW f \in Marks(merged)  PROVE f \in Marks(theirs)
  BY <1>1, <1>3 DEF Marks
<1>5. ASSUME NEW f \in Marks(theirs)  PROVE f \in Marks(merged)
  BY <1>1, <1>2 DEF Marks
<1>6. ASSUME NEW f \in Plans(theirs)  PROVE f \in Plans(merged)
  BY <1>1, <1>2 DEF Plans
<1> QED  BY <1>4, <1>5, <1>6 DEF merged
\* A tree that has the marks of another, and its plans.
KeepsMarks(a, b) ==
    \A n \in Nodes : Marks(a[n]) = Marks(b[n]) /\ Plans(a[n]) \subseteq Plans(b[n])

LEMMA CompletedMarks ==
  ASSUME NEW t \in Trees, NEW p \in Nodes, NEW fact
  PROVE  KeepsMarks(t, Completed(t, p, fact))
<1> DEFINE k == NextNumber(t[p])
           pair == Over(File(<<"run", k>>, "success"), File(<<"fact", k>>, fact))
<1>1. Marks(pair) = {} /\ Plans(pair) = {}
  <2>1. /\ Marks(File(<<"run", k>>, "success")) = {} /\ Plans(File(<<"run", k>>, "success")) = {}
        /\ Marks(File(<<"fact", k>>, fact)) = {} /\ Plans(File(<<"fact", k>>, fact)) = {}
    BY OtherFile
  <2> HIDE DEF k
  <2> QED  BY <2>1, OverOthers
<1>2. Completed(t, p, fact) = [t EXCEPT ![p] = Over(pair, t[p])]
  BY DEF Completed, Trees
<1> HIDE DEF pair
<1>3. Marks(Over(pair, t[p])) = Marks(t[p]) /\ Plans(Over(pair, t[p])) = Plans(t[p])
  BY <1>1, OverOthers
<1> QED  BY <1>2, <1>3 DEF KeepsMarks, Trees

LEMMA ExecutedMarks ==
  ASSUME NEW r \in Runners, NEW fact \in BOOLEAN, NEW contract, HasTask(run[r].base, run[r].node)
  PROVE  /\ Marks(Executed(r, fact, contract)) = Marks(run[r].base[run[r].node])
         /\ Plans(run[r].base[run[r].node]) \subseteq Plans(Executed(r, fact, contract))
<1> DEFINE n == run[r].node
           files == run[r].base[n]
           own == Over(File(Task, contract), files)
           plan == File(<<"plan", Latest(files, "plan") + 1>>, "composite")
           made == File(<<"fact", run[r].nnn>>, Fact(facts + 1))
<1>1. Marks(own) = Marks(files) /\ Plans(files) \subseteq Plans(own)
  <2>1. DOMAIN own = {Task} \cup DOMAIN files
    BY DEF Over, File
  <2>2. Task \in DOMAIN files
    BY DEF HasTask
  <2> HIDE DEF own, files
  <2> QED  BY <2>1, <2>2 DEF Marks, Plans
<1>2. Marks(made) = {} /\ Plans(made) = {}
  BY OtherFile
<1>3. Marks(plan) = {}
  <2>1. DOMAIN plan = {<<"plan", Latest(files, "plan") + 1>>}
    BY DEF File
  <2> QED  BY <2>1 DEF Marks, MarkNames, Task
<1>4. \/ Executed(r, fact, contract) = Over(plan, own)
      \/ Executed(r, fact, contract) = Over(made, own)
      \/ Executed(r, fact, contract) = own
  BY DEF Executed
<1> HIDE DEF own, plan, made, files, n
<1>5. Marks(Over(plan, own)) = Marks(own) /\ Plans(own) \subseteq Plans(Over(plan, own))
  <2>1. /\ Marks(Over(plan, own)) = Marks(plan) \cup Marks(own)
        /\ Plans(Over(plan, own)) = Plans(plan) \cup Plans(own)
    BY OverMarks
  <2> QED  BY <1>3, <2>1
<1>6. Marks(Over(made, own)) = Marks(own) /\ Plans(Over(made, own)) = Plans(own)
  BY <1>2, OverOthers
<1> QED  BY <1>1, <1>4, <1>5, <1>6 DEF files, n

LEMMA SignalledMarks ==
  ASSUME NEW r \in Runners, run[r] \in RunRecords, run[r].node \in Nodes,
         NEW files \in FileMaps, NEW seen,
         Marks(files) = Marks(run[r].base[run[r].node]),
         Plans(run[r].base[run[r].node]) \subseteq Plans(files)
  PROVE  KeepsMarks(run[r].base, Signalled(r, files, seen))
<1> DEFINE n == run[r].node
           base == run[r].base
           nnn == run[r].nnn
           next == NextNumber(files)
           opened == IF Audit[n] = "required" THEN File(<<"pending-audit", next>>, "written")
                     ELSE NoFiles
           pair == Over(File(<<"run", next>>, "success"), opened)
           finished == Over(pair, files)
           planned == Over(File(<<"run", nnn>>, "decomposed"), files)
           cut == Without(files, {<<"fact", nnn>>})
           refused == Marked(Over(File(<<"run", nnn>>, "failed"), cut))
           done == [base EXCEPT ![n] = finished]
<1>1. base \in Trees /\ n \in Nodes /\ next \in Nat /\ nnn \in Nat
  BY NumbersAreNumbers DEF RunRecords
<1>2. Marks(finished) = Marks(files) /\ Plans(finished) = Plans(files)
  <2>1. Marks(opened) = {} /\ Plans(opened) = {}
    BY OtherFile, NoMarks
  <2>2. Marks(File(<<"run", next>>, "success")) = {} /\ Plans(File(<<"run", next>>, "success")) = {}
    BY OtherFile
  <2>3. Marks(pair) = {} /\ Plans(pair) = {}
    <3> HIDE DEF opened, next
    <3> QED  BY <2>1, <2>2, OverOthers
  <2> HIDE DEF pair
  <2> QED  BY <2>3, OverOthers
<1>3. Marks(planned) = Marks(files) /\ Plans(planned) = Plans(files)
  <2>1. Marks(File(<<"run", nnn>>, "decomposed")) = {} /\ Plans(File(<<"run", nnn>>, "decomposed")) = {}
    BY OtherFile
  <2> HIDE DEF nnn
  <2> QED  BY <2>1, OverOthers
<1>4. Marks(refused) = Marks(files) /\ Plans(refused) = Plans(files)
  <2>1. Marks(File(<<"run", nnn>>, "failed")) = {} /\ Plans(File(<<"run", nnn>>, "failed")) = {}
    BY OtherFile
  <2>2. /\ Marks(cut) = Marks(files) \ {<<"fact", nnn>>}
        /\ Plans(cut) = Plans(files) \ {<<"fact", nnn>>}
    BY WithoutMarks
  <2>3. <<"fact", nnn>> \notin Marks(files) /\ <<"fact", nnn>> \notin Plans(files)
    BY OtherNames DEF Marks, Plans
  <2> HIDE DEF cut, nnn
  <2>4. Marks(cut) = Marks(files) /\ Plans(cut) = Plans(files)
    BY <2>2, <2>3
  <2>5. /\ Marks(Over(File(<<"run", nnn>>, "failed"), cut)) = Marks(cut)
        /\ Plans(Over(File(<<"run", nnn>>, "failed"), cut)) = Plans(cut)
    BY <2>1, OverOthers
  <2>6. /\ Marks(refused) = Marks(Over(File(<<"run", nnn>>, "failed"), cut))
        /\ Plans(refused) = Plans(Over(File(<<"run", nnn>>, "failed"), cut))
    BY MarkedMarks
  <2> QED  BY <2>4, <2>5, <2>6
<1>5. \/ Signalled(r, files, seen) = [base EXCEPT ![n] = planned]
      \/ Signalled(r, files, seen) = [base EXCEPT ![n] = refused]
      \/ Signalled(r, files, seen) = done
      \/ /\ Signalled(r, files, seen) = Propagated(done, n, files[<<"fact", next>>])
         /\ <<"fact", next>> \in DOMAIN files
  BY SignalCases
<1>6. Marks(files) = Marks(base[n]) /\ Plans(base[n]) \subseteq Plans(files)
  OBVIOUS
<1>7. finished \in FileMaps
  <2>1. /\ <<"run", next>> \in TreeNames /\ <<"pending-audit", next>> \in TreeNames
        /\ {"written", "success"} \subseteq TreeContents
    BY <1>1, KnownNames, KnownContents DEF Chain
  <2> HIDE DEF next
  <2>2. opened \in FileMaps /\ File(<<"run", next>>, "success") \in FileMaps
    BY <2>1, FileMap, NoFileMap
  <2> HIDE DEF opened
  <2> QED  BY <2>2, OverMap
<1> HIDE DEF finished, planned, refused, next, base, n
<1>8. ASSUME NEW a, Marks(a) = Marks(files), Plans(a) = Plans(files)
      PROVE  KeepsMarks(base, [base EXCEPT ![n] = a])
  BY <1>1, <1>6, <1>8 DEF KeepsMarks, Trees
<1>9. KeepsMarks(base, done) /\ done \in Trees
  BY <1>1, <1>2, <1>7, <1>8, TreeWith
<1> HIDE DEF done
<1>10. ASSUME <<"fact", next>> \in DOMAIN files
       PROVE  KeepsMarks(base, Propagated(done, n, files[<<"fact", next>>]))
  <2> DEFINE fact == files[<<"fact", next>>]
             Y == {u \in Trees : KeepsMarks(base, u)}
  <2>1. fact \in TreeContents
    BY <1>10, FileMapIs
  <2> HIDE DEF fact
  <2>2. ASSUME NEW u \in Y, NEW p \in Nodes  PROVE Completed(u, p, fact) \in Y
    <3>1. Completed(u, p, fact) \in Trees /\ KeepsMarks(u, Completed(u, p, fact))
      BY <2>1, CompletedTree, CompletedMarks
    <3>2. KeepsMarks(base, Completed(u, p, fact))
      BY <3>1 DEF KeepsMarks
    <3> QED  BY <3>1, <3>2
  <2>3. done \in Y
    BY <1>9
  <2>4. Propagated(done, n, fact) \in Y
    <3> HIDE DEF Y
    <3> QED  BY <1>1, <2>2, <2>3, PropagatedStays
  <2> QED  BY <2>4 DEF fact
<1> QED  BY <1>2, <1>3, <1>4, <1>5, <1>8, <1>9, <1>10 DEF base
-----------------------------------------------------------------------------
(* Children and decisions, when one checkout decides.                      *)

\* Every child has a decided plan of its parent.
Whole(t) ==
    \A n \in Nodes : HasTask(t, n) /\ Parent[n] # NoNode =>
        \E k \in 1 .. MaxNumber : <<"plan-approved", k>> \in DOMAIN t[Parent[n]]

\* A checkout has the marks that main has, plans that main has, and a plan to every decision.
InStep(now, t) ==
    \A n \in Nodes : /\ Marks(t[n]) = Marks(now[n]) /\ Plans(t[n]) \subseteq Plans(now[n])
                     /\ \A k \in Nat : <<"plan-approved", k>> \in Marks(t[n]) =>
                                           <<"plan", k>> \in Plans(t[n])

RunsKeepMarks == \A r \in Runners : Busy(r) => KeepsMarks(run[r].base, run[r].mine)

\* With the commands that create and remove in one checkout, its view decides what is there.
DecidedInv(h) == TypeInv /\ InStep(main, tree[h]) /\ RunsKeepMarks /\ Whole(main)

\* No new task on main.
NoneCreated == \A n \in Nodes : HasTask(main', n) => HasTask(main, n)

\* A new task is that of a child whose parent got a newer decision.
CreatedByDecision ==
    \A n \in Nodes : HasTask(main', n) /\ ~HasTask(main, n) =>
        Latest(main'[Parent[n]], "plan-approved") > Latest(main[Parent[n]], "plan-approved")

\* Every command reaches main.
CommandSucceeds == faults' = faults \/ UNCHANGED tree

LEMMA TaskIsMark ==
  ASSUME NEW t, NEW n
  PROVE  HasTask(t, n) <=> Task \in Marks(t[n])
BY MarkNamesApart DEF HasTask, Marks

LEMMA DecisionIsMark ==
  ASSUME NEW files, NEW k \in Nat
  PROVE  <<"plan-approved", k>> \in DOMAIN files <=> <<"plan-approved", k>> \in Marks(files)
BY MarkNamesApart DEF Marks

LEMMA ParentIsNode ==
  ASSUME NEW n \in Nodes, Parent[n] # NoNode
  PROVE  Parent[n] \in Nodes
BY TreeAssumption DEF TreeAssumption

LEMMA WholeByMarks ==
  ASSUME NEW a, NEW b, \A n \in Nodes : Marks(b[n]) = Marks(a[n]), Whole(a)
  PROVE  Whole(b)
<1> SUFFICES ASSUME NEW n \in Nodes, HasTask(b, n), Parent[n] # NoNode
             PROVE  \E k \in 1 .. MaxNumber : <<"plan-approved", k>> \in DOMAIN b[Parent[n]]
  BY DEF Whole
<1>1. HasTask(a, n)
  BY TaskIsMark
<1>2. PICK k \in 1 .. MaxNumber : <<"plan-approved", k>> \in DOMAIN a[Parent[n]]
  BY <1>1 DEF Whole
<1>3. k \in Nat /\ Marks(b[Parent[n]]) = Marks(a[Parent[n]])
  BY ParentIsNode
<1>4. <<"plan-approved", k>> \in DOMAIN b[Parent[n]]
  BY <1>2, <1>3, DecisionIsMark
<1> QED  BY <1>4

\* A merge of what is in step is in step.
LEMMA MergedInStep ==
  ASSUME NEW now \in Trees, NEW was, NEW t \in Trees, InStep(now, t)
  PROVE  /\ InStep(now, [n \in Nodes |-> Rebased(now[n], was[n], t[n])])
         /\ InStep(now, [n \in Nodes |-> Rebased(t[n], was[n], now[n])])
<1>1. ASSUME NEW n \in Nodes, NEW a, NEW b, (a = now[n] /\ b = t[n]) \/ (a = t[n] /\ b = now[n])
      PROVE  LET merged == Rebased(a, was[n], b)
             IN  /\ Marks(merged) = Marks(now[n]) /\ Plans(merged) \subseteq Plans(now[n])
                 /\ \A k \in Nat : <<"plan-approved", k>> \in Marks(merged) =>
                                       <<"plan", k>> \in Plans(merged)
  <2> DEFINE merged == Rebased(a, was[n], b)
  <2>1. (a = now[n] /\ b = t[n]) \/ (a = t[n] /\ b = now[n])
    BY <1>1
  <2>2. /\ Marks(t[n]) = Marks(now[n]) /\ Plans(t[n]) \subseteq Plans(now[n])
        /\ \A k \in Nat : <<"plan-approved", k>> \in Marks(t[n]) => <<"plan", k>> \in Plans(t[n])
    BY DEF InStep
  <2>3. Marks(a) = Marks(b)
    BY <2>1, <2>2
  <2>4. /\ Marks(merged) = Marks(a) /\ Plans(merged) \subseteq Plans(a) \cup Plans(b)
        /\ Plans(a) \cap Plans(b) \subseteq Plans(merged)
    BY <2>3, MergedMarks
  <2> HIDE DEF merged
  <2>5. Plans(t[n]) \subseteq Plans(merged) /\ Plans(merged) \subseteq Plans(now[n])
    BY <2>1, <2>2, <2>4
  <2>6. Marks(merged) = Marks(now[n])
    BY <2>1, <2>2, <2>4
  <2>7. \A k \in Nat : <<"plan-approved", k>> \in Marks(merged) => <<"plan", k>> \in Plans(merged)
    BY <2>2, <2>5, <2>6
  <2> QED  BY <2>5, <2>6, <2>7 DEF merged
<1> DEFINE x == [n \in Nodes |-> Rebased(now[n], was[n], t[n])]
           y == [n \in Nodes |-> Rebased(t[n], was[n], now[n])]
<1>2. \A n \in Nodes : x[n] = Rebased(now[n], was[n], t[n]) /\ y[n] = Rebased(t[n], was[n], now[n])
  OBVIOUS
<1> HIDE DEF x, y
<1>3. InStep(now, x)
  BY <1>1, <1>2 DEF InStep
<1>4. InStep(now, y)
  BY <1>1, <1>2 DEF InStep
<1> QED  BY <1>3, <1>4 DEF x, y

LEMMA CheckoutInStep ==
  ASSUME TypeInv, NEW h \in Hosts, NEW now \in Trees, NEW files \in Trees,
         InStep(now, files), Checkout(h, now, files)
  PROVE  InStep(now, tree'[h])
<1> DEFINE merged == [n \in Nodes |-> Rebased(now[n], head[h][n], files[n])]
<1>1. InStep(now, merged)
  BY MergedInStep
<1>2. tree' \in {[tree EXCEPT ![h] = merged], [tree EXCEPT ![h] = files]}
  BY DEF Checkout
<1> HIDE DEF merged
<1>3. tree'[h] \in {merged, files}
  BY <1>2 DEF TypeInv
<1> QED  BY <1>1, <1>3

LEMMA OtherCheckouts ==
  ASSUME TypeInv, NEW g \in Hosts, NEW h \in Hosts, g # h, NEW now, NEW files, Checkout(g, now, files)
  PROVE  tree'[h] = tree[h]
BY DEF Checkout, TypeInv

\* A command that succeeds: what is on main then, and the checkouts.
LEMMA CommandInStep ==
  ASSUME TypeInv, TypeInv', NEW h \in Hosts, NEW g \in Hosts, NEW files \in Trees, NEW gone, NEW present,
         PublishFrom(g, files, gone, present), CommandSucceeds, UNCHANGED run,
         InStep(main, tree[h]), RunsKeepMarks, Whole(main),
         LET now == [n \in Nodes |-> Over(present[n], Without(main[n], gone[n]))]
         IN  /\ InStep(now, IF g = h THEN files ELSE tree[h])
             /\ Whole(now)
  PROVE  /\ DecidedInv(h)'
         /\ main' \in {main, [n \in Nodes |-> Over(present[n], Without(main[n], gone[n]))]}
<1> DEFINE now == [n \in Nodes |-> Over(present[n], Without(main[n], gone[n]))]
<1>1. CASE main' = now /\ Checkout(g, main', files) /\ UNCHANGED faults
  <2> HIDE DEF now
  <2>1. main' \in Trees /\ InStep(main', IF g = h THEN files ELSE tree[h]) /\ Whole(main')
    BY <1>1 DEF TypeInv, now
  <2>2. InStep(main', tree'[h])
    <3>1. CASE g = h
      BY <1>1, <2>1, <3>1, CheckoutInStep
    <3>2. CASE g # h
      BY <1>1, <2>1, <3>2, OtherCheckouts
    <3> QED  BY <3>1, <3>2
  <2>3. RunsKeepMarks'
    BY DEF RunsKeepMarks, Busy
  <2> QED  BY <1>1, <2>1, <2>2, <2>3 DEF DecidedInv, now
<1>2. CASE faults < MaxFaults /\ faults' = faults + 1 /\ UNCHANGED <<main, head>>
  <2>1. faults' # faults
    BY <1>2 DEF TypeInv
  <2>2. UNCHANGED tree
    BY <2>1 DEF CommandSucceeds
  <2>3. RunsKeepMarks'
    BY DEF RunsKeepMarks, Busy
  <2> QED  BY <1>2, <2>2, <2>3 DEF DecidedInv
<1> QED  BY <1>1, <1>2 DEF PublishFrom
\* A command that changes nothing of what counts.
LEMMA QuietCommand ==
  ASSUME TypeInv, TypeInv', NEW h \in Hosts, DecidedInv(h),
         NEW g \in Hosts, NEW files \in Trees, NEW gone, NEW present,
         PublishFrom(g, files, gone, present), CommandSucceeds, UNCHANGED run,
         \A n \in Nodes : /\ Marks(files[n]) = Marks(tree[g][n])
                          /\ Plans(files[n]) = Plans(tree[g][n])
                          /\ Marks(main[n]) \cap gone[n] = {} /\ Plans(main[n]) \cap gone[n] = {}
                          /\ Marks(present[n]) \subseteq Marks(main[n])
  PROVE  DecidedInv(h)' /\ NoneCreated
<1> DEFINE now == [n \in Nodes |-> Over(present[n], Without(main[n], gone[n]))]
           seen == IF g = h THEN files ELSE tree[h]
<1>1. ASSUME NEW n \in Nodes
      PROVE  Marks(now[n]) = Marks(main[n]) /\ Plans(main[n]) \subseteq Plans(now[n])
  <2>1. /\ Marks(Without(main[n], gone[n])) = Marks(main[n]) \ gone[n]
        /\ Plans(Without(main[n], gone[n])) = Plans(main[n]) \ gone[n]
    BY WithoutMarks
  <2>2. /\ Marks(Without(main[n], gone[n])) = Marks(main[n])
        /\ Plans(Without(main[n], gone[n])) = Plans(main[n])
    BY <2>1
  <2>3. /\ Marks(now[n]) = Marks(present[n]) \cup Marks(Without(main[n], gone[n]))
        /\ Plans(now[n]) = Plans(present[n]) \cup Plans(Without(main[n], gone[n]))
    BY OverMarks
  <2> HIDE DEF now
  <2> QED  BY <2>2, <2>3
<1> HIDE DEF now
<1>2. \A n \in Nodes : Marks(seen[n]) = Marks(tree[h][n]) /\ Plans(seen[n]) = Plans(tree[h][n])
  OBVIOUS
<1> HIDE DEF seen
<1>3. InStep(main, tree[h]) /\ Whole(main) /\ RunsKeepMarks
  BY DEF DecidedInv
<1>4. InStep(now, seen)
  BY <1>1, <1>2, <1>3 DEF InStep
<1>5. Whole(now)
  BY <1>1, <1>3, WholeByMarks
<1>6. DecidedInv(h)' /\ main' \in {main, now}
  BY <1>3, <1>4, <1>5, CommandInStep DEF now, seen
<1>7. NoneCreated
  <2>1. \A n \in Nodes : Marks(main'[n]) = Marks(main[n])
    BY <1>1, <1>6
  <2> QED  BY <2>1, TaskIsMark DEF NoneCreated
<1> QED  BY <1>6, <1>7

LEMMA DecidedVerdict ==
  ASSUME NEW h \in Hosts, DecidedInv(h), TypeInv', CommandSucceeds,
         NEW g \in Hosts, NEW n \in Nodes, Verdict(g, n)
  PROVE  DecidedInv(h)' /\ NoneCreated
<1> DEFINE name == <<"audit-result", Latest(tree[g][n], "pending-audit")>>
<1>1. PICK result \in {"success", "failed"} :
        PublishFrom(g, [tree[g] EXCEPT ![n] = Over(File(name, result), @)], NoNames,
                    [Nothing EXCEPT ![n] = File(name, result)])
  BY DEF Verdict
<1> DEFINE file == File(name, result)
           files == [tree[g] EXCEPT ![n] = Over(file, @)]
           present == [Nothing EXCEPT ![n] = file]
<1>2. TypeInv /\ tree[g] \in Trees
  BY DEF DecidedInv, TypeInv
<1>3. file \in FileMaps
  <2>1. name \in TreeNames
    BY BoundNumbers, KnownNames DEF Chain
  <2> HIDE DEF name
  <2> QED  BY <2>1, FileMap, KnownContents
<1>4. Marks(file) = {} /\ Plans(file) = {}
  BY OtherFile
<1> HIDE DEF file
<1>5. files = [tree[g] EXCEPT ![n] = Over(file, tree[g][n])]
  BY <1>2 DEF Trees
<1>6. files \in Trees
  <2>1. tree[g][n] \in FileMaps
    BY <1>2 DEF Trees
  <2> HIDE DEF files
  <2> QED  BY <1>2, <1>3, <1>5, <2>1, OverMap, TreeWith
<1>7. \A m \in Nodes : Marks(files[m]) = Marks(tree[g][m]) /\ Plans(files[m]) = Plans(tree[g][m])
  <2>1. /\ Marks(Over(file, tree[g][n])) = Marks(tree[g][n])
        /\ Plans(Over(file, tree[g][n])) = Plans(tree[g][n])
    BY <1>4, OverOthers
  <2> HIDE DEF files
  <2> QED  BY <1>2, <1>5, <2>1 DEF Trees
<1>8. \A m \in Nodes : NoNames[m] = {} /\ Marks(present[m]) = {}
  BY <1>4, NoMarks DEF NoNames, Nothing
<1>9. \A m \in Nodes : /\ Marks(files[m]) = Marks(tree[g][m])
                       /\ Plans(files[m]) = Plans(tree[g][m])
                       /\ Marks(main[m]) \cap NoNames[m] = {} /\ Plans(main[m]) \cap NoNames[m] = {}
                       /\ Marks(present[m]) \subseteq Marks(main[m])
  <2> HIDE DEF files, present
  <2> QED  BY <1>7, <1>8
<1>10. PublishFrom(g, files, NoNames, present) /\ UNCHANGED run
  BY <1>1 DEF Verdict, file
<1> HIDE DEF files, present
<1> QED  BY <1>2, <1>6, <1>9, <1>10, QuietCommand

\* Archives take no mark, and what main has of the node is what the checkout has.
LEMMA DecidedInvalidate ==
  ASSUME NEW h \in Hosts, DecidedInv(h), TypeInv', CommandSucceeds,
         NEW n \in Nodes, Invalidate(h, n)
  PROVE  DecidedInv(h)' /\ NoneCreated
<1> DEFINE reached == Cascade(tree[h], n)
           new == [m \in Nodes |-> IF m \in reached THEN Archived(tree[h][m]) ELSE tree[h][m]]
<1>1. TypeInv /\ tree[h] \in Trees /\ InStep(main, tree[h])
  BY DEF DecidedInv, TypeInv
<1>2. new \in Trees
  <2>1. \A m \in Nodes : tree[h][m] \in FileMaps /\ Archived(tree[h][m]) \in FileMaps
    BY <1>1, ArchivedMap DEF Trees
  <2> HIDE DEF FileMaps
  <2> QED  BY <2>1 DEF Trees
<1>3. \A m \in Nodes : Marks(new[m]) = Marks(tree[h][m]) /\ Plans(new[m]) = Plans(tree[h][m])
  BY ArchivedMarks
<1>4. PublishFrom(h, new, Gone(tree[h], new), Republished(tree[h], new, n)) /\ UNCHANGED run
  BY DEF Invalidate
<1> HIDE DEF new
<1>5. ASSUME NEW m \in Nodes
      PROVE  /\ Marks(main[m]) \cap Gone(tree[h], new)[m] = {}
             /\ Plans(main[m]) \cap Gone(tree[h], new)[m] = {}
             /\ Marks(Republished(tree[h], new, n)[m]) \subseteq Marks(main[m])
  <2>1. Gone(tree[h], new)[m] = DOMAIN tree[h][m] \ DOMAIN new[m]
    BY DEF Gone
  <2>2. /\ DOMAIN new[m] \cap MarkNames = DOMAIN tree[h][m] \cap MarkNames
        /\ DOMAIN new[m] \cap PlanNames = DOMAIN tree[h][m] \cap PlanNames
    BY <1>3 DEF Marks, Plans
  <2>3. /\ Marks(main[m]) \cap Gone(tree[h], new)[m] = {}
        /\ Plans(main[m]) \cap Gone(tree[h], new)[m] = {}
    BY <2>1, <2>2 DEF Marks, Plans
  <2>4. Republished(tree[h], new, n)[m] \in {new[m], NoFiles}
    BY DEF Republished, Part
  <2>5. Marks(new[m]) = Marks(main[m])
    BY <1>1, <1>3 DEF InStep
  <2> QED  BY <2>3, <2>4, <2>5, NoMarks
<1> QED  BY <1>1, <1>2, <1>3, <1>4, <1>5, QuietCommand

\* The directory goes, and with it everything below.
LEMMA DecidedKill ==
  ASSUME NEW h \in Hosts, DecidedInv(h), TypeInv', CommandSucceeds,
         NEW n \in Nodes, Kill(h, n)
  PROVE  DecidedInv(h)' /\ NoneCreated
<1> DEFINE new == [m \in Nodes |-> IF m \in Below(n) THEN NoFiles ELSE tree[h][m]]
           gone == Gone(tree[h], new)
           now == [m \in Nodes |-> Over(Nothing[m], Without(main[m], gone[m]))]
<1>1. TypeInv /\ tree[h] \in Trees /\ InStep(main, tree[h]) /\ Whole(main) /\ RunsKeepMarks
  BY DEF DecidedInv, TypeInv
<1>2. new \in Trees
  <2>1. \A m \in Nodes : tree[h][m] \in FileMaps /\ NoFiles \in FileMaps
    BY <1>1, NoFileMap DEF Trees
  <2> HIDE DEF FileMaps, NoFiles
  <2> QED  BY <2>1 DEF Trees
<1>3. PublishFrom(h, new, gone, Nothing) /\ UNCHANGED run
  BY DEF Kill
<1>4. \A m \in Nodes : gone[m] = IF m \in Below(n) THEN DOMAIN tree[h][m] ELSE {}
  BY DEF Gone, NoFiles
<1>5. ASSUME NEW m \in Nodes
      PROVE  /\ Marks(now[m]) = Marks(new[m]) /\ Plans(new[m]) \subseteq Plans(now[m])
             /\ m \notin Below(n) => Marks(now[m]) = Marks(main[m])
             /\ m \in Below(n) => Marks(now[m]) = {}
  <2>1. /\ Marks(Without(main[m], gone[m])) = Marks(main[m]) \ gone[m]
        /\ Plans(Without(main[m], gone[m])) = Plans(main[m]) \ gone[m]
    BY WithoutMarks
  <2>2. /\ Marks(now[m]) = Marks(Without(main[m], gone[m]))
        /\ Plans(now[m]) = Plans(Without(main[m], gone[m]))
    <3>1. Marks(Nothing[m]) = {} /\ Plans(Nothing[m]) = {}
      BY NoMarks DEF Nothing
    <3> HIDE DEF gone
    <3> QED  BY <3>1, OverOthers
  <2>3. Marks(tree[h][m]) = Marks(main[m]) /\ Plans(tree[h][m]) \subseteq Plans(main[m])
    BY <1>1 DEF InStep
  <2>4. CASE m \in Below(n)
    <3>1. gone[m] = DOMAIN tree[h][m] /\ new[m] = NoFiles
      BY <1>4, <2>4
    <3> HIDE DEF gone, new, now
    <3>2. Marks(main[m]) \ gone[m] = {}
      BY <2>3, <3>1 DEF Marks
    <3> QED  BY <2>1, <2>2, <2>4, <3>1, <3>2, NoMarks
  <2>5. CASE m \notin Below(n)
    <3>1. gone[m] = {} /\ new[m] = tree[h][m]
      BY <1>4, <2>5
    <3> HIDE DEF gone, new, now
    <3> QED  BY <2>1, <2>2, <2>3, <2>5, <3>1
  <2> QED  BY <2>4, <2>5
<1>6. \A m \in Nodes : new[m] = tree[h][m] \/ new[m] = NoFiles
  OBVIOUS
<1> HIDE DEF new, gone, now
<1>7. InStep(now, new)
  <2>1. \A m \in Nodes : \A k \in Nat :
          <<"plan-approved", k>> \in Marks(new[m]) => <<"plan", k>> \in Plans(new[m])
    BY <1>1, <1>6, NoMarks DEF InStep
  <2> QED  BY <1>5, <2>1 DEF InStep
<1>8. Whole(now)
  <2> SUFFICES ASSUME NEW m \in Nodes, HasTask(now, m), Parent[m] # NoNode
               PROVE  \E k \in 1 .. MaxNumber : <<"plan-approved", k>> \in DOMAIN now[Parent[m]]
    BY DEF Whole
  <2>1. m \notin Below(n)
    BY <1>5, TaskIsMark
  <2>2. Parent[m] \in Nodes /\ Parent[m] \notin Below(n)
    BY <2>1, BelowClosed, ParentIsNode
  <2>3. HasTask(main, m)
    BY <1>5, <2>1, TaskIsMark
  <2>4. PICK k \in 1 .. MaxNumber : <<"plan-approved", k>> \in DOMAIN main[Parent[m]]
    BY <1>1, <2>3 DEF Whole
  <2>5. <<"plan-approved", k>> \in DOMAIN now[Parent[m]]
    <3>1. k \in Nat /\ Marks(now[Parent[m]]) = Marks(main[Parent[m]])
      BY <1>5, <2>2
    <3> QED  BY <2>4, <3>1, DecisionIsMark
  <2> QED  BY <2>5
<1>9. DecidedInv(h)' /\ main' \in {main, now}
  BY <1>1, <1>2, <1>3, <1>7, <1>8, CommandInStep DEF now
<1>10. NoneCreated
  BY <1>5, <1>9, TaskIsMark DEF NoneCreated
<1> QED  BY <1>9, <1>10
\* The children come with the decision, and the decision is newer than every one before.
LEMMA DecidedApprove ==
  ASSUME NEW h \in Hosts, DecidedInv(h), TypeInv', CommandSucceeds,
         NEW n \in Nodes, Approve(h, n)
  PROVE  DecidedInv(h)' /\ CreatedByDecision
<1> DEFINE k == Latest(tree[h][n], "plan")
           task == File(Task, "written")
           approved == File(<<"plan-approved", k>>, "written")
           born == [c \in Nodes |->
                      IF c \in Planned(n) /\ ~HasTask(tree[h], c)
                      THEN Over(task, tree[h][c]) ELSE tree[h][c]]
           new == [born EXCEPT ![n] = Over(approved, @)]
           present == ApprovedFiles(new, n)
           now == [m \in Nodes |-> Over(present[m], Without(main[m], NoNames[m]))]
<1>1. TypeInv /\ tree[h] \in Trees /\ InStep(main, tree[h]) /\ Whole(main) /\ RunsKeepMarks
  BY DEF DecidedInv, TypeInv
<1>2. /\ PublishFrom(h, new, NoNames, present) /\ UNCHANGED run
      /\ HasTask(tree[h], n)
      /\ Decision(tree[h][n]) = "composite"
      /\ <<"plan-approved", k>> \notin DOMAIN tree[h][n]
  BY DEF Approve
<1>3. k \in 1 .. MaxNumber /\ <<"plan", k>> \in DOMAIN tree[h][n]
  <2>1. k # 0
    BY <1>2 DEF Decision
  <2>2. k \in 0 .. MaxNumber /\ MaxNumber \in Nat
    BY LatestIsGreatest, TreeAssumption DEF TreeAssumption
  <2>3. <<"plan", k>> \in DOMAIN tree[h][n]
    BY <2>1, LatestIsGreatest
  <2> HIDE DEF k
  <2> QED  BY <2>1, <2>2, <2>3
<1>4. k \in Nat /\ <<"plan", k>> \in Plans(tree[h][n])
  <2> HIDE DEF k
  <2>1. k \in Nat
    BY <1>3
  <2> QED  BY <1>3, <2>1, MarkNamesApart DEF Plans
<1>5. task \in FileMaps /\ approved \in FileMaps
  BY <1>4, FileMap, KnownNames, KnownContents
<1>6. /\ Marks(task) = {Task} /\ Plans(task) = {}
      /\ Marks(approved) = {<<"plan-approved", k>>} /\ Plans(approved) = {}
  <2> HIDE DEF k
  <2>1. DOMAIN task = {Task} /\ DOMAIN approved = {<<"plan-approved", k>>}
    BY DEF File
  <2> HIDE DEF task, approved
  <2>2. /\ Task \in MarkNames /\ Task \notin PlanNames
        /\ <<"plan-approved", k>> \in MarkNames /\ <<"plan-approved", k>> \notin PlanNames
    BY <1>4, MarkNamesApart
  <2> QED  BY <2>1, <2>2 DEF Marks, Plans
<1>7. born \in Trees
  <2>1. ASSUME NEW c \in Nodes  PROVE born[c] \in FileMaps
    <3>1. tree[h][c] \in FileMaps
      BY <1>1 DEF Trees
    <3> HIDE DEF FileMaps, task
    <3> QED  BY <1>5, <3>1, OverMap
  <2> QED  BY <2>1 DEF Trees
<1>8. new = [born EXCEPT ![n] = Over(approved, born[n])] /\ new \in Trees
  <2> HIDE DEF born, approved
  <2>1. born[n] \in FileMaps /\ new = [born EXCEPT ![n] = Over(approved, born[n])]
    BY <1>7 DEF Trees
  <2> HIDE DEF new
  <2> QED  BY <1>5, <1>7, <2>1, OverMap, TreeWith
\* What the checkout has then.
<1>9. born[n] = tree[h][n]
  BY <1>2
<1>10. ASSUME NEW m \in Nodes
       PROVE  /\ Marks(born[m]) = Marks(tree[h][m])
                   \cup IF m \in Planned(n) /\ ~HasTask(tree[h], m) THEN {Task} ELSE {}
              /\ Plans(born[m]) = Plans(tree[h][m])
  <2>1. /\ Marks(Over(task, tree[h][m])) = Marks(task) \cup Marks(tree[h][m])
        /\ Plans(Over(task, tree[h][m])) = Plans(task) \cup Plans(tree[h][m])
    BY OverMarks
  <2>2. born[m] = IF m \in Planned(n) /\ ~HasTask(tree[h], m)
                  THEN Over(task, tree[h][m]) ELSE tree[h][m]
    OBVIOUS
  <2> HIDE DEF born, task
  <2>3. CASE m \in Planned(n) /\ ~HasTask(tree[h], m)
    BY <1>6, <2>1, <2>2, <2>3
  <2>4. CASE ~(m \in Planned(n) /\ ~HasTask(tree[h], m))
    BY <2>2, <2>4
  <2> QED  BY <2>3, <2>4
<1>11. /\ Marks(new[n]) = Marks(tree[h][n]) \cup {<<"plan-approved", k>>}
       /\ Plans(new[n]) = Plans(tree[h][n])
       /\ \A m \in Nodes : m # n => new[m] = born[m]
  <2>1. /\ Marks(Over(approved, born[n])) = Marks(approved) \cup Marks(born[n])
        /\ Plans(Over(approved, born[n])) = Plans(approved) \cup Plans(born[n])
    BY OverMarks
  <2>2. new[n] = Over(approved, born[n])
    <3> HIDE DEF approved, born, new
    <3> QED  BY <1>7, <1>8 DEF Trees
  <2>3. \A m \in Nodes : m # n => new[m] = born[m]
    <3> HIDE DEF approved, born, new
    <3> QED  BY <1>7, <1>8 DEF Trees
  <2> HIDE DEF approved, born, new, k
  <2>4. Marks(new[n]) = Marks(tree[h][n]) \cup {<<"plan-approved", k>>}
    BY <1>6, <1>9, <2>1, <2>2
  <2>5. Plans(new[n]) = Plans(tree[h][n])
    BY <1>6, <1>9, <2>1, <2>2
  <2> QED  BY <2>3, <2>4, <2>5
\* What is published.
<1>12. present[n] = File(<<"plan-approved", k>>, "written")
  <2>1. Latest(new[n], "plan") = k
    <3>1. DOMAIN new[n] \cap PlanNames = DOMAIN tree[h][n] \cap PlanNames
      <4> HIDE DEF new
      <4> QED  BY <1>11 DEF Plans
    <3> HIDE DEF new
    <3>2. \A j \in 1 .. MaxNumber : <<"plan", j>> \in PlanNames
      BY DEF PlanNames
    <3>3. Numbers(new[n], "plan") = Numbers(tree[h][n], "plan")
      BY <3>1, <3>2 DEF Numbers
    <3> QED  BY <3>3 DEF Latest
  <2> HIDE DEF new, k
  <2> QED  BY <2>1 DEF ApprovedFiles, Part
<1>13. ASSUME NEW m \in Nodes, m # n
       PROVE  /\ present[m] \in {new[m], NoFiles}
              /\ m \in Planned(n) => present[m] = new[m]
  <2> HIDE DEF new
  <2>1. present[m] = IF m \in UNION {Below(c) : c \in Planned(n)} THEN new[m] ELSE NoFiles
    BY <1>13 DEF ApprovedFiles, Part
  <2> HIDE DEF present
  <2>2. m \in Planned(n) => m \in UNION {Below(c) : c \in Planned(n)}
    BY BelowClosed
  <2> QED  BY <2>1, <2>2
<1> HIDE DEF present, born, new, task, approved
<1>14. ASSUME NEW m \in Nodes
       PROVE  /\ Marks(now[m]) = Marks(present[m]) \cup Marks(main[m])
              /\ Plans(main[m]) \subseteq Plans(now[m])
  <2>1. NoNames[m] = {}
    BY DEF NoNames
  <2>2. /\ Marks(Without(main[m], NoNames[m])) = Marks(main[m])
        /\ Plans(Without(main[m], NoNames[m])) = Plans(main[m])
    <3>1. /\ Marks(Without(main[m], NoNames[m])) = Marks(main[m]) \ NoNames[m]
          /\ Plans(Without(main[m], NoNames[m])) = Plans(main[m]) \ NoNames[m]
      BY WithoutMarks
    <3> QED  BY <2>1, <3>1
  <2>3. /\ Marks(now[m]) = Marks(present[m]) \cup Marks(Without(main[m], NoNames[m]))
        /\ Plans(now[m]) = Plans(present[m]) \cup Plans(Without(main[m], NoNames[m]))
    BY OverMarks
  <2> HIDE DEF now
  <2> QED  BY <2>2, <2>3
<1>15. ASSUME NEW m \in Nodes
       PROVE  Marks(now[m]) = Marks(new[m]) /\ Plans(new[m]) \subseteq Plans(now[m])
  <2>1. Marks(tree[h][m]) = Marks(main[m]) /\ Plans(tree[h][m]) \subseteq Plans(main[m])
    BY <1>1 DEF InStep
  <2>2. CASE m = n
    <3>1. Marks(present[n]) = {<<"plan-approved", k>>}
      BY <1>6, <1>12 DEF approved
    <3> HIDE DEF now, k
    <3> QED  BY <1>11, <1>14, <2>1, <2>2, <3>1
  <2>3. CASE m # n
    <3>1. new[m] = born[m]
      BY <1>11, <2>3
    <3>2. m \in Planned(n) => present[m] = new[m]
      BY <1>13, <2>3
    <3>3. present[m] \in {new[m], NoFiles}
      BY <1>13, <2>3
    <3> HIDE DEF now
    <3>4. Marks(main[m]) \subseteq Marks(new[m]) /\ Plans(new[m]) \subseteq Plans(now[m])
      BY <1>10, <1>14, <2>1, <3>1
    <3>5. CASE m \in Planned(n)
      BY <1>14, <3>2, <3>4, <3>5
    <3>6. CASE m \notin Planned(n)
      <4>1. Marks(new[m]) = Marks(main[m])
        BY <1>10, <2>1, <3>1, <3>6
      <4>2. Marks(present[m]) \subseteq Marks(main[m])
        BY <3>3, <4>1, NoMarks
      <4> QED  BY <1>14, <3>4, <4>1, <4>2
    <3> QED  BY <3>5, <3>6
  <2> QED  BY <2>2, <2>3
<1> HIDE DEF now
<1>16. InStep(now, new)
  <2>1. ASSUME NEW m \in Nodes, NEW j \in Nat, <<"plan-approved", j>> \in Marks(new[m])
        PROVE  <<"plan", j>> \in Plans(new[m])
    <3>1. <<"plan-approved", j>> \in Marks(tree[h][m]) => <<"plan", j>> \in Plans(tree[h][m])
      BY <1>1 DEF InStep
    <3>2. CASE m = n
      <4> HIDE DEF k
      <4> QED  BY <1>4, <1>11, <2>1, <3>1, <3>2
    <3>3. CASE m # n
      <4>1. <<"plan-approved", j>> # Task
        BY MarkNamesApart
      <4>2. new[m] = born[m]
        BY <1>11, <3>3
      <4>3. <<"plan-approved", j>> \in Marks(tree[h][m])
        BY <1>10, <2>1, <4>1, <4>2
      <4> QED  BY <1>10, <3>1, <4>2, <4>3
    <3> QED  BY <3>2, <3>3
  <2> QED  BY <1>15, <2>1 DEF InStep
\* A task that is new is that of a child of n.
<1>17. ASSUME NEW m \in Nodes, HasTask(now, m), ~HasTask(main, m)
       PROVE  Parent[m] = n
  <2>1. Task \in Marks(new[m]) /\ Task \notin Marks(main[m])
    BY <1>15, <1>17, TaskIsMark
  <2>2. Marks(tree[h][m]) = Marks(main[m])
    BY <1>1 DEF InStep
  <2>3. m # n
    BY <1>2, <1>17, <2>2, TaskIsMark
  <2>4. Task \in Marks(born[m])
    BY <1>11, <2>1, <2>3
  <2> QED  BY <1>10, <2>1, <2>2, <2>4 DEF Planned
<1>18. <<"plan-approved", k>> \in DOMAIN now[n]
  <2>1. <<"plan-approved", k>> \in Marks(now[n])
    <3> HIDE DEF k
    <3> QED  BY <1>11, <1>15
  <2> QED  BY <2>1 DEF Marks
<1>19. Whole(now)
  <2> SUFFICES ASSUME NEW m \in Nodes, HasTask(now, m), Parent[m] # NoNode
               PROVE  \E j \in 1 .. MaxNumber : <<"plan-approved", j>> \in DOMAIN now[Parent[m]]
    BY DEF Whole
  <2>1. CASE HasTask(main, m)
    <3>1. PICK j \in 1 .. MaxNumber : <<"plan-approved", j>> \in DOMAIN main[Parent[m]]
      BY <1>1, <2>1 DEF Whole
    <3>2. Marks(main[Parent[m]]) \subseteq Marks(now[Parent[m]]) /\ j \in Nat
      BY <1>14, ParentIsNode
    <3>3. <<"plan-approved", j>> \in DOMAIN now[Parent[m]]
      BY <3>1, <3>2, DecisionIsMark
    <3> QED  BY <3>3
  <2>2. CASE ~HasTask(main, m)
    <3> HIDE DEF k
    <3> QED  BY <1>3, <1>17, <1>18, <2>2
  <2> QED  BY <2>1, <2>2
<1>20. DecidedInv(h)' /\ main' \in {main, now}
  BY <1>1, <1>2, <1>8, <1>16, <1>19, CommandInStep DEF now
<1>21. Latest(now[n], "plan-approved") > Latest(main[n], "plan-approved")
  <2> DEFINE last == Latest(main[n], "plan-approved")
             newest == Latest(now[n], "plan-approved")
  <2>1. /\ last \in 0 .. MaxNumber /\ newest \in 0 .. MaxNumber /\ MaxNumber \in Nat
        /\ last # 0 => <<"plan-approved", last>> \in DOMAIN main[n]
        /\ k <= newest
    BY <1>3, <1>18, LatestIsGreatest, TreeAssumption DEF TreeAssumption
  <2>2. last # 0 => last < k
    <3> SUFFICES ASSUME last # 0 PROVE last < k
      OBVIOUS
    <3>1. last \in Nat /\ last \in 1 .. MaxNumber
      <4> HIDE DEF last, newest, k
      <4> QED  BY <2>1
    <3>2. <<"plan-approved", last>> \in Marks(tree[h][n])
      <4>1. <<"plan-approved", last>> \in Marks(main[n])
        BY <2>1, <3>1, DecisionIsMark
      <4> HIDE DEF last
      <4> QED  BY <1>1, <4>1 DEF InStep
    <3>3. <<"plan", last>> \in DOMAIN tree[h][n]
      <4> HIDE DEF last
      <4> QED  BY <1>1, <3>1, <3>2 DEF InStep, Plans
    <3>4. last <= k
      BY <3>1, <3>3, LatestIsGreatest
    <3>5. last # k
      <4> HIDE DEF last, k
      <4> QED  BY <1>2, <3>2 DEF Marks
    <3> HIDE DEF last, newest, k
    <3> QED  BY <1>3, <3>1, <3>4, <3>5
  <2> HIDE DEF last, newest, k
  <2>3. last < newest
    BY <1>3, <2>1, <2>2
  <2> QED  BY <2>1, <2>3 DEF last, newest
<1>22. CreatedByDecision
  <2> SUFFICES ASSUME NEW m \in Nodes, HasTask(main', m), ~HasTask(main, m)
               PROVE  Latest(main'[Parent[m]], "plan-approved") > Latest(main[Parent[m]], "plan-approved")
    BY DEF CreatedByDecision
  <2>1. main' = now
    BY <1>20
  <2>2. Parent[m] = n
    BY <1>17, <2>1
  <2> QED  BY <1>21, <2>1, <2>2
<1> QED  BY <1>20, <1>22
\* A run takes along what it found.
LEMMA DecidedStart ==
  ASSUME NEW h \in Hosts, DecidedInv(h), TypeInv', NEW r \in Runners, Start(r)
  PROVE  DecidedInv(h)' /\ NoneCreated
<1>1. PICK n \in Nodes :
        run' = [run EXCEPT ![r] =
             [phase |-> "working", node |-> n, nnn |-> NextNumber(tree[HostOf[r]][n]),
              base |-> main, mine |-> main]]
  BY DEF Start, Claimable
<1> DEFINE started == [phase |-> "working", node |-> n, nnn |-> NextNumber(tree[HostOf[r]][n]),
                       base |-> main, mine |-> main]
<1>2. started.base = started.mine
  OBVIOUS
<1>3. run' = [run EXCEPT ![r] = started]
  BY <1>1
<1> HIDE DEF started
<1>4. run'[r] = started /\ \A s \in Runners : s # r => run'[s] = run[s]
  BY <1>3 DEF DecidedInv, TypeInv
<1>5. RunsKeepMarks'
  BY <1>2, <1>4 DEF DecidedInv, RunsKeepMarks, Busy, KeepsMarks
<1>6. UNCHANGED <<main, tree>>
  BY DEF Start
<1> QED  BY <1>5, <1>6 DEF DecidedInv, NoneCreated

LEMMA DecidedFinish ==
  ASSUME NEW h \in Hosts, DecidedInv(h), TypeInv', NEW r \in Runners, Finish(r)
  PROVE  DecidedInv(h)' /\ NoneCreated
<1> DEFINE n == run[r].node
<1>1. PICK fact \in BOOLEAN, weaken \in {FALSE, MayWeaken}, seen \in {run[r].base[n], main[n]} :
        /\ fact => facts < MaxFacts /\ Planned(n) = {}
        /\ facts' = IF fact THEN facts + 1 ELSE facts
        /\ run' = [run EXCEPT
             ![r].phase = "publishing",
             ![r].mine = Signalled(r, Executed(r, fact,
                 IF weaken THEN "weakened" ELSE run[r].base[n][Task]), seen)]
  BY DEF Finish
<1> DEFINE contract == IF weaken THEN "weakened" ELSE run[r].base[n][Task]
           files == Executed(r, fact, contract)
           made == Signalled(r, files, seen)
<1>2. TypeInv /\ Busy(r) /\ run[r] \in RunRecords
  BY DEF DecidedInv, Finish, TypeInv, Busy
<1>3. n \in Nodes /\ HasTask(run[r].base, n)
  BY <1>2 DEF TypeInv, RunsOfTasks
<1>4. contract \in TreeContents
  <2>1. run[r].base[n] \in FileMaps
    BY <1>2, <1>3 DEF RunRecords, Trees
  <2>2. run[r].base[n][Task] \in TreeContents
    BY <1>3, <2>1, FileMapIs DEF HasTask
  <2> QED  BY <2>2, KnownContents
<1>5. facts \in Nat
  BY <1>2, TreeAssumption DEF TypeInv, TreeAssumption
<1> HIDE DEF contract, FileMaps, RunRecords
<1>6. files \in FileMaps
  BY <1>1, <1>2, <1>3, <1>4, <1>5, ExecutedMap
<1>7. Marks(files) = Marks(run[r].base[n]) /\ Plans(run[r].base[n]) \subseteq Plans(files)
  BY <1>3, ExecutedMarks
<1>8. run' = [run EXCEPT ![r].phase = "publishing", ![r].mine = made]
  BY <1>1 DEF contract
<1> HIDE DEF files
<1>9. KeepsMarks(run[r].base, made)
  BY <1>2, <1>3, <1>6, <1>7, SignalledMarks
<1> HIDE DEF made, n
<1>10. /\ run'[r].base = run[r].base /\ run'[r].mine = made
       /\ \A s \in Runners : s # r => run'[s] = run[s]
  BY <1>2, <1>8 DEF TypeInv, RunRecords
<1>11. RunsKeepMarks'
  BY <1>9, <1>10 DEF DecidedInv, RunsKeepMarks, Busy
<1>12. UNCHANGED <<main, tree>>
  BY DEF Finish
<1> QED  BY <1>11, <1>12 DEF DecidedInv, NoneCreated

LEMMA DecidedRunOver ==
  ASSUME TypeInv, RunsKeepMarks, NEW r \in Runners, run' = [run EXCEPT ![r] = IdleRun]
  PROVE  RunsKeepMarks'
<1>1. IdleRun.phase = "idle"
  BY DEF IdleRun
<1> HIDE DEF IdleRun
<1>2. run'[r] = IdleRun /\ \A s \in Runners : s # r => run'[s] = run[s]
  BY DEF TypeInv
<1> QED  BY <1>1, <1>2 DEF RunsKeepMarks, Busy

LEMMA DecidedPublish ==
  ASSUME NEW h \in Hosts, DecidedInv(h), TypeInv', NEW r \in Runners, PublishRun(r)
  PROVE  DecidedInv(h)' /\ NoneCreated
<1> DEFINE n == run[r].node
           failure == File(<<"run", run[r].nnn>>, "merge-conflict")
           rebased == [m \in Nodes |-> Rebased(main[m], run[r].base[m], run[r].mine[m])]
<1>1. /\ \/ main' = [main EXCEPT ![n] = Over(failure, @)]
         \/ /\ main' = rebased
            /\ \A m \in Nodes : ~Conflicting(main[m], run[r].base[m], run[r].mine[m])
      /\ Checkout(HostOf[r], main', tree[HostOf[r]])
      /\ run' = [run EXCEPT ![r] = IdleRun]
      /\ Busy(r)
  BY PublishedIs
<1>2. TypeInv /\ InStep(main, tree[h]) /\ Whole(main) /\ RunsKeepMarks /\ main' \in Trees
  BY DEF DecidedInv, TypeInv
<1>3. ASSUME NEW m \in Nodes
      PROVE  Marks(main'[m]) = Marks(main[m]) /\ Plans(main[m]) \subseteq Plans(main'[m])
  <2>1. CASE main' = [main EXCEPT ![n] = Over(failure, @)]
    <3>1. Marks(failure) = {} /\ Plans(failure) = {}
      BY OtherFile
    <3> HIDE DEF failure, n
    <3>2. Marks(Over(failure, main[m])) = Marks(main[m]) /\ Plans(Over(failure, main[m])) = Plans(main[m])
      BY <3>1, OverOthers
    <3>3. main'[m] \in {main[m], Over(failure, main[m])}
      BY <1>2, <2>1 DEF TypeInv, Trees
    <3> QED  BY <3>2, <3>3
  <2>2. CASE /\ main' = rebased
             /\ \A q \in Nodes : ~Conflicting(main[q], run[r].base[q], run[r].mine[q])
    <3>1. main'[m] = Rebased(main[m], run[r].base[m], run[r].mine[m])
      BY <2>2
    <3>2. /\ Marks(run[r].base[m]) = Marks(run[r].mine[m])
          /\ Plans(run[r].base[m]) \subseteq Plans(run[r].mine[m])
      BY <1>1, <1>2 DEF RunsKeepMarks, KeepsMarks
    <3>3. ~Conflicting(main[m], run[r].base[m], run[r].mine[m])
      BY <2>2
    <3> HIDE DEF rebased
    <3> QED  BY <3>1, <3>2, <3>3, RebasedMarks
  <2> QED  BY <1>1, <2>1, <2>2
<1> HIDE DEF failure, rebased, n
<1>4. InStep(main', tree[h])
  BY <1>2, <1>3 DEF InStep
<1>5. HostOf[r] \in Hosts /\ tree[HostOf[r]] \in Trees
  BY <1>2, TreeAssumption DEF TypeInv, TreeAssumption
<1>6. InStep(main', tree'[h])
  <2>1. CASE HostOf[r] = h
    BY <1>1, <1>2, <1>4, <1>5, <2>1, CheckoutInStep
  <2>2. CASE HostOf[r] # h
    BY <1>1, <1>2, <1>4, <1>5, <2>2, OtherCheckouts
  <2> QED  BY <2>1, <2>2
<1>7. Whole(main')
  BY <1>2, <1>3, WholeByMarks
<1>8. RunsKeepMarks'
  BY <1>1, <1>2, DecidedRunOver
<1>9. NoneCreated
  BY <1>3, TaskIsMark DEF NoneCreated
<1> QED  BY <1>6, <1>7, <1>8, <1>9 DEF DecidedInv

LEMMA DecidedPull ==
  ASSUME NEW h \in Hosts, DecidedInv(h), TypeInv', NEW g \in Hosts, Pull(g)
  PROVE  DecidedInv(h)' /\ NoneCreated
<1> DEFINE pulled == [n \in Nodes |-> Rebased(tree[g][n], head[g][n], main[n])]
<1>1. tree' = [tree EXCEPT ![g] = [n \in Nodes |-> Rebased(@[n], head[g][n], main[n])]]
  BY DEF Pull
<1>2. tree' = [tree EXCEPT ![g] = pulled]
  BY <1>1 DEF DecidedInv, TypeInv
<1>3. UNCHANGED <<main, run>>
  BY DEF Pull
<1>4. InStep(main, tree[h]) /\ main \in Trees /\ tree[h] \in Trees
  BY DEF DecidedInv, TypeInv
<1>5. g = h => InStep(main, pulled)
  BY <1>4, MergedInStep
<1> HIDE DEF pulled
<1>6. InStep(main, tree'[h])
  BY <1>2, <1>4, <1>5 DEF DecidedInv, TypeInv
<1> QED  BY <1>3, <1>6 DEF DecidedInv, RunsKeepMarks, Busy, NoneCreated

\* The commands that create and remove nodes are those of one checkout.
OneDecides(h) == Approvers \cup Invalidators \cup Killers \subseteq {h} \X Nodes

LEMMA DecidedNext ==
  ASSUME NEW h \in Hosts, OneDecides(h)
  PROVE  DecidedInv(h) /\ [TreeNext]_treeVars /\ [CommandSucceeds]_treeVars
           => DecidedInv(h)' /\ [CreatedByDecision]_treeVars
<1> SUFFICES ASSUME DecidedInv(h), [TreeNext]_treeVars, [CommandSucceeds]_treeVars
             PROVE  DecidedInv(h)' /\ [CreatedByDecision]_treeVars
  OBVIOUS
<1>1. TypeInv'
  BY TypesNext DEF DecidedInv
<1>2. CASE UNCHANGED treeVars
  <2>1. UNCHANGED <<main, tree, run>>
    BY <1>2 DEF treeVars
  <2> QED  BY <1>1, <1>2, <2>1 DEF DecidedInv, RunsKeepMarks, Busy
<1>3. CASE TreeNext /\ CommandSucceeds
  <2>1. NoneCreated => CreatedByDecision
    BY DEF NoneCreated, CreatedByDecision
  <2>2. ASSUME NEW r \in Runners, Start(r) \/ Finish(r) \/ PublishRun(r)
        PROVE  DecidedInv(h)' /\ CreatedByDecision
    BY <1>1, <2>1, <2>2, DecidedStart, DecidedFinish, DecidedPublish
  <2>3. ASSUME NEW r \in Runners, Die(r)
        PROVE  DecidedInv(h)' /\ CreatedByDecision
    <3>1. UNCHANGED <<main, tree>> /\ RunsKeepMarks'
      BY <2>3, DecidedRunOver DEF Die, DecidedInv
    <3> QED  BY <1>1, <2>1, <3>1 DEF DecidedInv, NoneCreated
  <2>4. ASSUME NEW g \in Hosts, NEW n \in Nodes, Verdict(g, n)
        PROVE  DecidedInv(h)' /\ CreatedByDecision
    BY <1>1, <1>3, <2>1, <2>4, DecidedVerdict
  <2>5. ASSUME NEW g \in Hosts, NEW n \in Nodes, Approve(g, n) \/ LifecycleCommand(g, n)
        PROVE  DecidedInv(h)' /\ CreatedByDecision
    <3>1. g = h
      BY <2>5 DEF OneDecides, Approve, LifecycleCommand, Invalidate, Kill
    <3>2. CASE Approve(h, n)
      BY <1>1, <1>3, <3>2, DecidedApprove
    <3>3. CASE Invalidate(h, n) \/ Kill(h, n)
      BY <1>1, <1>3, <2>1, <3>3, DecidedInvalidate, DecidedKill
    <3> QED  BY <2>5, <3>1, <3>2, <3>3 DEF LifecycleCommand
  <2>6. ASSUME NEW g \in Hosts, Pull(g)
        PROVE  DecidedInv(h)' /\ CreatedByDecision
    BY <1>1, <2>1, <2>6, DecidedPull
  <2> QED  BY <1>3, <2>2, <2>3, <2>4, <2>5, <2>6 DEF TreeNext
<1> QED  BY <1>2, <1>3

LEMMA DecidedInit ==
  ASSUME NEW h \in Hosts
  PROVE  TreeInit => DecidedInv(h)
<1> SUFFICES ASSUME TreeInit PROVE DecidedInv(h)
  OBVIOUS
<1> DEFINE task == File(Task, "written")
           plan == Over(File(<<"plan", 1>>, "composite"), File(<<"plan-approved", 1>>, "written"))
           grown == Over(task, plan)
<1>1. TypeInv
  BY TypesInit
<1>2. \A n \in Nodes :
        main[n] = IF n \in Grown THEN grown
                  ELSE IF Parent[n] = NoNode \/ Parent[n] \in Grown THEN task ELSE NoFiles
  BY DEF TreeInit
<1>3. DOMAIN task = {Task} /\ DOMAIN grown = {Task, <<"plan", 1>>, <<"plan-approved", 1>>}
  BY DEF Over, File
<1>4. DOMAIN NoFiles = {}
  BY DEF NoFiles
<1> HIDE DEF task, grown, NoFiles
<1>5. tree[h] = main
  BY DEF TreeInit
<1>6. InStep(main, tree[h])
  <2>1. ASSUME NEW n \in Nodes, NEW k \in Nat, <<"plan-approved", k>> \in Marks(main[n])
        PROVE  <<"plan", k>> \in Plans(main[n])
    <3>1. DOMAIN main[n] \in {DOMAIN grown, {Task}, {}}
      BY <1>2, <1>3, <1>4
    <3>2. <<"plan-approved", k>> \in DOMAIN main[n] /\ <<"plan-approved", k>> # Task
      BY <2>1, MarkNamesApart DEF Marks
    <3>3. DOMAIN main[n] = DOMAIN grown
      BY <3>1, <3>2
    <3>4. k = 1 /\ <<"plan", k>> \in DOMAIN main[n]
      BY <1>3, <3>2, <3>3
    <3> QED  BY <3>4, MarkNamesApart DEF Plans
  <2> QED  BY <1>5, <2>1 DEF InStep
<1>7. Whole(main)
  <2> SUFFICES ASSUME NEW n \in Nodes, HasTask(main, n), Parent[n] # NoNode
               PROVE  \E k \in 1 .. MaxNumber : <<"plan-approved", k>> \in DOMAIN main[Parent[n]]
    BY DEF Whole
  <2>1. Parent[n] \in Grown
    BY <1>2, <1>4, TreeAssumption DEF HasTask, TreeAssumption
  <2>2. <<"plan-approved", 1>> \in DOMAIN main[Parent[n]]
    BY <1>2, <1>3, <2>1, ParentIsNode
  <2>3. 1 \in 1 .. MaxNumber
    BY TreeAssumption DEF TreeAssumption
  <2> QED  BY <2>2, <2>3
<1>8. RunsKeepMarks
  <2>1. IdleRun.phase = "idle"
    BY DEF IdleRun
  <2> HIDE DEF IdleRun
  <2> QED  BY <2>1 DEF TreeInit, RunsKeepMarks, Busy
<1> QED  BY <1>1, <1>6, <1>7, <1>8 DEF DecidedInv

LEMMA WholeIsSubgraph == Whole(main) <=> SubgraphWhole
BY DEF Whole, SubgraphWhole

\* No partial subgraph (spawn.rs spawn_approve): as long as the commands that create and
\* remove nodes come from one checkout and reach main, a child is on main only with an
\* approved plan of its parent, for all trees, runs and hosts that audit.
THEOREM SubgraphsWhole ==
  ASSUME NEW h \in Hosts, OneDecides(h)
  PROVE  TreeSpec /\ [][CommandSucceeds]_treeVars => []SubgraphWhole
<1>1. TreeInit => DecidedInv(h)
  BY DecidedInit
<1>2. DecidedInv(h) /\ [TreeNext]_treeVars /\ [CommandSucceeds]_treeVars => DecidedInv(h)'
  BY DecidedNext
<1>3. DecidedInv(h) => SubgraphWhole
  BY WholeIsSubgraph DEF DecidedInv
<1> QED  BY <1>1, <1>2, <1>3, PTL DEF TreeSpec

\* Under the same conditions a node that was killed on main comes back by an approval that
\* is newer than those before, not by a run that was under way (lifecycle.rs kill).
THEOREM ApprovalsCreate ==
  ASSUME NEW h \in Hosts, OneDecides(h)
  PROVE  TreeSpec /\ [][CommandSucceeds]_treeVars => OnlyApprovalCreates
<1>1. TreeInit => DecidedInv(h)
  BY DecidedInit
<1>2. DecidedInv(h) /\ [TreeNext]_treeVars /\ [CommandSucceeds]_treeVars
        => DecidedInv(h)' /\ [CreatedByDecision]_treeVars
  BY DecidedNext
<1>3. TreeSpec /\ [][CommandSucceeds]_treeVars => [][CreatedByDecision]_treeVars
  BY <1>1, <1>2, PTL DEF TreeSpec
<1> QED  BY <1>3 DEF OnlyApprovalCreates, CreatedByDecision
-----------------------------------------------------------------------------
(* What the files of a node say, and files that do not matter to it.       *)

LEMMA FactStateIs ==
  ASSUME NEW files
  PROVE  LET k == Latest(files, "fact")
         IN  /\ Resolved(files) <=>
                  /\ k # 0
                  /\ \/ <<"pending-audit", k>> \notin DOMAIN files
                     \/ /\ <<"audit-result", k>> \in DOMAIN files
                        /\ files[<<"audit-result", k>>] = "success"
             /\ FactState(files) = "none" <=>
                  \/ k = 0
                  \/ /\ <<"pending-audit", k>> \in DOMAIN files
                     /\ <<"audit-result", k>> \in DOMAIN files
                     /\ files[<<"audit-result", k>>] # "success"
BY DEF FactState, Resolved

LEMMA FactNumber ==
  ASSUME NEW files, Latest(files, "fact") # 0
  PROVE  /\ Latest(files, "fact") \in 1 .. MaxNumber /\ Latest(files, "fact") \in Nat
         /\ <<"fact", Latest(files, "fact")>> \in DOMAIN files
<1>1. Latest(files, "fact") \in 0 .. MaxNumber /\ MaxNumber \in Nat
  BY LatestIsGreatest, TreeAssumption DEF TreeAssumption
<1>2. Latest(files, "fact") \in 1 .. MaxNumber
  BY <1>1
<1> QED  BY <1>1, <1>2, LatestIsGreatest

\* Nothing to start a run from, and nothing to complete a parent on.
Undecided(files) == FactState(files) = "none"

DecisiveNames == {"fact", "pending-audit", "audit-result"} \X Nat

\* Two copies that say the same.
Agree(a, b) ==
    \A f \in DecisiveNames : /\ f \in DOMAIN a <=> f \in DOMAIN b
                             /\ f \in DOMAIN a => a[f] = b[f]

LEMMA AgreeSame ==
  ASSUME NEW a, NEW b, Agree(a, b)
  PROVE  /\ Latest(a, "fact") = Latest(b, "fact")
         /\ FactState(a) = FactState(b)
<1>1. MaxNumber \in Nat
  BY TreeAssumption DEF TreeAssumption
<1>2. \A k \in Nat : \A kind \in {"fact", "pending-audit", "audit-result"} :
        <<kind, k>> \in DecisiveNames
  BY DEF DecisiveNames
<1>3. Numbers(a, "fact") = Numbers(b, "fact")
  <2>1. ASSUME NEW k \in 1 .. MaxNumber  PROVE <<"fact", k>> \in DOMAIN a <=> <<"fact", k>> \in DOMAIN b
    <3>1. k \in Nat
      BY <1>1
    <3>2. <<"fact", k>> \in DecisiveNames
      BY <1>2, <3>1
    <3> QED  BY <3>2 DEF Agree
  <2> QED  BY <2>1 DEF Numbers
<1>4. Latest(a, "fact") = Latest(b, "fact")
  BY <1>3 DEF Latest
<1> DEFINE k == Latest(a, "fact")
<1>5. CASE k = 0
  BY <1>4, <1>5 DEF FactState
<1>6. CASE k # 0
  <2>1. k \in Nat /\ k = Latest(b, "fact")
    BY <1>4, <1>6, FactNumber
  <2> HIDE DEF k
  <2>2. /\ <<"pending-audit", k>> \in DOMAIN a <=> <<"pending-audit", k>> \in DOMAIN b
        /\ <<"audit-result", k>> \in DOMAIN a <=> <<"audit-result", k>> \in DOMAIN b
        /\ <<"audit-result", k>> \in DOMAIN a => a[<<"audit-result", k>>] = b[<<"audit-result", k>>]
    BY <1>2, <2>1 DEF Agree
  <2> QED  BY <1>6, <2>1, <2>2 DEF FactState, k
<1> QED  BY <1>4, <1>5, <1>6

\* The fact that resolves a is somewhere in b.
Kept(a, b) == Resolved(a) => a[<<"fact", Latest(a, "fact")>>] \in {b[f] : f \in DOMAIN b}

LEMMA KeptInPlace ==
  ASSUME NEW a, NEW b,
         LET f == <<"fact", Latest(a, "fact")>>
         IN  Resolved(a) => f \in DOMAIN b /\ b[f] = a[f]
  PROVE  Kept(a, b)
BY DEF Kept

LEMMA ResolvedHasFact ==
  ASSUME NEW a, Resolved(a)
  PROVE  /\ Latest(a, "fact") \in 1 .. MaxNumber /\ Latest(a, "fact") \in Nat
         /\ <<"fact", Latest(a, "fact")>> \in DOMAIN a
BY FactStateIs, FactNumber

LEMMA AgreeKept ==
  ASSUME NEW a, NEW b, Agree(a, b)
  PROVE  Kept(a, b)
<1>1. ASSUME Resolved(a)
      PROVE  LET f == <<"fact", Latest(a, "fact")>> IN f \in DOMAIN b /\ b[f] = a[f]
  <2>1. <<"fact", Latest(a, "fact")>> \in DecisiveNames
    BY <1>1, ResolvedHasFact DEF DecisiveNames
  <2> QED  BY <1>1, <2>1, ResolvedHasFact DEF Agree
<1> QED  BY <1>1, KeptInPlace

NoPendings(files) == \A k \in Nat : <<"pending-audit", k>> \notin DOMAIN files

\* Files written over a node that say nothing about it.
LEMMA WrittenOver ==
  ASSUME NEW new, NEW old,
         \A f \in DOMAIN new \cap DecisiveNames : f \in DOMAIN old /\ new[f] = old[f]
  PROVE  Agree(old, Over(new, old))
BY DEF Agree, Over

LEMMA OtherFileOver ==
  ASSUME NEW name, name \notin DecisiveNames, NEW content, NEW old
  PROVE  Agree(old, Over(File(name, content), old))
<1>1. DOMAIN File(name, content) = {name}
  BY DEF File
<1> QED  BY <1>1, WrittenOver

LEMMA NotDecisive ==
  /\ Task \notin DecisiveNames
  /\ \A k : /\ <<"run", k>> \notin DecisiveNames /\ <<"plan", k>> \notin DecisiveNames
            /\ <<"plan-approved", k>> \notin DecisiveNames /\ <<"history", k>> \notin DecisiveNames
BY DEF DecisiveNames, Task

\* A verdict decides about the fact that is open, never again about one that was rejected.
LEMMA VerdictOver ==
  ASSUME NEW files, NEW k \in Nat, <<"audit-result", k>> \notin DOMAIN files, NEW result
  PROVE  LET new == Over(File(<<"audit-result", k>>, result), files)
         IN  /\ Undecided(files) => Undecided(new)
             /\ Kept(files, new)
             /\ NoPendings(files) => NoPendings(new)
<1> DEFINE new == Over(File(<<"audit-result", k>>, result), files)
<1>1. /\ DOMAIN new = DOMAIN files \cup {<<"audit-result", k>>}
      /\ \A f \in DOMAIN files : new[f] = files[f]
  BY DEF Over, File
<1> HIDE DEF new
<1>2. Numbers(new, "fact") = Numbers(files, "fact")
  BY <1>1 DEF Numbers
<1>3. Latest(new, "fact") = Latest(files, "fact")
  BY <1>2 DEF Latest
<1> DEFINE l == Latest(files, "fact")
<1>4. Undecided(files) => Undecided(new)
  <2>1. /\ FactState(files) = "none" <=>
             \/ l = 0
             \/ /\ <<"pending-audit", l>> \in DOMAIN files
                /\ <<"audit-result", l>> \in DOMAIN files
                /\ files[<<"audit-result", l>>] # "success"
        /\ FactState(new) = "none" <=>
             \/ l = 0
             \/ /\ <<"pending-audit", l>> \in DOMAIN new
                /\ <<"audit-result", l>> \in DOMAIN new
                /\ new[<<"audit-result", l>>] # "success"
    BY <1>3, FactStateIs
  <2> HIDE DEF l
  <2> QED  BY <1>1, <2>1 DEF Undecided
<1>5. Kept(files, new)
  BY <1>1, ResolvedHasFact, KeptInPlace
<1>6. NoPendings(files) => NoPendings(new)
  BY <1>1 DEF NoPendings
<1> QED  BY <1>4, <1>5, <1>6 DEF new

\* An archive keeps the fact that resolved the node.
LEMMA ArchiveKeeps ==
  ASSUME NEW files
  PROVE  /\ Undecided(Archived(files))
         /\ Kept(files, Archived(files))
         /\ NoPendings(Archived(files))
<1> DEFINE chain == ChainOf(files)
           k == Latest(files, "fact")
           kept == IF k = 0 THEN "written" ELSE files[<<"fact", k>>]
           name == <<"history", Latest(files, "history") + 1>>
           new == Archived(files)
<1>1. new = IF chain = {} THEN files ELSE Over(File(name, kept), Without(files, chain))
  BY DEF Archived
<1>2. /\ DOMAIN Over(File(name, kept), Without(files, chain)) = {name} \cup (DOMAIN files \ chain)
      /\ Over(File(name, kept), Without(files, chain))[name] = kept
  BY DEF Over, File, Without
<1>3. \A j : /\ <<"fact", j>> \in DOMAIN files => <<"fact", j>> \in chain
             /\ <<"pending-audit", j>> \in DOMAIN files => <<"pending-audit", j>> \in chain
  BY DEF ChainOf, Chain
<1>4. \A j : <<"fact", j>> # name /\ <<"pending-audit", j>> # name
  OBVIOUS
<1> HIDE DEF new, name, chain
<1>5. \A j : <<"fact", j>> \notin DOMAIN new /\ <<"pending-audit", j>> \notin DOMAIN new
  <2>1. CASE chain = {}
    BY <1>1, <1>3, <2>1
  <2>2. CASE chain # {}
    BY <1>1, <1>2, <1>3, <1>4, <2>2
  <2> QED  BY <2>1, <2>2
<1>6. Undecided(new)
  <2>1. Latest(new, "fact") = 0
    BY <1>5, LatestIsGreatest
  <2> QED  BY <2>1, FactStateIs DEF Undecided
<1>7. Kept(files, new)
  <2> SUFFICES ASSUME Resolved(files)
               PROVE  files[<<"fact", k>>] \in {new[f] : f \in DOMAIN new}
    BY DEF Kept
  <2>1. k # 0 /\ <<"fact", k>> \in DOMAIN files
    BY FactStateIs, LatestIsGreatest
  <2>2. chain # {}
    BY <1>3, <2>1
  <2>3. name \in DOMAIN new /\ new[name] = files[<<"fact", k>>]
    BY <1>1, <1>2, <2>1, <2>2
  <2> QED  BY <2>3
<1> QED  BY <1>5, <1>6, <1>7 DEF NoPendings, new

-----------------------------------------------------------------------------
(* Facts in the worktree of a run.                                         *)

KeepsFacts(old, new) ==
    \A k \in 1 .. MaxNumber :
        <<"fact", k>> \in DOMAIN old =>
            <<"fact", k>> \in DOMAIN new /\ new[<<"fact", k>>] = old[<<"fact", k>>]

\* What a run of n may make of what it found: parents get facts and lose none, leaves but n
\* itself are as they were.
Worked(n, base, mine) ==
    \A m \in Nodes : IF Planned(m) # {} THEN NoPendings(mine[m]) /\ KeepsFacts(base[m], mine[m])
                     ELSE m # n => mine[m] = base[m]

\* A parent is completed only if it has no fact, since no audit is ever open on it.
LEMMA CompletedWorked ==
  ASSUME NEW n \in Nodes, NEW base \in Trees, NEW u \in Trees, NEW p \in Nodes,
         NEW fact \in TreeContents, Worked(n, base, u), MayComplete(u, p)
  PROVE  Completed(u, p, fact) \in Trees /\ Worked(n, base, Completed(u, p, fact))
<1> DEFINE k == NextNumber(u[p])
           pair == Over(File(<<"run", k>>, "success"), File(<<"fact", k>>, fact))
           new == Over(pair, u[p])
<1>1. Completed(u, p, fact) \in Trees
  BY CompletedTree
<1>2. Completed(u, p, fact) = [u EXCEPT ![p] = new]
  BY DEF Completed, Trees
<1>3. Planned(p) # {} /\ ~Resolved(u[p])
  BY DEF MayComplete, Children
<1>4. NoPendings(u[p]) /\ KeepsFacts(base[p], u[p])
  BY <1>3 DEF Worked
<1>5. Latest(u[p], "fact") = 0
  <2>1. ASSUME Latest(u[p], "fact") # 0  PROVE FALSE
    <3>1. Latest(u[p], "fact") \in Nat
      BY <2>1, FactNumber
    <3>2. <<"pending-audit", Latest(u[p], "fact")>> \notin DOMAIN u[p]
      BY <1>4, <3>1 DEF NoPendings
    <3> QED  BY <1>3, <2>1, <3>2, FactStateIs
  <2> QED  BY <2>1
<1>6. \A j \in 1 .. MaxNumber : <<"fact", j>> \notin DOMAIN u[p]
  <2>1. ASSUME NEW j \in 1 .. MaxNumber, <<"fact", j>> \in DOMAIN u[p]  PROVE FALSE
    <3>1. j <= 0
      BY <1>5, <2>1, LatestIsGreatest
    <3>2. MaxNumber \in Nat
      BY TreeAssumption DEF TreeAssumption
    <3> QED  BY <3>1, <3>2
  <2> QED  BY <2>1
<1>7. KeepsFacts(base[p], new)
  BY <1>4, <1>6 DEF KeepsFacts
<1>8. NoPendings(new)
  <2>1. DOMAIN new = {<<"run", k>>, <<"fact", k>>} \cup DOMAIN u[p]
    BY DEF Over, File
  <2> HIDE DEF new
  <2> QED  BY <1>4, <2>1 DEF NoPendings
<1> HIDE DEF new
<1>9. Worked(n, base, [u EXCEPT ![p] = new])
  <2> DEFINE v == [u EXCEPT ![p] = new]
  <2>1. v[p] = new /\ \A m \in Nodes : m # p => v[m] = u[m]
    BY DEF Trees
  <2> HIDE DEF v
  <2>2. Worked(n, base, v)
    BY <1>3, <1>7, <1>8, <2>1 DEF Worked
  <2> QED  BY <2>2 DEF v
<1> QED  BY <1>1, <1>2, <1>9

LEMMA SignalOfParent ==
  ASSUME NEW r \in Runners, NEW files, NEW seen, Planned(run[r].node) # {}
  PROVE  Signalled(r, files, seen)
           = [run[r].base EXCEPT ![run[r].node] = Over(File(<<"run", run[r].nnn>>, "decomposed"), files)]
BY DEF Signalled

LEMMA ExecutedOfParent ==
  ASSUME NEW r \in Runners, NEW fact, NEW contract, Planned(run[r].node) # {}
  PROVE  LET files == run[r].base[run[r].node]
         IN  Executed(r, fact, contract)
               = Over(File(<<"plan", Latest(files, "plan") + 1>>, "composite"),
                      Over(File(Task, contract), files))
BY DEF Executed

LEMMA FactsOver ==
  ASSUME NEW name, NEW content, NEW old,
         \A k : name # <<"fact", k>> /\ name # <<"pending-audit", k>>
  PROVE  LET new == Over(File(name, content), old)
         IN  /\ \A base : KeepsFacts(base, old) => KeepsFacts(base, new)
             /\ NoPendings(old) => NoPendings(new)
<1> DEFINE new == Over(File(name, content), old)
<1>1. /\ DOMAIN new = DOMAIN old \cup {name}
      /\ \A f \in DOMAIN old : f # name => new[f] = old[f]
  BY DEF Over, File
<1> HIDE DEF new
<1>2. ASSUME NEW base, KeepsFacts(base, old)  PROVE KeepsFacts(base, new)
  BY <1>1, <1>2 DEF KeepsFacts
<1>3. NoPendings(old) => NoPendings(new)
  BY <1>1 DEF NoPendings
<1> QED  BY <1>2, <1>3 DEF new

LEMMA SignalWorked ==
  ASSUME NEW r \in Runners, run[r] \in RunRecords, run[r].node \in Nodes,
         NEW fact \in BOOLEAN, NEW contract, NEW seen,
         Executed(r, fact, contract) \in FileMaps,
         \A m \in Nodes : Planned(m) # {} => NoPendings(run[r].base[m])
  PROVE  Worked(run[r].node, run[r].base, Signalled(r, Executed(r, fact, contract), seen))
<1> DEFINE n == run[r].node
           base == run[r].base
           files == Executed(r, fact, contract)
           made == Signalled(r, files, seen)
<1>1. base \in Trees /\ n \in Nodes
  BY DEF RunRecords
<1>2. \A a : KeepsFacts(a, a)
  BY DEF KeepsFacts
<1>3. \A a : Planned(n) = {} => Worked(n, base, [base EXCEPT ![n] = a])
  <2>1. ASSUME NEW a, Planned(n) = {}  PROVE Worked(n, base, [base EXCEPT ![n] = a])
    <3> DEFINE t == [base EXCEPT ![n] = a]
    <3>1. \A m \in Nodes : m # n => t[m] = base[m]
      BY <1>1 DEF Trees
    <3> HIDE DEF t
    <3>2. Worked(n, base, t)
      BY <1>2, <2>1, <3>1 DEF Worked
    <3> QED  BY <3>2 DEF t
  <2> QED  BY <2>1
<1>4. CASE Planned(n) # {}
  <2> DEFINE own == Over(File(Task, contract), base[n])
             planned == Over(File(<<"plan", Latest(base[n], "plan") + 1>>, "composite"), own)
             decomposed == Over(File(<<"run", run[r].nnn>>, "decomposed"), planned)
  <2>1. made = [base EXCEPT ![n] = decomposed]
    BY <1>4, SignalOfParent, ExecutedOfParent
  <2>2. KeepsFacts(base[n], base[n]) /\ NoPendings(base[n])
    BY <1>1, <1>2, <1>4
  <2>3. KeepsFacts(base[n], own) /\ NoPendings(own)
    <3>1. \A k : Task # <<"fact", k>> /\ Task # <<"pending-audit", k>>
      BY DEF Task
    <3> QED  BY <2>2, <3>1, FactsOver
  <2> HIDE DEF own
  <2>4. KeepsFacts(base[n], planned) /\ NoPendings(planned)
    BY <2>3, FactsOver
  <2> HIDE DEF planned
  <2>5. KeepsFacts(base[n], decomposed) /\ NoPendings(decomposed)
    BY <2>4, FactsOver
  <2> HIDE DEF decomposed, made
  <2> DEFINE t == [base EXCEPT ![n] = decomposed]
  <2>6. t[n] = decomposed /\ \A m \in Nodes : m # n => t[m] = base[m]
    BY <1>1 DEF Trees
  <2> HIDE DEF t
  <2>7. Worked(n, base, t)
    BY <1>2, <2>5, <2>6, <1>4 DEF Worked
  <2> QED  BY <2>1, <2>7 DEF t, made
<1>5. CASE Planned(n) = {}
  <2> DEFINE next == NextNumber(files)
             opened == IF Audit[n] = "required" THEN File(<<"pending-audit", next>>, "written")
                       ELSE NoFiles
             after == Over(Over(File(<<"run", next>>, "success"), opened), files)
             done == [base EXCEPT ![n] = after]
             planned == Over(File(<<"run", run[r].nnn>>, "decomposed"), files)
             refused == Marked(Over(File(<<"run", run[r].nnn>>, "failed"),
                                    Without(files, {<<"fact", run[r].nnn>>})))
             X == {t \in Trees : Worked(n, base, t)}
  <2>1. \/ made = [base EXCEPT ![n] = planned]
        \/ made = [base EXCEPT ![n] = refused]
        \/ made = done
        \/ made = Propagated(done, n, files[<<"fact", next>>]) /\ <<"fact", next>> \in DOMAIN files
    BY SignalCases
  <2>2. /\ Worked(n, base, [base EXCEPT ![n] = planned])
        /\ Worked(n, base, [base EXCEPT ![n] = refused])
        /\ Worked(n, base, done)
    <3> HIDE DEF planned, refused, after
    <3> QED  BY <1>3, <1>5
  <2>3. ASSUME <<"fact", next>> \in DOMAIN files
        PROVE  Worked(n, base, Propagated(done, n, files[<<"fact", next>>]))
    <3>1. files[<<"fact", next>>] \in TreeContents
      BY <2>3, FileMapIs
    <3>2. after \in FileMaps
      <4>1. next \in Nat
        BY NumbersAreNumbers
      <4>2. <<"run", next>> \in TreeNames /\ <<"pending-audit", next>> \in TreeNames
        BY <4>1, KnownNames DEF Chain
      <4> HIDE DEF next
      <4>3. opened \in FileMaps
        BY <4>2, FileMap, NoFileMap, KnownContents
      <4> HIDE DEF opened
      <4> QED  BY <4>2, <4>3, FileMap, OverMap, KnownContents
    <3> HIDE DEF after, next, files
    <3>3. done \in X
      BY <1>1, <2>2, <3>2, TreeWith
    <3>4. \A u \in X, p \in Nodes :
            MayComplete(u, p) => Completed(u, p, files[<<"fact", next>>]) \in X
      BY <1>1, <3>1, CompletedWorked
    <3> HIDE DEF X, done
    <3>5. Propagated(done, n, files[<<"fact", next>>]) \in X
      BY <1>1, <3>3, <3>4, PropagatedStays
    <3> QED  BY <3>5 DEF X
  <2> HIDE DEF made, planned, refused, done, next, files
  <2>4. Worked(n, base, made)
    BY <2>1, <2>2, <2>3
  <2> QED  BY <2>4 DEF made, files
<1> QED  BY <1>4, <1>5

-----------------------------------------------------------------------------
(* Merges.                                                                 *)

\* A fact that a run leaves alone, it leaves alone on main.
LEMMA RebasedKeeps ==
  ASSUME NEW theirs, NEW base, NEW mine, NEW f \in DOMAIN theirs,
         ~Conflicting(theirs, base, mine),
         f \in DOMAIN base => f \in DOMAIN mine /\ mine[f] = base[f]
  PROVE  LET merged == Rebased(theirs, base, mine)
         IN  f \in DOMAIN merged /\ merged[f] = theirs[f]
<1> DEFINE own == Changed(base, mine)
<1>1. f \notin own
  BY DEF Conflicting, Changed
<1> QED  BY <1>1 DEF Rebased

LEMMA RebasedNames ==
  ASSUME NEW theirs, NEW base, NEW mine
  PROVE  DOMAIN Rebased(theirs, base, mine) \subseteq DOMAIN theirs \cup DOMAIN mine
BY DEF Rebased

\* Nothing done, nothing changed.
LEMMA RebasedNothing ==
  ASSUME NEW theirs \in FileMaps, NEW x
  PROVE  Rebased(theirs, x, x) = theirs
<1>1. Changed(x, x) = {}
  BY DEF Changed
<1>2. theirs = [f \in DOMAIN theirs |-> theirs[f]]
  BY FileMapIs
<1> QED  BY <1>1, <1>2 DEF Rebased

LEMMA RebasedFrom ==
  ASSUME NEW x \in FileMaps, NEW y \in FileMaps
  PROVE  Rebased(x, x, y) = y
<1> DEFINE own == Changed(x, y)
           merged == Rebased(x, x, y)
<1>1. /\ DOMAIN merged = (DOMAIN x \ own) \cup (own \cap DOMAIN y)
      /\ merged = [f \in DOMAIN merged |-> merged[f]]
      /\ \A f \in DOMAIN merged : merged[f] = IF f \in own THEN y[f] ELSE x[f]
  BY DEF Rebased
<1>2. y = [f \in DOMAIN y |-> y[f]]
  BY FileMapIs
<1>3. /\ \A f \in DOMAIN x : f \notin own => f \in DOMAIN y /\ y[f] = x[f]
      /\ \A f \in DOMAIN y : f \notin own => f \in DOMAIN x /\ y[f] = x[f]
  BY DEF Changed
<1> HIDE DEF merged, own
<1>4. DOMAIN merged = DOMAIN y
  BY <1>1, <1>3
<1>5. \A f \in DOMAIN y : merged[f] = y[f]
  BY <1>1, <1>3, <1>4
<1> QED  BY <1>1, <1>2, <1>4, <1>5 DEF merged

\* A checkout where nobody works takes what main has.
LEMMA CleanCheckout ==
  ASSUME TypeInv, NEW h \in Hosts, NEW now \in Trees, tree[h] = head[h],
         Checkout(h, now, tree[h])
  PROVE  tree'[h] = now /\ head'[h] = now
<1> DEFINE merged == [n \in Nodes |-> Rebased(now[n], head[h][n], tree[h][n])]
<1>1. FastForwards(head[h], now, tree[h])
  BY DEF FastForwards, Changed
<1>2. tree' = [tree EXCEPT ![h] = merged] /\ head' = [head EXCEPT ![h] = now]
  BY <1>1 DEF Checkout
<1>3. \A n \in Nodes : Rebased(now[n], head[h][n], tree[h][n]) = now[n]
  BY RebasedNothing DEF Trees
<1>4. merged = now
  <2>1. now = [n \in Nodes |-> now[n]]
    BY DEF Trees
  <2> QED  BY <1>3, <2>1
<1> HIDE DEF merged, Trees
<1> QED  BY <1>2, <1>4 DEF TypeInv

-----------------------------------------------------------------------------
(* Facts stay, with one server and commands of people who have pulled.     *)

\* All runs are on one machine, where nobody gives a command.
OneServer(s) ==
    /\ s \in Hosts
    /\ \A r \in Runners : HostOf[r] = s
    /\ \A n \in Nodes : <<s, n>> \notin Approvers \cup Auditors \cup Invalidators \cup Killers

\* A command is given in a checkout that is as main is.
UpToDate ==
    \A h \in Hosts, n \in Nodes :
        Approve(h, n) \/ Verdict(h, n) \/ LifecycleCommand(h, n) => tree[h] = main

\* The server's checkout is a commit of main, and what is undecided there is undecided on
\* main; so is the leaf of every run, and no audit is open on a parent.
KeptInv(s) ==
    /\ TypeInv
    /\ tree[s] = head[s]
    /\ \A n \in Nodes : Undecided(tree[s][n]) => Undecided(main[n])
    /\ \A n \in Nodes : Planned(n) # {} => NoPendings(main[n])
    /\ \A r \in Runners : Busy(r) =>
         /\ Planned(run[r].node) = {} => Undecided(main[run[r].node])
         /\ \A m \in Nodes : Planned(m) # {} => NoPendings(run[r].base[m])
         /\ run[r].phase = "publishing" => Worked(run[r].node, run[r].base, run[r].mine)

\* The step keeps every fact that resolves a node which stays.
KeepsResults == \A n \in Nodes : HasTask(main', n) => Kept(main[n], main'[n])

LEMMA AgreeItself == ASSUME NEW a PROVE Agree(a, a)
BY DEF Agree

LEMMA MainAsItWas ==
  ASSUME UNCHANGED main
  PROVE  KeepsResults
BY AgreeItself, AgreeKept DEF KeepsResults

LEMMA WithoutNothing ==
  ASSUME NEW a \in FileMaps
  PROVE  Without(a, {}) = a
<1>1. a = [f \in DOMAIN a |-> a[f]]
  BY FileMapIs
<1> QED  BY <1>1 DEF Without

LEMMA KeptByAgreement ==
  ASSUME NEW a, NEW b, Agree(a, b)
  PROVE  /\ Undecided(a) => Undecided(b)
         /\ NoPendings(a) => NoPendings(b)
         /\ Kept(a, b)
<1>1. NoPendings(a) => NoPendings(b)
  BY DEF NoPendings, Agree, DecisiveNames
<1> QED  BY <1>1, AgreeSame, AgreeKept DEF Undecided

\* A command in another checkout: main is as the command publishes it, or as it was.
LEMMA CommandIs ==
  ASSUME TypeInv, NEW s \in Hosts, NEW g \in Hosts, g # s,
         NEW files, NEW gone, NEW present, PublishFrom(g, files, gone, present)
  PROVE  /\ tree'[s] = tree[s] /\ head'[s] = head[s]
         /\ \/ main' = main
            \/ \A m \in Nodes : main'[m] = Over(present[m], Without(main[m], gone[m]))
<1>1. \/ /\ main' = [n \in Nodes |-> Over(present[n], Without(main[n], gone[n]))]
         /\ Checkout(g, main', files)
      \/ main' = main /\ head' = head /\ tree' = [tree EXCEPT ![g] = files]
  BY DEF PublishFrom
<1>2. tree'[s] = tree[s] /\ head'[s] = head[s]
  BY <1>1 DEF Checkout, TypeInv
<1> QED  BY <1>1, <1>2

LEMMA OverItself ==
  ASSUME NEW a \in FileMaps
  PROVE  Over(a, a) = a /\ Over(NoFiles, a) = a
<1>1. a = [f \in DOMAIN a |-> a[f]] /\ DOMAIN NoFiles = {}
  BY FileMapIs DEF NoFiles
<1> QED  BY <1>1 DEF Over

\* Marks written over a node, which has the rest already.
Marking(old, new) ==
    \E marks : /\ new = Over(marks, old)
               /\ \A f \in DOMAIN marks :
                     f \in MarkNames \/ (f \in DOMAIN old /\ marks[f] = old[f])

\* An approval, given where everything is as on main: new tasks, and the decision.
LEMMA ApproveIs ==
  ASSUME TypeInv, NEW s \in Hosts, NEW g \in Hosts, g # s, NEW n \in Nodes,
         Approve(g, n), tree[g] = main
  PROVE  /\ tree'[s] = tree[s] /\ head'[s] = head[s] /\ UNCHANGED run
         /\ HasTask(main, n)
         /\ \/ main' = main
            \/ \A m \in Nodes :
                 /\ Marking(main[m], main'[m])
                 /\ HasTask(main', m) /\ ~HasTask(main, m) => Parent[m] = n
<1> DEFINE k == Latest(tree[g][n], "plan")
           born == [c \in Nodes |->
                      IF c \in Planned(n) /\ ~HasTask(tree[g], c)
                      THEN Over(File(Task, "written"), tree[g][c]) ELSE tree[g][c]]
           decision == File(<<"plan-approved", k>>, "written")
           new == [born EXCEPT ![n] = Over(decision, @)]
           part == Part(new, UNION {Below(c) : c \in Planned(n)})
           verdict == File(<<"plan-approved", Latest(new[n], "plan")>>, "written")
<1>1. PublishFrom(g, new, NoNames, ApprovedFiles(new, n)) /\ UNCHANGED run /\ HasTask(main, n)
  BY DEF Approve
<1>2. ApprovedFiles(new, n) = [part EXCEPT ![n] = verdict]
  BY DEF ApprovedFiles
<1>3. main \in Trees
  BY DEF TypeInv
<1>4. /\ new \in Trees
      /\ \A m \in Nodes : m # n => new[m] \in {main[m], Over(File(Task, "written"), main[m])}
      /\ \A m \in Nodes : m # n /\ Parent[m] # n => new[m] = main[m]
  <2>1. ASSUME NEW c \in Nodes  PROVE born[c] \in FileMaps
    <3>1. main[c] \in FileMaps /\ File(Task, "written") \in FileMaps
      BY <1>3, FileMap, KnownNames, KnownContents DEF Trees
    <3> HIDE DEF FileMaps
    <3> QED  BY <3>1, OverMap
  <2>2. born \in Trees
    BY <2>1 DEF Trees
  <2>3. decision \in FileMaps
    BY BoundNumbers, FileMap, KnownNames, KnownContents
  <2>4. \A m \in Nodes : /\ born[m] \in {main[m], Over(File(Task, "written"), main[m])}
                         /\ Parent[m] # n => born[m] = main[m]
    BY DEF Planned
  <2> HIDE DEF born, decision
  <2>5. born[n] \in FileMaps /\ new = [born EXCEPT ![n] = Over(decision, born[n])]
    BY <2>2 DEF Trees
  <2>6. \A m \in Nodes : m # n => new[m] = born[m]
    BY <2>2 DEF Trees
  <2> HIDE DEF new
  <2> QED  BY <2>2, <2>3, <2>4, <2>5, <2>6, OverMap, TreeWith
<1> HIDE DEF new
<1>5. ASSUME NEW m \in Nodes
      PROVE  Marking(main[m], Over(ApprovedFiles(new, n)[m], Without(main[m], NoNames[m])))
  <2> DEFINE marks == ApprovedFiles(new, n)[m]
  <2>1. Without(main[m], NoNames[m]) = main[m]
    BY <1>3, WithoutNothing DEF NoNames, Trees
  <2>2. \A f \in DOMAIN marks : f \in MarkNames \/ (f \in DOMAIN main[m] /\ marks[f] = main[m][f])
    <3>1. CASE m = n
      <4>1. marks = verdict
        BY <1>2, <3>1 DEF Part
      <4>2. <<"plan-approved", Latest(new[n], "plan")>> \in MarkNames
        BY BoundNumbers, MarkNamesApart
      <4> QED  BY <4>1, <4>2 DEF File
    <3>2. CASE m # n
      <4>1. marks \in {new[m], NoFiles}
        BY <1>2, <3>2 DEF Part
      <4>2. marks \in {main[m], Over(File(Task, "written"), main[m]), NoFiles}
        BY <1>4, <3>2, <4>1
      <4>3. \A f \in DOMAIN Over(File(Task, "written"), main[m]) :
              \/ f \in MarkNames
              \/ f \in DOMAIN main[m] /\ Over(File(Task, "written"), main[m])[f] = main[m][f]
        BY MarkNamesApart DEF Over, File
      <4>4. DOMAIN NoFiles = {}
        BY DEF NoFiles
      <4> HIDE DEF NoFiles, marks
      <4> QED  BY <4>2, <4>3, <4>4
    <3> QED  BY <3>1, <3>2
  <2> HIDE DEF marks
  <2> QED  BY <2>1, <2>2 DEF Marking, marks
<1>6. /\ tree'[s] = tree[s] /\ head'[s] = head[s]
      /\ \/ main' = main
         \/ \A m \in Nodes : main'[m] = Over(ApprovedFiles(new, n)[m], Without(main[m], NoNames[m]))
  BY <1>1, CommandIs
<1>7. ASSUME NEW m \in Nodes, m # n, Parent[m] # n
      PROVE  Over(ApprovedFiles(new, n)[m], Without(main[m], NoNames[m])) = main[m]
  <2>1. Without(main[m], NoNames[m]) = main[m] /\ main[m] \in FileMaps
    BY <1>3, WithoutNothing DEF NoNames, Trees
  <2>2. ApprovedFiles(new, n)[m] \in {new[m], NoFiles} /\ new[m] = main[m]
    BY <1>2, <1>4, <1>7 DEF Part
  <2> QED  BY <2>1, <2>2, OverItself
<1> QED  BY <1>1, <1>5, <1>6, <1>7 DEF HasTask

\* A verdict where there was none.
Judging(old, new) ==
    \E k \in Nat, result \in {"success", "failed"} :
        /\ <<"audit-result", k>> \notin DOMAIN old
        /\ new = Over(File(<<"audit-result", k>>, result), old)

LEMMA VerdictIs ==
  ASSUME TypeInv, NEW s \in Hosts, NEW g \in Hosts, g # s, NEW n \in Nodes,
         Verdict(g, n), tree[g] = main
  PROVE  /\ tree'[s] = tree[s] /\ head'[s] = head[s] /\ UNCHANGED run
         /\ \A m \in Nodes : main'[m] = main[m] \/ Judging(main[m], main'[m])
         /\ \A m \in Nodes : main'[m] = main[m] \/ ~NoPendings(main[m])
<1> DEFINE k == Latest(tree[g][n], "pending-audit")
           name == <<"audit-result", k>>
<1>1. PICK result \in {"success", "failed"} :
        PublishFrom(g, [tree[g] EXCEPT ![n] = Over(File(name, result), @)], NoNames,
                    [Nothing EXCEPT ![n] = File(name, result)])
  BY DEF Verdict
<1>2. UNCHANGED run /\ name \notin DOMAIN main[n] /\ k \in Nat
  BY BoundNumbers DEF Verdict
<1> DEFINE written == [tree[g] EXCEPT ![n] = Over(File(name, result), @)]
           present == [Nothing EXCEPT ![n] = File(name, result)]
<1>3. main \in Trees /\ PublishFrom(g, written, NoNames, present)
  BY <1>1 DEF TypeInv
<1>4. ~NoPendings(main[n])
  <2>1. k \in Nat /\ k # 0
    BY BoundNumbers DEF Verdict
  <2>2. <<"pending-audit", k>> \in DOMAIN main[n]
    BY <2>1, LatestIsGreatest
  <2> HIDE DEF k
  <2> QED  BY <2>1, <2>2 DEF NoPendings
<1>5. ASSUME NEW m \in Nodes
      PROVE  LET over == Over(present[m], Without(main[m], NoNames[m]))
             IN  over = main[m] \/ (Judging(main[m], over) /\ ~NoPendings(main[m]))
  <2>1. Without(main[m], NoNames[m]) = main[m] /\ main[m] \in FileMaps
    BY <1>3, WithoutNothing DEF NoNames, Trees
  <2>2. CASE m = n
    <3>1. present[m] = File(name, result)
      BY <2>2 DEF Nothing
    <3> QED  BY <1>2, <1>4, <2>1, <2>2, <3>1 DEF Judging
  <2>3. CASE m # n
    <3>1. present[m] = NoFiles
      BY <2>3 DEF Nothing
    <3> QED  BY <2>1, <3>1, OverItself
  <2> QED  BY <2>2, <2>3
<1> HIDE DEF present, written
<1>6. /\ tree'[s] = tree[s] /\ head'[s] = head[s]
      /\ \/ main' = main
         \/ \A m \in Nodes : main'[m] = Over(present[m], Without(main[m], NoNames[m]))
  BY <1>3, CommandIs
<1> QED  BY <1>2, <1>5, <1>6

\* A cascade stays in the directory of its node, and reaches with a node its children.
LEMMA CascadeBelow ==
  ASSUME NEW t, NEW n \in Nodes
  PROVE  /\ Cascade(t, n) \subseteq Below(n)
         /\ \A m \in Cascade(t, n) : Children(t, m) \subseteq Cascade(t, n)
<1> DEFINE X == SUBSET Nodes
           x == {n}
           Step(s) == s \cup UNION {Children(t, m) : m \in s}
           D(g) == [d \in Nat |-> IF d = 0 THEN x ELSE g[d - 1] \cup UNION {Children(t, m) : m \in g[d - 1]}]
           F == [s \in X |-> Step(s)]
           down == CHOOSE g : g = D(g)
           K == Cardinality(Nodes)
<1>1. Cascade(t, n) = down[K]
  BY DEF Cascade
<1>2. IsFiniteSet(Nodes) /\ K \in Nat
  BY TreeAssumption, FS_CardinalityType DEF TreeAssumption
<1>3. x \in X /\ F \in [X -> X]
  BY DEF Children, Planned
<1>4. PICK f \in [Nat -> X] : Iterated(F, x, f)
  <2> HIDE DEF X, F, x
  <2> QED  BY <1>3, Iteration
<1>5. f = D(f)
  <2>1. ASSUME NEW d \in Nat
        PROVE  f[d] = IF d = 0 THEN x ELSE f[d - 1] \cup UNION {Children(t, m) : m \in f[d - 1]}
    <3>1. CASE d = 0
      <4> HIDE DEF x
      <4> QED  BY <1>4, <3>1 DEF Iterated
    <3>2. CASE d # 0
      <4>1. d - 1 \in Nat /\ d = (d - 1) + 1
        BY <3>2
      <4>2. f[(d - 1) + 1] = F[f[d - 1]]
        <5> HIDE DEF F
        <5> QED  BY <1>4, <4>1 DEF Iterated
      <4>3. f[d - 1] \in X
        BY <1>4, <4>1
      <4>4. F[f[d - 1]] = Step(f[d - 1])
        BY <4>3
      <4>5. f[d] = F[f[d - 1]]
        <5> HIDE DEF F
        <5> QED  BY <4>1, <4>2
      <4> HIDE DEF F, X
      <4> QED  BY <3>2, <4>4, <4>5
    <3> QED  BY <3>1, <3>2
  <2>2. f = [d \in Nat |-> f[d]]
    BY <1>4
  <2> HIDE DEF X, x
  <2> QED  BY <2>1, <2>2
<1>6. down = D(down)
  <2> HIDE DEF D
  <2> QED  BY <1>5
<1> HIDE DEF down
<1>7. /\ down[0] = x
      /\ \A d \in Nat : down[d + 1] = Step(down[d])
  <2>1. \A d \in Nat : down[d] = IF d = 0 THEN x ELSE Step(down[d - 1])
    <3> HIDE DEF x
    <3> QED  BY <1>6
  <2>2. ASSUME NEW d \in Nat  PROVE down[d + 1] = Step(down[d])
    <3>1. d + 1 \in Nat /\ d + 1 # 0 /\ (d + 1) - 1 = d
      OBVIOUS
    <3> HIDE DEF Step
    <3> QED  BY <2>1, <3>1
  <2> QED  BY <2>1, <2>2
<1> HIDE DEF D, F
<1>8. ASSUME NEW s \in SUBSET Nodes  PROVE Step(s) \in SUBSET Nodes /\ s \subseteq Step(s)
  BY DEF Children, Planned
<1> DEFINE In == {d \in Nat : down[d] \subseteq Below(n)}
<1>9. Nat \subseteq In
  <2>1. 0 \in In
    BY <1>7, BelowClosed
  <2>2. ASSUME NEW d \in Nat, d \in In  PROVE d + 1 \in In
    <3>1. d + 1 \in Nat
      OBVIOUS
    <3>2. down[d + 1] = Step(down[d])
      <4> HIDE DEF Step
      <4> QED  BY <1>7
    <3>3. ASSUME NEW m \in Below(n)  PROVE Children(t, m) \subseteq Below(n)
      BY <3>3, BelowClosed DEF Children, Planned
    <3> QED  BY <2>2, <3>1, <3>2, <3>3
  <2> HIDE DEF In
  <2> QED  BY <2>1, <2>2, AllNumbers
<1> DEFINE Full(d) == down[d + 1] = down[d]
           Known == {d \in Nat : /\ down[d] \in SUBSET Nodes
                                 /\ IsFiniteSet(down[d])
                                 /\ Full(d) \/ Cardinality(down[d]) >= d + 1}
<1>10. Nat \subseteq Known
  <2>1. 0 \in Known
    <3>1. down[0] = {n}
      BY <1>7
    <3>2. IsFiniteSet({n}) /\ Cardinality({n}) = 1
      BY FS_Singleton
    <3>3. Cardinality(down[0]) >= 0 + 1
      BY <3>1, <3>2
    <3> QED  BY <3>1, <3>2, <3>3
  <2>2. ASSUME NEW d \in Nat, d \in Known  PROVE d + 1 \in Known
    <3>1. d + 1 \in Nat /\ (d + 1) + 1 \in Nat
      OBVIOUS
    <3>2. down[d + 1] = Step(down[d]) /\ down[(d + 1) + 1] = Step(down[d + 1])
      <4> HIDE DEF Step
      <4> QED  BY <1>7, <3>1
    <3>3. down[d + 1] \in SUBSET Nodes /\ down[d] \subseteq down[d + 1]
      <4> HIDE DEF Step
      <4> QED  BY <1>8, <2>2, <3>2
    <3>4. IsFiniteSet(down[d + 1])
      BY <1>2, <3>3, FS_Subset
    <3>5. CASE Full(d)
      <4>1. Full(d + 1)
        <5> HIDE DEF Step
        <5> QED  BY <3>2, <3>5
      <4> QED  BY <3>1, <3>3, <3>4, <4>1
    <3>6. CASE ~Full(d)
      <4>1. Cardinality(down[d]) >= d + 1 /\ IsFiniteSet(down[d])
        BY <2>2, <3>6
      <4>2. /\ Cardinality(down[d]) <= Cardinality(down[d + 1])
            /\ Cardinality(down[d]) # Cardinality(down[d + 1])
        BY <3>3, <3>4, <3>6, FS_Subset
      <4>3. Cardinality(down[d]) \in Nat /\ Cardinality(down[d + 1]) \in Nat
        BY <3>4, <4>1, FS_CardinalityType
      <4>4. Cardinality(down[d + 1]) >= (d + 1) + 1
        BY <4>1, <4>2, <4>3
      <4> QED  BY <3>1, <3>3, <3>4, <4>4
    <3> QED  BY <3>5, <3>6
  <2> HIDE DEF Known
  <2> QED  BY <2>1, <2>2, AllNumbers
<1>11. K \in In /\ K \in Known
  BY <1>2, <1>9, <1>10
<1>12. Full(K)
  <2>1. Cardinality(down[K]) <= K /\ Cardinality(down[K]) \in Nat
    BY <1>2, <1>11, FS_Subset, FS_CardinalityType
  <2>2. ~(Cardinality(down[K]) >= K + 1)
    BY <1>2, <2>1
  <2> QED  BY <1>11, <2>2
<1>13. down[K + 1] = Step(down[K])
  <2> HIDE DEF Step
  <2> QED  BY <1>2, <1>7
<1> HIDE DEF K
<1>14. \A m \in down[K] : Children(t, m) \subseteq down[K]
  BY <1>12, <1>13
<1> QED  BY <1>1, <1>11, <1>14

\* What is published of a node where it is as on main: what the command left of it.
LEMMA OverGone ==
  ASSUME NEW a \in FileMaps, NEW old
  PROVE  Over(a, Without(old, DOMAIN old \ DOMAIN a)) = a
<1>1. a = [f \in DOMAIN a |-> a[f]]
  BY FileMapIs
<1>2. DOMAIN a \cup (DOMAIN old \ (DOMAIN old \ DOMAIN a)) = DOMAIN a
  OBVIOUS
<1>3. DOMAIN Without(old, DOMAIN old \ DOMAIN a) = DOMAIN old \ (DOMAIN old \ DOMAIN a)
  BY DEF Without
<1>4. Over(a, Without(old, DOMAIN old \ DOMAIN a)) = [f \in DOMAIN a |-> a[f]]
  BY <1>2, <1>3 DEF Over
<1> QED  BY <1>1, <1>4

LEMMA NothingSaid ==
  ASSUME NEW a
  PROVE  /\ Undecided(NoFiles) /\ NoPendings(NoFiles) /\ Task \notin DOMAIN NoFiles
         /\ Agree(a, Over(NoFiles, a))
<1>1. DOMAIN NoFiles = {}
  BY DEF NoFiles
<1> HIDE DEF NoFiles
<1>2. Latest(NoFiles, "fact") = 0
  BY <1>1, LatestIsGreatest
<1>3. Undecided(NoFiles)
  BY <1>2, FactStateIs DEF Undecided
<1>4. Agree(a, Over(NoFiles, a))
  BY <1>1, WrittenOver
<1> QED  BY <1>1, <1>3, <1>4 DEF NoPendings

LEMMA NoneGone ==
  ASSUME NEW a \in FileMaps
  PROVE  Without(a, DOMAIN a \ DOMAIN a) = a
<1>1. DOMAIN a \ DOMAIN a = {}
  OBVIOUS
<1> QED  BY <1>1, WithoutNothing

LEMMA InvalidateIs ==
  ASSUME TypeInv, NEW s \in Hosts, NEW g \in Hosts, g # s, NEW n \in Nodes,
         Invalidate(g, n), tree[g] = main
  PROVE  /\ tree'[s] = tree[s] /\ head'[s] = head[s] /\ UNCHANGED run
         /\ \A m \in Nodes : \/ main'[m] = main[m]
                              \/ /\ main'[m] = Archived(main[m])
                                 /\ Latest(main[m], "history") < MaxNumber
         /\ \/ main' = main
            \/ \A m \in Nodes :
                 main'[m] = IF m \in Cascade(main, n) THEN Archived(main[m]) ELSE main[m]
<1> DEFINE reached == Cascade(tree[g], n)
           new == [m \in Nodes |-> IF m \in reached THEN Archived(tree[g][m]) ELSE tree[g][m]]
           gone == Gone(tree[g], new)
           present == Republished(tree[g], new, n)
<1>1. /\ PublishFrom(g, new, gone, present) /\ UNCHANGED run
      /\ \A m \in reached : Latest(main[m], "history") < MaxNumber
  BY DEF Invalidate
<1>2. main \in Trees
  BY DEF TypeInv
<1>3. new \in Trees
  <2>1. \A m \in Nodes : main[m] \in FileMaps /\ Archived(main[m]) \in FileMaps
    BY <1>2, ArchivedMap DEF Trees
  <2> HIDE DEF FileMaps
  <2> QED  BY <2>1 DEF Trees
<1>4. reached \subseteq Below(n)
  BY CascadeBelow
<1>5. ASSUME NEW m \in Nodes
      PROVE  Over(present[m], Without(main[m], gone[m]))
               = IF m \in reached THEN Archived(main[m]) ELSE main[m]
  <2>1. main[m] \in FileMaps /\ new[m] \in FileMaps
    BY <1>2, <1>3 DEF Trees
  <2>2. /\ gone[m] = DOMAIN main[m] \ DOMAIN new[m]
        /\ present[m] = IF m \in Below(n) THEN new[m] ELSE NoFiles
    BY DEF Gone, Republished, Part
  <2>3. CASE m \in reached
    <3>1. new[m] = Archived(main[m])
      BY <2>3
    <3>2. present[m] = new[m]
      BY <1>4, <2>2, <2>3
    <3> HIDE DEF new, present, gone
    <3> QED  BY <2>1, <2>2, <2>3, <3>1, <3>2, OverGone
  <2>4. CASE m \notin reached
    <3>1. new[m] = main[m]
      BY <2>4
    <3> HIDE DEF new, present, gone
    <3>2. Without(main[m], gone[m]) = main[m]
      BY <2>1, <2>2, <3>1, NoneGone
    <3> QED  BY <2>1, <2>2, <2>4, <3>1, <3>2, OverItself
  <2> QED  BY <2>3, <2>4
<1> HIDE DEF new, gone, present
<1>6. /\ tree'[s] = tree[s] /\ head'[s] = head[s]
      /\ \/ main' = main
         \/ \A m \in Nodes : main'[m] = Over(present[m], Without(main[m], gone[m]))
  BY <1>1, CommandIs
<1>7. reached = Cascade(main, n) /\ reached \subseteq Nodes
  BY <1>4, BelowParents
<1> HIDE DEF reached
<1> QED  BY <1>1, <1>5, <1>6, <1>7

LEMMA KillIs ==
  ASSUME TypeInv, NEW s \in Hosts, NEW g \in Hosts, g # s, NEW n \in Nodes,
         Kill(g, n), tree[g] = main
  PROVE  /\ tree'[s] = tree[s] /\ head'[s] = head[s] /\ UNCHANGED run
         /\ \/ main' = main
            \/ /\ HasTask(main, n) /\ ~HasTask(main', n)
               /\ \A m \in Nodes : main'[m] = IF m \in Below(n) THEN NoFiles ELSE main[m]
<1> DEFINE new == [m \in Nodes |-> IF m \in Below(n) THEN NoFiles ELSE tree[g][m]]
           gone == Gone(tree[g], new)
<1>1. PublishFrom(g, new, gone, Nothing) /\ UNCHANGED run /\ HasTask(main, n)
  BY DEF Kill
<1>2. main \in Trees
  BY DEF TypeInv
<1>3. ASSUME NEW m \in Nodes
      PROVE  Over(Nothing[m], Without(main[m], gone[m])) = IF m \in Below(n) THEN NoFiles ELSE main[m]
  <2>1. main[m] \in FileMaps /\ NoFiles \in FileMaps
    BY <1>2, NoFileMap DEF Trees
  <2>2. gone[m] = DOMAIN main[m] \ DOMAIN new[m] /\ Nothing[m] = NoFiles
    BY DEF Gone, Nothing
  <2>3. CASE m \in Below(n)
    <3>1. new[m] = NoFiles
      BY <2>3
    <3> HIDE DEF new, gone, Nothing, NoFiles
    <3> QED  BY <2>1, <2>2, <2>3, <3>1, OverGone
  <2>4. CASE m \notin Below(n)
    <3>1. new[m] = main[m]
      BY <2>4
    <3> HIDE DEF new, gone, Nothing
    <3>2. Without(main[m], gone[m]) = main[m]
      BY <2>1, <2>2, <3>1, NoneGone
    <3> QED  BY <2>1, <2>2, <2>4, <3>2, OverItself
  <2> QED  BY <2>3, <2>4
<1> HIDE DEF new, gone, Nothing
<1>4. /\ tree'[s] = tree[s] /\ head'[s] = head[s]
      /\ \/ main' = main
         \/ \A m \in Nodes : main'[m] = Over(Nothing[m], Without(main[m], gone[m]))
  BY <1>1, CommandIs
<1>5. CASE \A m \in Nodes : main'[m] = Over(Nothing[m], Without(main[m], gone[m]))
  <2>1. n \in Below(n)
    BY BelowClosed
  <2>2. main'[n] = NoFiles
    BY <1>3, <1>5, <2>1
  <2>3. ~HasTask(main', n)
    BY <2>2, NothingSaid DEF HasTask
  <2> QED  BY <1>1, <1>3, <1>4, <1>5, <2>3
<1> QED  BY <1>1, <1>4, <1>5

\* A command elsewhere that resolves nothing that was undecided.
LEMMA KeptCommand ==
  ASSUME NEW s \in Hosts, KeptInv(s), TypeInv',
         tree'[s] = tree[s], head'[s] = head[s], UNCHANGED run,
         main' = main \/
         \A m \in Nodes : /\ Undecided(main[m]) => Undecided(main'[m])
                          /\ NoPendings(main[m]) => NoPendings(main'[m])
                          /\ HasTask(main', m) => Kept(main[m], main'[m])
  PROVE  KeptInv(s)' /\ KeepsResults
<1>1. /\ \A m \in Nodes : Undecided(main[m]) => Undecided(main'[m])
      /\ \A m \in Nodes : NoPendings(main[m]) => NoPendings(main'[m])
      /\ KeepsResults
  BY MainAsItWas DEF KeepsResults
<1>2. \A r \in Runners : Busy(r) => run[r].node \in Nodes
  BY DEF KeptInv, TypeInv, RunsOfTasks
<1> QED  BY <1>1, <1>2 DEF KeptInv, Busy

\* What only people and archives write.
RecordNames == {"history", "audit-result"} \X Nat

LEMMA MarksNotDecisive == MarkNames \cap (DecisiveNames \cup RecordNames) = {}
BY DEF MarkNames, DecisiveNames, RecordNames, Task

LEMMA KeptApprove ==
  ASSUME NEW s \in Hosts, KeptInv(s), TypeInv', NEW g \in Hosts, g # s, NEW n \in Nodes,
         Approve(g, n), tree[g] = main
  PROVE  KeptInv(s)' /\ KeepsResults
<1>1. /\ tree'[s] = tree[s] /\ head'[s] = head[s] /\ UNCHANGED run
      /\ main' = main \/ \A m \in Nodes : Marking(main[m], main'[m])
  BY ApproveIs DEF KeptInv
<1>2. ASSUME NEW m \in Nodes, Marking(main[m], main'[m])  PROVE Agree(main[m], main'[m])
  BY <1>2, WrittenOver, MarksNotDecisive DEF Marking
<1> QED  BY <1>1, <1>2, KeptByAgreement, KeptCommand

LEMMA KeptVerdict ==
  ASSUME NEW s \in Hosts, KeptInv(s), TypeInv', NEW g \in Hosts, g # s, NEW n \in Nodes,
         Verdict(g, n), tree[g] = main
  PROVE  KeptInv(s)' /\ KeepsResults
<1>1. /\ tree'[s] = tree[s] /\ head'[s] = head[s] /\ UNCHANGED run
      /\ \A m \in Nodes : main'[m] = main[m] \/ Judging(main[m], main'[m])
  BY VerdictIs DEF KeptInv
<1>2. ASSUME NEW m \in Nodes
      PROVE  /\ Undecided(main[m]) => Undecided(main'[m])
             /\ NoPendings(main[m]) => NoPendings(main'[m])
             /\ Kept(main[m], main'[m])
  <2>1. CASE main'[m] = main[m]
    BY <2>1, AgreeItself, KeptByAgreement
  <2>2. CASE Judging(main[m], main'[m])
    BY <2>2, VerdictOver DEF Judging
  <2> QED  BY <1>1, <2>1, <2>2
<1> QED  BY <1>1, <1>2, KeptCommand

LEMMA KeptInvalidate ==
  ASSUME NEW s \in Hosts, KeptInv(s), TypeInv', NEW g \in Hosts, g # s, NEW n \in Nodes,
         Invalidate(g, n), tree[g] = main
  PROVE  KeptInv(s)' /\ KeepsResults
<1>1. /\ tree'[s] = tree[s] /\ head'[s] = head[s] /\ UNCHANGED run
      /\ \A m \in Nodes : main'[m] \in {main[m], Archived(main[m])}
  BY InvalidateIs DEF KeptInv
<1>2. ASSUME NEW m \in Nodes
      PROVE  /\ Undecided(main[m]) => Undecided(main'[m])
             /\ NoPendings(main[m]) => NoPendings(main'[m])
             /\ Kept(main[m], main'[m])
  BY <1>1, AgreeItself, KeptByAgreement, ArchiveKeeps
<1> QED  BY <1>1, <1>2, KeptCommand

LEMMA KeptKill ==
  ASSUME NEW s \in Hosts, KeptInv(s), TypeInv', NEW g \in Hosts, g # s, NEW n \in Nodes,
         Kill(g, n), tree[g] = main
  PROVE  KeptInv(s)' /\ KeepsResults
<1>1. /\ tree'[s] = tree[s] /\ head'[s] = head[s] /\ UNCHANGED run
      /\ main' = main \/ \A m \in Nodes : main'[m] \in {main[m], NoFiles}
  BY KillIs DEF KeptInv
<1>2. ASSUME NEW m \in Nodes, main'[m] \in {main[m], NoFiles}
      PROVE  /\ Undecided(main[m]) => Undecided(main'[m])
             /\ NoPendings(main[m]) => NoPendings(main'[m])
             /\ HasTask(main', m) => Kept(main[m], main'[m])
  <2> HIDE DEF NoFiles
  <2> QED  BY <1>2, AgreeItself, KeptByAgreement, NothingSaid DEF HasTask
<1> QED  BY <1>1, <1>2, KeptCommand

\* A run starts from a node that is open where it is looked at, so on main.
LEMMA KeptStart ==
  ASSUME NEW s \in Hosts, OneServer(s), KeptInv(s), TypeInv', NEW r \in Runners, Start(r)
  PROVE  KeptInv(s)' /\ KeepsResults
<1>1. PICK n \in Nodes :
        /\ Runnable(HostOf[r], n)
        /\ run' = [run EXCEPT ![r] =
             [phase |-> "working", node |-> n, nnn |-> NextNumber(tree[HostOf[r]][n]),
              base |-> main, mine |-> main]]
  BY DEF Start, Claimable
<1>2. UNCHANGED <<main, tree, head>>
  BY DEF Start
<1>3. HostOf[r] = s /\ run \in [Runners -> RunRecords]
  BY DEF OneServer, KeptInv, TypeInv
<1>4. Undecided(main[n])
  BY <1>1, <1>3 DEF Runnable, Undecided, KeptInv
<1> HIDE DEF RunRecords
<1>5. /\ run'[r].phase = "working" /\ run'[r].node = n /\ run'[r].base = main
      /\ \A q \in Runners : q # r => run'[q] = run[q]
  BY <1>1, <1>3
<1>6. ASSUME NEW q \in Runners, Busy(q)'
      PROVE  /\ Planned(run'[q].node) = {} => Undecided(main[run'[q].node])
             /\ \A m \in Nodes : Planned(m) # {} => NoPendings(run'[q].base[m])
             /\ run'[q].phase = "publishing" => Worked(run'[q].node, run'[q].base, run'[q].mine)
  <2>1. CASE q = r
    BY <1>4, <1>5, <2>1 DEF KeptInv
  <2>2. CASE q # r
    BY <1>5, <1>6, <2>2 DEF KeptInv, Busy
  <2> QED  BY <2>1, <2>2
<1>7. KeepsResults
  BY <1>2, MainAsItWas
<1> QED  BY <1>2, <1>6, <1>7 DEF KeptInv

LEMMA KeptFinish ==
  ASSUME NEW s \in Hosts, KeptInv(s), TypeInv', NEW r \in Runners, Finish(r)
  PROVE  KeptInv(s)' /\ KeepsResults
<1> DEFINE n == run[r].node
<1>1. PICK fact \in BOOLEAN, weaken \in {FALSE, MayWeaken}, seen \in {run[r].base[n], main[n]} :
        /\ fact => facts < MaxFacts /\ Planned(n) = {}
        /\ facts' = IF fact THEN facts + 1 ELSE facts
        /\ run' = [run EXCEPT
             ![r].phase = "publishing",
             ![r].mine = Signalled(r, Executed(r, fact,
                 IF weaken THEN "weakened" ELSE run[r].base[n][Task]), seen)]
  BY DEF Finish
<1> DEFINE contract == IF weaken THEN "weakened" ELSE run[r].base[n][Task]
           made == Signalled(r, Executed(r, fact, contract), seen)
           finished == [run[r] EXCEPT !.phase = "publishing", !.mine = made]
<1>2. TypeInv /\ Busy(r) /\ run[r] \in RunRecords
  BY DEF Finish, KeptInv, TypeInv, Busy
<1>3. n \in Nodes /\ HasTask(run[r].base, n)
  BY <1>2 DEF TypeInv, RunsOfTasks
<1>4. contract \in TreeContents
  <2>1. run[r].base[n] \in FileMaps
    BY <1>2, <1>3 DEF RunRecords, Trees
  <2>2. run[r].base[n][Task] \in TreeContents
    BY <1>3, <2>1, FileMapIs DEF HasTask
  <2> QED  BY <2>2, KnownContents
<1>5. facts \in Nat
  BY <1>2, TreeAssumption DEF TypeInv, TreeAssumption
<1>6. Executed(r, fact, contract) \in FileMaps
  <2> HIDE DEF contract, FileMaps, RunRecords
  <2> QED  BY <1>1, <1>2, <1>3, <1>4, <1>5, ExecutedMap
<1>7. \A m \in Nodes : Planned(m) # {} => NoPendings(run[r].base[m])
  BY <1>2 DEF KeptInv
<1>8. Worked(n, run[r].base, made)
  <2> HIDE DEF contract, FileMaps, RunRecords
  <2> QED  BY <1>2, <1>3, <1>6, <1>7, SignalWorked
<1>9. run' = [run EXCEPT ![r].phase = "publishing", ![r].mine = made]
  BY <1>1
<1> HIDE DEF made, contract
<1>10. run' = [run EXCEPT ![r] = finished]
  BY <1>2, <1>9 DEF TypeInv
<1>11. /\ finished.node = n /\ finished.base = run[r].base /\ finished.mine = made
  <2> HIDE DEF Trees
  <2> QED  BY <1>2 DEF RunRecords
<1> HIDE DEF finished, RunRecords
<1>12. run'[r] = finished /\ \A q \in Runners : q # r => run'[q] = run[q]
  BY <1>2, <1>10 DEF TypeInv
<1>13. UNCHANGED <<main, tree, head>>
  BY DEF Finish
<1>14. ASSUME NEW q \in Runners, Busy(q)'
       PROVE  /\ Planned(run'[q].node) = {} => Undecided(main[run'[q].node])
              /\ \A m \in Nodes : Planned(m) # {} => NoPendings(run'[q].base[m])
              /\ run'[q].phase = "publishing" => Worked(run'[q].node, run'[q].base, run'[q].mine)
  <2>1. CASE q = r
    BY <1>2, <1>8, <1>11, <1>12, <2>1 DEF KeptInv
  <2>2. CASE q # r
    BY <1>12, <1>14, <2>2 DEF KeptInv, Busy
  <2> QED  BY <2>1, <2>2
<1>15. KeepsResults
  BY <1>13, MainAsItWas
<1> QED  BY <1>13, <1>14, <1>15 DEF KeptInv

\* A merge loses a fact only of a leaf that the run itself is of, which is undecided.
LEMMA KeptMerge ==
  ASSUME NEW n \in Nodes, NEW base \in Trees, NEW mine \in Trees, NEW m \in Nodes,
         main \in Trees, Worked(n, base, mine), ~Conflicting(main[m], base[m], mine[m]),
         Planned(n) = {} => Undecided(main[n])
  PROVE  LET merged == Rebased(main[m], base[m], mine[m])
         IN  /\ Kept(main[m], merged)
             /\ Planned(m) # {} /\ NoPendings(main[m]) => NoPendings(merged)
             /\ Planned(m) = {} /\ m # n => merged = main[m]
<1> DEFINE merged == Rebased(main[m], base[m], mine[m])
<1>1. CASE Planned(m) # {}
  <2>1. NoPendings(mine[m]) /\ KeepsFacts(base[m], mine[m])
    BY <1>1 DEF Worked
  <2>2. NoPendings(main[m]) => NoPendings(merged)
    BY <2>1, RebasedNames DEF NoPendings
  <2>3. ASSUME Resolved(main[m])
        PROVE  LET f == <<"fact", Latest(main[m], "fact")>>
               IN  f \in DOMAIN merged /\ merged[f] = main[m][f]
    <3> DEFINE k == Latest(main[m], "fact")
    <3>1. k \in 1 .. MaxNumber /\ <<"fact", k>> \in DOMAIN main[m]
      BY <2>3, ResolvedHasFact
    <3> HIDE DEF k, merged
    <3>2. <<"fact", k>> \in DOMAIN base[m] =>
            <<"fact", k>> \in DOMAIN mine[m] /\ mine[m][<<"fact", k>>] = base[m][<<"fact", k>>]
      BY <2>1, <3>1 DEF KeepsFacts
    <3> QED  BY <3>1, <3>2, RebasedKeeps DEF k, merged
  <2>4. Kept(main[m], merged)
    <3> HIDE DEF merged
    <3> QED  BY <2>3, KeptInPlace
  <2> QED  BY <1>1, <2>2, <2>4
<1>2. CASE Planned(m) = {} /\ m # n
  <2>1. mine[m] = base[m]
    BY <1>2 DEF Worked
  <2>2. merged = main[m]
    BY <2>1, RebasedNothing DEF Trees
  <2> QED  BY <1>2, <2>2, AgreeItself, AgreeKept
<1>3. CASE Planned(m) = {} /\ m = n
  <2>1. Undecided(main[m])
    BY <1>3
  <2>2. ~Resolved(main[m])
    BY <2>1 DEF Undecided, Resolved
  <2> QED  BY <1>3, <2>2 DEF Kept
<1> QED  BY <1>1, <1>2, <1>3

LEMMA KeptPublish ==
  ASSUME NEW s \in Hosts, OneServer(s), KeptInv(s), TypeInv', NEW r \in Runners, PublishRun(r)
  PROVE  KeptInv(s)' /\ KeepsResults
<1> DEFINE n == run[r].node
           base == run[r].base
           mine == run[r].mine
           failure == File(<<"run", run[r].nnn>>, "merge-conflict")
           rebased == [m \in Nodes |-> Rebased(main[m], base[m], mine[m])]
<1>1. /\ \/ main' = [main EXCEPT ![n] = Over(failure, @)]
         \/ /\ main' = rebased
            /\ \A m \in Nodes : ~Conflicting(main[m], base[m], mine[m])
      /\ Checkout(HostOf[r], main', tree[HostOf[r]])
      /\ run' = [run EXCEPT ![r] = IdleRun]
      /\ Busy(r)
  BY PublishedIs
<1>2. TypeInv /\ run[r] \in RunRecords /\ main \in Trees /\ run \in [Runners -> RunRecords]
  BY DEF KeptInv, TypeInv
<1>3. n \in Nodes /\ base \in Trees /\ mine \in Trees
  BY <1>1, <1>2 DEF TypeInv, RunsOfTasks, RunRecords
<1>4. /\ Planned(n) = {} => Undecided(main[n])
      /\ Worked(n, base, mine)
      /\ \A m \in Nodes : Planned(m) # {} => NoPendings(main[m])
  BY <1>1 DEF KeptInv, PublishRun
<1>5. tree'[s] = main' /\ head'[s] = main'
  <2>1. HostOf[r] = s /\ tree[s] = head[s] /\ main' \in Trees
    BY DEF OneServer, KeptInv, TypeInv
  <2> QED  BY <1>1, <1>2, <2>1, CleanCheckout
<1> HIDE DEF n, base, mine
<1>6. ASSUME NEW m \in Nodes
      PROVE  /\ Kept(main[m], main'[m])
             /\ Planned(m) # {} => NoPendings(main'[m])
             /\ Planned(m) = {} /\ m # n => main'[m] = main[m]
  <2>1. CASE main' = [main EXCEPT ![n] = Over(failure, @)]
    <3>1. main'[m] = IF m = n THEN Over(failure, main[m]) ELSE main[m]
      BY <1>2, <1>3, <2>1 DEF Trees
    <3>2. Agree(main[m], Over(failure, main[m])) /\ Agree(main[m], main[m])
      BY OtherFileOver, NotDecisive, AgreeItself
    <3>3. Agree(main[m], main'[m])
      BY <3>1, <3>2
    <3> QED  BY <1>4, <3>1, <3>3, KeptByAgreement
  <2>2. CASE main' = rebased /\ \A k \in Nodes : ~Conflicting(main[k], base[k], mine[k])
    <3>1. main'[m] = Rebased(main[m], base[m], mine[m])
      BY <2>2
    <3> QED  BY <1>2, <1>3, <1>4, <2>2, <3>1, KeptMerge
  <2> QED  BY <1>1, <2>1, <2>2
<1>7. run'[r].phase = "idle" /\ \A q \in Runners : q # r => run'[q] = run[q]
  <2> HIDE DEF RunRecords
  <2> QED  BY <1>1, <1>2 DEF IdleRun
<1>8. ASSUME NEW q \in Runners, Busy(q)'
      PROVE  /\ Planned(run'[q].node) = {} => Undecided(main'[run'[q].node])
             /\ \A m \in Nodes : Planned(m) # {} => NoPendings(run'[q].base[m])
             /\ run'[q].phase = "publishing" => Worked(run'[q].node, run'[q].base, run'[q].mine)
  <2>1. q # r /\ run'[q] = run[q] /\ Busy(q)
    BY <1>7, <1>8 DEF Busy
  <2>2. run[q].node # n /\ run[q].node \in Nodes
    BY <1>1, <1>2, <2>1 DEF TypeInv, RunsOfTasks, n
  <2> QED  BY <1>6, <2>1, <2>2 DEF KeptInv
<1>9. KeepsResults
  BY <1>6 DEF KeepsResults
<1> QED  BY <1>5, <1>6, <1>8, <1>9 DEF KeptInv

LEMMA KeptDie ==
  ASSUME NEW s \in Hosts, KeptInv(s), TypeInv', NEW r \in Runners, Die(r)
  PROVE  KeptInv(s)' /\ KeepsResults
<1>1. run' = [run EXCEPT ![r] = IdleRun] /\ UNCHANGED <<main, tree, head>>
  BY DEF Die
<1>2. run \in [Runners -> RunRecords]
  BY DEF KeptInv, TypeInv
<1> HIDE DEF RunRecords
<1>3. run'[r].phase = "idle" /\ \A q \in Runners : q # r => run'[q] = run[q]
  BY <1>1, <1>2 DEF IdleRun
<1>4. ASSUME NEW q \in Runners, Busy(q)'
      PROVE  run'[q] = run[q] /\ Busy(q)
  BY <1>3, <1>4 DEF Busy
<1>5. KeepsResults
  BY <1>1, MainAsItWas
<1> QED  BY <1>1, <1>4, <1>5 DEF KeptInv

LEMMA KeptPull ==
  ASSUME NEW s \in Hosts, KeptInv(s), TypeInv', NEW g \in Hosts, Pull(g)
  PROVE  KeptInv(s)' /\ KeepsResults
<1>1. UNCHANGED <<main, run>>
  BY DEF Pull
<1>2. KeepsResults
  BY <1>1, MainAsItWas
<1>3. tree'[s] = head'[s] /\ \A n \in Nodes : Undecided(tree'[s][n]) => Undecided(main[n])
  <2> DEFINE pulled == [n \in Nodes |-> Rebased(tree[g][n], head[g][n], main[n])]
  <2>1. tree' = [tree EXCEPT ![g] = [n \in Nodes |-> Rebased(@[n], head[g][n], main[n])]]
    BY DEF Pull
  <2>2. /\ tree' = [tree EXCEPT ![g] = pulled] /\ head' = [head EXCEPT ![g] = main]
        /\ tree \in [Hosts -> Trees] /\ head \in [Hosts -> Trees] /\ main \in Trees
    BY <2>1 DEF Pull, KeptInv, TypeInv
  <2>3. CASE g = s
    <3>1. \A n \in Nodes : Rebased(tree[s][n], tree[s][n], main[n]) = main[n]
      BY <2>2, RebasedFrom DEF Trees
    <3>2. pulled = main
      <4>1. tree[g] = head[g] /\ main = [n \in Nodes |-> main[n]]
        BY <2>2, <2>3 DEF KeptInv, Trees
      <4> QED  BY <2>3, <3>1, <4>1
    <3> HIDE DEF pulled, Trees
    <3> QED  BY <2>2, <2>3, <3>2
  <2>4. CASE g # s
    <3> HIDE DEF pulled, Trees
    <3> QED  BY <2>2, <2>4 DEF KeptInv
  <2> QED  BY <2>3, <2>4
<1> QED  BY <1>1, <1>2, <1>3 DEF KeptInv, Busy

LEMMA KeptNext ==
  ASSUME NEW s, OneServer(s)
  PROVE  KeptInv(s) /\ [TreeNext]_treeVars /\ [UpToDate]_treeVars
           => KeptInv(s)' /\ [KeepsResults]_treeVars
<1> SUFFICES ASSUME KeptInv(s), [TreeNext]_treeVars, [UpToDate]_treeVars
             PROVE  KeptInv(s)' /\ [KeepsResults]_treeVars
  OBVIOUS
<1>1. TypeInv' /\ s \in Hosts
  BY TypesNext DEF KeptInv, OneServer
<1>2. CASE UNCHANGED treeVars
  <2>1. UNCHANGED <<main, tree, head, run>>
    BY <1>2 DEF treeVars
  <2> QED  BY <1>1, <1>2, <2>1 DEF KeptInv, Busy
<1>3. CASE TreeNext /\ UpToDate
  <2>1. ASSUME NEW r \in Runners, Start(r) \/ Finish(r) \/ PublishRun(r) \/ Die(r)
        PROVE  KeptInv(s)' /\ KeepsResults
    BY <1>1, <2>1, KeptStart, KeptFinish, KeptPublish, KeptDie
  <2>2. ASSUME NEW g \in Hosts, NEW n \in Nodes,
               Approve(g, n) \/ Verdict(g, n) \/ LifecycleCommand(g, n)
        PROVE  KeptInv(s)' /\ KeepsResults
    <3>1. tree[g] = main
      BY <1>3, <2>2 DEF UpToDate
    <3>2. g # s
      BY <2>2 DEF OneServer, Approve, Verdict, LifecycleCommand, Invalidate, Kill
    <3> QED  BY <1>1, <2>2, <3>1, <3>2, KeptApprove, KeptVerdict, KeptInvalidate, KeptKill
             DEF LifecycleCommand
  <2>3. ASSUME NEW g \in Hosts, Pull(g)
        PROVE  KeptInv(s)' /\ KeepsResults
    BY <1>1, <2>3, KeptPull
  <2> QED  BY <1>3, <2>1, <2>2, <2>3 DEF TreeNext
<1> QED  BY <1>2, <1>3

LEMMA KeptInit ==
  ASSUME NEW s \in Hosts
  PROVE  TreeInit => KeptInv(s)
<1> SUFFICES ASSUME TreeInit PROVE KeptInv(s)
  OBVIOUS
<1> DEFINE task == File(Task, "written")
           plan == Over(File(<<"plan", 1>>, "composite"), File(<<"plan-approved", 1>>, "written"))
           grown == Over(task, plan)
<1>1. TypeInv
  BY TypesInit
<1>2. \A n \in Nodes :
        main[n] = IF n \in Grown THEN grown
                  ELSE IF Parent[n] = NoNode \/ Parent[n] \in Grown THEN task ELSE NoFiles
  BY DEF TreeInit
<1>3. DOMAIN task = {Task} /\ DOMAIN grown = {Task, <<"plan", 1>>, <<"plan-approved", 1>>}
  BY DEF Over, File
<1>4. DOMAIN NoFiles = {}
  BY DEF NoFiles
<1> HIDE DEF task, grown, NoFiles
<1>5. \A k : <<"pending-audit", k>> \notin {Task, <<"plan", 1>>, <<"plan-approved", 1>>}
  BY DEF Task
<1>6. \A n \in Nodes : NoPendings(main[n])
  <2>1. \A n \in Nodes : DOMAIN main[n] \in {DOMAIN grown, DOMAIN task, DOMAIN NoFiles}
    BY <1>2
  <2> QED  BY <1>3, <1>4, <1>5, <2>1 DEF NoPendings
<1>7. tree[s] = main /\ head[s] = main /\ \A r \in Runners : run[r] = IdleRun
  BY DEF TreeInit
<1>8. \A r \in Runners : ~Busy(r)
  BY <1>7 DEF Busy, IdleRun
<1> QED  BY <1>1, <1>6, <1>7, <1>8 DEF KeptInv

\* Results stay (lifecycle.rs archive_chain, signal.rs propagate_composite, the merge of a
\* run): with all runs on one machine and commands in checkouts that are up to date, the
\* fact that resolves a node is neither dropped nor replaced on main, it stays or moves to
\* the archive, whatever runs die, fail to publish or finish after a node was archived or
\* killed; for all trees, audits and hosts.
THEOREM ResultsStay ==
  ASSUME NEW s, OneServer(s)
  PROVE  TreeSpec /\ [][UpToDate]_treeVars => ResultsKept
<1>1. TreeInit => KeptInv(s)
  BY KeptInit DEF OneServer
<1>2. KeptInv(s) /\ [TreeNext]_treeVars /\ [UpToDate]_treeVars
        => KeptInv(s)' /\ [KeepsResults]_treeVars
  BY KeptNext
<1>3. TreeSpec /\ [][UpToDate]_treeVars => [][KeepsResults]_treeVars
  BY <1>1, <1>2, PTL DEF TreeSpec
<1>4. KeepsResults <=>
        \A n \in Nodes : Resolved(main[n]) /\ HasTask(main', n) =>
          main[n][<<"fact", Latest(main[n], "fact")>>] \in {main'[n][f] : f \in DOMAIN main'[n]}
  BY DEF KeepsResults, Kept
<1> QED  BY <1>3, <1>4, PTL DEF ResultsKept

-----------------------------------------------------------------------------
(* Parents are completed on evidence.                                      *)

SameRecords(a, b) ==
    \A f \in RecordNames : /\ f \in DOMAIN a <=> f \in DOMAIN b
                           /\ f \in DOMAIN a => a[f] = b[f]

LEMMA NotRecord ==
  /\ Task \notin RecordNames
  /\ \A k : /\ <<"run", k>> \notin RecordNames /\ <<"fact", k>> \notin RecordNames
            /\ <<"plan", k>> \notin RecordNames /\ <<"pending-audit", k>> \notin RecordNames
            /\ <<"unresolvable", k>> \notin RecordNames
BY DEF RecordNames, Task

LEMMA RecordIs == \A k \in Nat : <<"history", k>> \in RecordNames /\ <<"audit-result", k>> \in RecordNames
BY DEF RecordNames

LEMMA SameRecordsOver ==
  ASSUME NEW a, NEW b, NEW new, SameRecords(a, b), DOMAIN new \cap RecordNames = {}
  PROVE  SameRecords(a, Over(new, b)) /\ SameRecords(a, Over(b, new))
BY DEF SameRecords, Over

LEMMA SameRecordsFile ==
  ASSUME NEW a, NEW b, NEW name, NEW content, SameRecords(a, b), name \notin RecordNames
  PROVE  SameRecords(a, Over(File(name, content), b)) /\ SameRecords(a, Over(b, File(name, content)))
<1>1. DOMAIN File(name, content) = {name}
  BY DEF File
<1>2. DOMAIN File(name, content) \cap RecordNames = {}
  BY <1>1
<1> QED  BY <1>2, SameRecordsOver

LEMMA SameRecordsWithout ==
  ASSUME NEW a, NEW b, NEW k, SameRecords(a, b)
  PROVE  SameRecords(a, Without(b, {<<"fact", k>>}))
BY NotRecord DEF SameRecords, Without

LEMMA SameRecordsMarked ==
  ASSUME NEW a, NEW b, SameRecords(a, b)
  PROVE  SameRecords(a, Marked(b))
BY NotRecord, SameRecordsFile DEF Marked

LEMMA SameRecordsItself == ASSUME NEW a PROVE SameRecords(a, a)
BY DEF SameRecords

LEMMA SameArchive ==
  ASSUME NEW a, NEW b, SameRecords(a, b)
  PROVE  Latest(a, "history") = Latest(b, "history")
<1>1. MaxNumber \in Nat
  BY TreeAssumption DEF TreeAssumption
<1>2. ASSUME NEW k \in 1 .. MaxNumber
      PROVE  <<"history", k>> \in DOMAIN a <=> <<"history", k>> \in DOMAIN b
  <2>1. k \in Nat
    BY <1>1
  <2>2. <<"history", k>> \in RecordNames
    BY <2>1, RecordIs
  <2> QED  BY <2>2 DEF SameRecords
<1>3. Numbers(a, "history") = Numbers(b, "history")
  BY <1>2 DEF Numbers
<1> QED  BY <1>3 DEF Latest

SameFacts(a, b) == \A k \in 1 .. MaxNumber : <<"fact", k>> \in DOMAIN a <=> <<"fact", k>> \in DOMAIN b

LEMMA SameLatestFact ==
  ASSUME NEW a, NEW b, SameFacts(a, b)
  PROVE  Latest(a, "fact") = Latest(b, "fact")
<1>1. Numbers(a, "fact") = Numbers(b, "fact")
  BY DEF Numbers, SameFacts
<1> QED  BY <1>1 DEF Latest

\* What a run made of base: it records nothing, and gives a fact to a parent only if
\* all children of that are resolved.
Justified(base, mine) ==
    /\ \A m \in Nodes : SameRecords(base[m], mine[m])
    /\ \A p \in Nodes : Planned(p) # {} =>
         \/ SameFacts(base[p], mine[p])
         \/ /\ Children(mine, p) # {}
            /\ \A c \in Children(mine, p) : Resolved(mine[c])

LEMMA CompletedJustified ==
  ASSUME NEW base \in Trees, NEW u \in Trees, NEW p \in Nodes,
         NEW fact \in TreeContents, Justified(base, u), MayComplete(u, p)
  PROVE  Justified(base, Completed(u, p, fact))
<1> DEFINE k == NextNumber(u[p])
           pair == Over(File(<<"run", k>>, "success"), File(<<"fact", k>>, fact))
           new == Over(pair, u[p])
           v == [u EXCEPT ![p] = new]
<1>1. Completed(u, p, fact) = v
  BY DEF Completed, Trees
<1>2. v[p] = new /\ \A m \in Nodes : m # p => v[m] = u[m]
  BY DEF Trees
<1>3. DOMAIN pair = {<<"run", k>>, <<"fact", k>>}
  BY DEF Over, File
<1>4. DOMAIN new = DOMAIN pair \cup DOMAIN u[p]
  BY DEF Over
<1> HIDE DEF pair
<1>5. \A m \in Nodes : SameRecords(base[m], v[m])
  <2>1. SameRecords(base[p], u[p]) /\ DOMAIN pair \cap RecordNames = {}
    BY <1>3, NotRecord DEF Justified
  <2>2. SameRecords(base[p], new)
    BY <2>1, SameRecordsOver
  <2> HIDE DEF new, v
  <2> QED  BY <1>2, <2>2 DEF Justified
<1>6. HasTask(v, p) <=> HasTask(u, p)
  BY <1>2, <1>3, <1>4 DEF HasTask, Task
<1> HIDE DEF new, v
<1>7. \A q \in Nodes : Children(v, q) = Children(u, q)
  <2>1. \A c \in Nodes : HasTask(v, c) <=> HasTask(u, c)
    BY <1>2, <1>6 DEF HasTask
  <2> QED  BY <2>1 DEF Children, Planned
<1>8. HasTask(u, p) /\ ~Resolved(u[p]) /\ Children(u, p) # {}
      /\ \A c \in Children(u, p) : Resolved(u[c])
  BY DEF MayComplete
<1>9. ASSUME NEW q \in Nodes, Planned(q) # {}
      PROVE  \/ SameFacts(base[q], v[q])
             \/ Children(v, q) # {} /\ \A c \in Children(v, q) : Resolved(v[c])
  <2>1. \A c \in Children(u, q) : c \in Nodes
    BY DEF Children, Planned
  <2>2. CASE Children(u, q) # {} /\ \A c \in Children(u, q) : Resolved(u[c])
    <3>1. p \notin Children(u, q)
      BY <1>8, <2>2
    <3>2. \A c \in Children(v, q) : Resolved(v[c])
      BY <1>2, <1>7, <2>1, <2>2, <3>1
    <3> QED  BY <1>7, <2>2, <3>2
  <2>3. CASE ~(Children(u, q) # {} /\ \A c \in Children(u, q) : Resolved(u[c]))
    <3>1. q # p
      BY <1>8, <2>3
    <3>2. SameFacts(base[q], u[q])
      BY <1>9, <2>3 DEF Justified
    <3> QED  BY <1>2, <3>1, <3>2
  <2> QED  BY <2>2, <2>3
<1> QED  BY <1>1, <1>5, <1>9 DEF Justified

LEMMA ExecutedCases ==
  ASSUME NEW r \in Runners, NEW fact \in BOOLEAN, NEW contract
  PROVE  LET files == run[r].base[run[r].node]
             own == Over(File(Task, contract), files)
         IN  \/ Executed(r, fact, contract)
                  = Over(File(<<"plan", Latest(files, "plan") + 1>>, "composite"), own)
             \/ Executed(r, fact, contract)
                  = Over(File(<<"fact", run[r].nnn>>, Fact(facts + 1)), own)
             \/ Executed(r, fact, contract) = own
BY DEF Executed

LEMMA SignalJustified ==
  ASSUME NEW r \in Runners, run[r] \in RunRecords, run[r].node \in Nodes,
         NEW fact \in BOOLEAN, NEW contract, NEW seen,
         Executed(r, fact, contract) \in FileMaps
  PROVE  Justified(run[r].base, Signalled(r, Executed(r, fact, contract), seen))
<1> DEFINE n == run[r].node
           base == run[r].base
           files == Executed(r, fact, contract)
           own == Over(File(Task, contract), base[n])
           next == NextNumber(files)
           opened == IF Audit[n] = "required" THEN File(<<"pending-audit", next>>, "written")
                     ELSE NoFiles
           after == Over(Over(File(<<"run", next>>, "success"), opened), files)
           done == [base EXCEPT ![n] = after]
           planned == Over(File(<<"run", run[r].nnn>>, "decomposed"), files)
           cut == Without(files, {<<"fact", run[r].nnn>>})
           refused == Marked(Over(File(<<"run", run[r].nnn>>, "failed"), cut))
           made == Signalled(r, files, seen)
           X == {t \in Trees : Justified(base, t)}
<1>1. base \in Trees /\ n \in Nodes
  BY DEF RunRecords
<1>2. SameRecords(base[n], files)
  <2>1. SameRecords(base[n], own)
    BY SameRecordsItself, SameRecordsFile, NotRecord
  <2>2. \/ files = Over(File(<<"plan", Latest(base[n], "plan") + 1>>, "composite"), own)
        \/ files = Over(File(<<"fact", run[r].nnn>>, Fact(facts + 1)), own)
        \/ files = own
    BY ExecutedCases
  <2> HIDE DEF files, own
  <2> QED  BY <2>1, <2>2, SameRecordsFile, NotRecord
<1>3. /\ SameRecords(base[n], planned) /\ SameRecords(base[n], refused)
      /\ SameRecords(base[n], after)
  <2> HIDE DEF files
  <2>1. SameRecords(base[n], planned)
    BY <1>2, SameRecordsFile, NotRecord
  <2>2. SameRecords(base[n], refused)
    <3>1. SameRecords(base[n], cut)
      BY <1>2, SameRecordsWithout
    <3> HIDE DEF cut
    <3>2. SameRecords(base[n], Over(File(<<"run", run[r].nnn>>, "failed"), cut))
      BY <3>1, SameRecordsFile, NotRecord
    <3> QED  BY <3>2, SameRecordsMarked
  <2>3. SameRecords(base[n], after)
    <3>1. DOMAIN opened \subseteq {<<"pending-audit", next>>}
      BY DEF File, NoFiles
    <3>2. DOMAIN Over(File(<<"run", next>>, "success"), opened)
            \subseteq {<<"run", next>>, <<"pending-audit", next>>}
      BY <3>1 DEF Over, File
    <3>3. DOMAIN Over(File(<<"run", next>>, "success"), opened) \cap RecordNames = {}
      BY <3>2, NotRecord
    <3> HIDE DEF opened
    <3> QED  BY <1>2, <3>3, SameRecordsOver
  <2> QED  BY <2>1, <2>2, <2>3
<1>4. ASSUME NEW a, SameRecords(base[n], a), Planned(n) # {} => SameFacts(base[n], a)
      PROVE  Justified(base, [base EXCEPT ![n] = a])
  <2> DEFINE t == [base EXCEPT ![n] = a]
  <2>1. t[n] = a /\ \A m \in Nodes : m # n => t[m] = base[m]
    BY <1>1 DEF Trees
  <2> HIDE DEF t
  <2>2. \A m \in Nodes : SameRecords(base[m], t[m]) /\ (Planned(m) # {} => SameFacts(base[m], t[m]))
    BY <1>4, <2>1, SameRecordsItself DEF SameFacts
  <2>3. Justified(base, t)
    BY <2>2 DEF Justified
  <2> QED  BY <2>3 DEF t
<1>5. CASE Planned(n) # {}
  <2> DEFINE plan == File(<<"plan", Latest(base[n], "plan") + 1>>, "composite")
             decomposed == Over(File(<<"run", run[r].nnn>>, "decomposed"), Over(plan, own))
  <2>1. made = [base EXCEPT ![n] = planned] /\ planned = decomposed
    BY <1>5, SignalOfParent, ExecutedOfParent
  <2>2. DOMAIN decomposed
          = {<<"run", run[r].nnn>>, <<"plan", Latest(base[n], "plan") + 1>>, Task} \cup DOMAIN base[n]
    BY DEF Over, File
  <2> HIDE DEF decomposed, planned, made
  <2>3. SameFacts(base[n], planned)
    BY <2>1, <2>2 DEF SameFacts, Task
  <2>4. Justified(base, [base EXCEPT ![n] = planned])
    BY <1>3, <1>4, <2>3
  <2> QED  BY <2>1, <2>4 DEF made
<1>6. CASE Planned(n) = {}
  <2>1. \/ made = [base EXCEPT ![n] = planned]
        \/ made = [base EXCEPT ![n] = refused]
        \/ made = done
        \/ made = Propagated(done, n, files[<<"fact", next>>]) /\ <<"fact", next>> \in DOMAIN files
    BY SignalCases
  <2>2. /\ Justified(base, [base EXCEPT ![n] = planned])
        /\ Justified(base, [base EXCEPT ![n] = refused])
        /\ Justified(base, done)
    <3> HIDE DEF planned, refused, after
    <3> QED  BY <1>3, <1>4, <1>6
  <2>3. ASSUME <<"fact", next>> \in DOMAIN files
        PROVE  Justified(base, Propagated(done, n, files[<<"fact", next>>]))
    <3>1. files[<<"fact", next>>] \in TreeContents
      BY <2>3, FileMapIs
    <3>2. after \in FileMaps
      <4>1. next \in Nat
        BY NumbersAreNumbers
      <4>2. <<"run", next>> \in TreeNames /\ <<"pending-audit", next>> \in TreeNames
        BY <4>1, KnownNames DEF Chain
      <4> HIDE DEF next
      <4>3. opened \in FileMaps
        BY <4>2, FileMap, NoFileMap, KnownContents
      <4> HIDE DEF opened
      <4> QED  BY <4>2, <4>3, FileMap, OverMap, KnownContents
    <3> HIDE DEF after, next, files
    <3>3. done \in X
      BY <1>1, <2>2, <3>2, TreeWith
    <3>4. ASSUME NEW u \in X, NEW p \in Nodes, MayComplete(u, p)
          PROVE  Completed(u, p, files[<<"fact", next>>]) \in X
      BY <1>1, <3>1, <3>4, CompletedJustified, CompletedTree
    <3> HIDE DEF X, done
    <3>5. Propagated(done, n, files[<<"fact", next>>]) \in X
      BY <1>1, <3>3, <3>4, PropagatedStays
    <3> QED  BY <3>5 DEF X
  <2> HIDE DEF made, planned, refused, done, next, files
  <2>4. Justified(base, made)
    BY <2>1, <2>2, <2>3
  <2> QED  BY <2>4 DEF made, files
<1> QED  BY <1>5, <1>6

\* Two copies of the same attempt: what was proposed is the same, and what was decided once
\* is decided the same way later.
Abreast(old, new) ==
    \A k \in Nat :
        /\ <<"fact", k>> \in DOMAIN old <=> <<"fact", k>> \in DOMAIN new
        /\ <<"pending-audit", k>> \in DOMAIN old <=> <<"pending-audit", k>> \in DOMAIN new
        /\ <<"audit-result", k>> \in DOMAIN old =>
              /\ <<"audit-result", k>> \in DOMAIN new
              /\ new[<<"audit-result", k>>] = old[<<"audit-result", k>>]

\* Later files of a node: the archive grows, and between two archives nothing is undone.
Forward(old, new) ==
    /\ Latest(old, "history") <= Latest(new, "history")
    /\ Latest(old, "history") = Latest(new, "history") => Abreast(old, new)

LEMMA ArchiveNumber ==
  ASSUME NEW files
  PROVE  Latest(files, "history") \in Int
<1>1. Latest(files, "history") \in 0 .. MaxNumber /\ MaxNumber \in Nat
  BY LatestIsGreatest, TreeAssumption DEF TreeAssumption
<1> QED  BY <1>1

LEMMA AbreastResolved ==
  ASSUME NEW a, NEW b, Abreast(a, b), Resolved(a)
  PROVE  Resolved(b)
<1>1. MaxNumber \in Nat
  BY TreeAssumption DEF TreeAssumption
<1>2. ASSUME NEW k \in 1 .. MaxNumber
      PROVE  <<"fact", k>> \in DOMAIN a <=> <<"fact", k>> \in DOMAIN b
  <2>1. k \in Nat
    BY <1>1
  <2> QED  BY <2>1 DEF Abreast
<1>3. Latest(b, "fact") = Latest(a, "fact")
  BY <1>2, SameLatestFact DEF SameFacts
<1> DEFINE k == Latest(a, "fact")
<1>4. /\ k # 0 /\ k \in Nat
      /\ \/ <<"pending-audit", k>> \notin DOMAIN a
         \/ <<"audit-result", k>> \in DOMAIN a /\ a[<<"audit-result", k>>] = "success"
  BY FactStateIs, ResolvedHasFact
<1> HIDE DEF k
<1>5. \/ <<"pending-audit", k>> \notin DOMAIN b
      \/ <<"audit-result", k>> \in DOMAIN b /\ b[<<"audit-result", k>>] = "success"
  BY <1>4 DEF Abreast
<1> QED  BY <1>3, <1>4, <1>5, FactStateIs DEF k

LEMMA AgreeAbreast ==
  ASSUME NEW a, NEW b, Agree(a, b)
  PROVE  Abreast(a, b)
<1> SUFFICES ASSUME NEW k \in Nat
             PROVE  /\ <<"fact", k>> \in DOMAIN a <=> <<"fact", k>> \in DOMAIN b
                    /\ <<"pending-audit", k>> \in DOMAIN a <=> <<"pending-audit", k>> \in DOMAIN b
                    /\ <<"audit-result", k>> \in DOMAIN a =>
                          /\ <<"audit-result", k>> \in DOMAIN b
                          /\ b[<<"audit-result", k>>] = a[<<"audit-result", k>>]
  BY DEF Abreast
<1>1. /\ <<"fact", k>> \in DecisiveNames /\ <<"pending-audit", k>> \in DecisiveNames
      /\ <<"audit-result", k>> \in DecisiveNames
  BY DEF DecisiveNames
<1> QED  BY <1>1 DEF Agree

\* Nothing that counts is written.
LEMMA AgreeForward ==
  ASSUME NEW a, NEW b, Agree(a, b),
         \A k \in Nat : <<"history", k>> \in DOMAIN a <=> <<"history", k>> \in DOMAIN b
  PROVE  Forward(a, b) /\ Latest(a, "history") = Latest(b, "history")
<1>1. MaxNumber \in Nat
  BY TreeAssumption DEF TreeAssumption
<1>2. \A k \in 1 .. MaxNumber : k \in Nat
  BY <1>1
<1>3. Numbers(a, "history") = Numbers(b, "history")
  BY <1>2 DEF Numbers
<1>4. Latest(a, "history") = Latest(b, "history")
  BY <1>3 DEF Latest
<1>5. Abreast(a, b)
  BY AgreeAbreast
<1> QED  BY <1>4, <1>5, ArchiveNumber DEF Forward

LEMMA WrittenForward ==
  ASSUME NEW new, NEW old,
         \A f \in DOMAIN new \cap (DecisiveNames \cup RecordNames) :
             f \in DOMAIN old /\ new[f] = old[f]
  PROVE  Forward(old, Over(new, old))
<1>1. Agree(old, Over(new, old))
  BY WrittenOver
<1>2. ASSUME NEW k \in Nat
      PROVE  <<"history", k>> \in DOMAIN old <=> <<"history", k>> \in DOMAIN Over(new, old)
  <2>1. DOMAIN Over(new, old) = DOMAIN new \cup DOMAIN old
    BY DEF Over
  <2>2. <<"history", k>> \in RecordNames
    BY RecordIs
  <2> QED  BY <2>1, <2>2
<1> QED  BY <1>1, <1>2, AgreeForward

LEMMA ForwardItself == ASSUME NEW a PROVE Forward(a, a)
BY AgreeItself, AgreeForward

LEMMA VerdictForward ==
  ASSUME NEW files, NEW k \in Nat, <<"audit-result", k>> \notin DOMAIN files, NEW result
  PROVE  Forward(files, Over(File(<<"audit-result", k>>, result), files))
<1> DEFINE new == Over(File(<<"audit-result", k>>, result), files)
<1>1. /\ DOMAIN new = DOMAIN files \cup {<<"audit-result", k>>}
      /\ \A f \in DOMAIN files : new[f] = files[f]
  BY DEF Over, File
<1> HIDE DEF new
<1>2. Abreast(files, new)
  BY <1>1 DEF Abreast
<1>3. Numbers(files, "history") = Numbers(new, "history")
  BY <1>1 DEF Numbers
<1>4. Latest(files, "history") = Latest(new, "history")
  BY <1>3 DEF Latest
<1> QED  BY <1>2, <1>4, ArchiveNumber DEF Forward, new

LEMMA ArchiveForward ==
  ASSUME NEW files, Latest(files, "history") < MaxNumber
  PROVE  Forward(files, Archived(files))
<1> DEFINE chain == ChainOf(files)
           l == Latest(files, "history")
           k == Latest(files, "fact")
           kept == IF k = 0 THEN "written" ELSE files[<<"fact", k>>]
           name == <<"history", l + 1>>
           new == Over(File(name, kept), Without(files, chain))
<1>1. CASE chain = {}
  BY <1>1, ForwardItself DEF Archived
<1>2. CASE chain # {}
  <2>1. Archived(files) = new
    BY <1>2 DEF Archived
  <2>2. name \in DOMAIN new
    BY DEF Over, File
  <2>3. l + 1 \in 1 .. MaxNumber /\ l \in Int
    <3>1. l \in 0 .. MaxNumber /\ MaxNumber \in Nat
      BY LatestIsGreatest, TreeAssumption DEF TreeAssumption
    <3> HIDE DEF l
    <3> QED  BY <3>1 DEF l
  <2> HIDE DEF new, l
  <2>4. l + 1 <= Latest(new, "history")
    BY <2>2, <2>3, LatestIsGreatest
  <2>5. l < Latest(new, "history")
    BY <2>3, <2>4, ArchiveNumber
  <2>6. l <= Latest(new, "history") /\ l # Latest(new, "history")
    BY <2>3, <2>5, ArchiveNumber
  <2> QED  BY <2>1, <2>6 DEF Forward, l
<1> QED  BY <1>1, <1>2

-----------------------------------------------------------------------------
(* Runs that are under way.                                                *)

\* While a run works, no node is removed from main, and none is added to siblings.
CalmFamilies ==
    (\E r \in Runners : Busy(r)) =>
        \A c \in Nodes : /\ HasTask(main, c) => HasTask(main', c)
                         /\ HasTask(main', c) /\ ~HasTask(main, c) => Children(main, Parent[c]) = {}

\* What a run read of main, and what is there now.
Followed(r) ==
    /\ \A c \in Nodes :
         /\ Latest(run[r].base[c], "history") <= Latest(main[c], "history")
         /\ Latest(run[r].base[c], "history") = Latest(main[c], "history") =>
                (Resolved(run[r].base[c]) => Resolved(main[c]))
         /\ Children(run[r].base, c) # {} => Children(main, c) = Children(run[r].base, c)
    /\ LET n == run[r].node
       IN  Planned(n) = {} /\ Latest(run[r].base[n], "history") = Latest(main[n], "history") =>
               Abreast(run[r].base[n], main[n])

EvidenceInv(s) ==
    /\ KeptInv(s)
    /\ \A r \in Runners : Busy(r) =>
         /\ Followed(r)
         /\ run[r].phase = "publishing" =>
                Justified(run[r].base, run[r].mine) /\ KeepsMarks(run[r].base, run[r].mine)

\* Main after the step, for a node: the archive only grows, and a result that is not
\* archived is still one.
Stands(c) ==
    /\ Latest(main[c], "history") <= Latest(main'[c], "history")
    /\ Latest(main[c], "history") = Latest(main'[c], "history") =>
           (Resolved(main[c]) => Resolved(main'[c]))

LEMMA ForwardStands ==
  ASSUME NEW c, Forward(main[c], main'[c])
  PROVE  Stands(c)
BY AbreastResolved DEF Forward, Stands

\* A run that goes on while main changes.
LEMMA StillFollowed ==
  ASSUME TypeInv, NEW r \in Runners, Busy(r), Followed(r), CalmFamilies, run'[r] = run[r],
         \A c \in Nodes : Stands(c),
         Planned(run[r].node) = {} => Forward(main[run[r].node], main'[run[r].node])
  PROVE  Followed(r)'
<1> DEFINE base == run[r].base
           n == run[r].node
<1>1. run'[r].base = base /\ run'[r].node = n
  OBVIOUS
<1>2. ASSUME NEW c \in Nodes
      PROVE  /\ Latest(base[c], "history") <= Latest(main'[c], "history")
             /\ Latest(base[c], "history") = Latest(main'[c], "history") =>
                  /\ Latest(base[c], "history") = Latest(main[c], "history")
                  /\ Latest(main[c], "history") = Latest(main'[c], "history")
  <2> DEFINE x == Latest(base[c], "history")
             y == Latest(main[c], "history")
             z == Latest(main'[c], "history")
  <2>1. x \in Int /\ y \in Int /\ z \in Int
    BY ArchiveNumber
  <2>2. x <= y /\ y <= z
    BY DEF Followed, Stands
  <2> HIDE DEF x, y, z
  <2>3. x <= z /\ (x = z => x = y /\ y = z)
    BY <2>1, <2>2
  <2> QED  BY <2>3 DEF x, y, z
<1>3. ASSUME NEW c \in Nodes, Latest(base[c], "history") = Latest(main'[c], "history"), Resolved(base[c])
      PROVE  Resolved(main'[c])
  BY <1>2, <1>3 DEF Followed, Stands
<1>4. ASSUME NEW c \in Nodes, Children(base, c) # {}
      PROVE  Children(main', c) = Children(base, c)
  <2>1. Children(main, c) = Children(base, c)
    BY <1>4 DEF Followed
  <2>2. ASSUME NEW d \in Nodes, Parent[d] = c  PROVE HasTask(main', d) <=> HasTask(main, d)
    BY <1>4, <2>1, <2>2 DEF CalmFamilies
  <2>3. Children(main', c) = Children(main, c)
    BY <2>2 DEF Children, Planned
  <2> QED  BY <2>1, <2>3
<1>5. ASSUME Planned(n) = {}, Latest(base[n], "history") = Latest(main'[n], "history")
      PROVE  Abreast(base[n], main'[n])
  <2>1. n \in Nodes
    BY DEF TypeInv, RunsOfTasks
  <2>2. Abreast(base[n], main[n]) /\ Abreast(main[n], main'[n])
    BY <1>2, <1>5, <2>1 DEF Followed, Forward
  <2> QED  BY <2>2 DEF Abreast
<1> HIDE DEF base, n
<1> QED  BY <1>1, <1>2, <1>3, <1>4, <1>5 DEF Followed

\* A step that leaves the runs alone, or ends one.
LEMMA EvidenceStays ==
  ASSUME NEW s \in Hosts, EvidenceInv(s), KeptInv(s)', CalmFamilies,
         \A q \in Runners : Busy(q)' => run'[q] = run[q],
         \A c \in Nodes : Stands(c),
         \A q \in Runners : Busy(q)' /\ Planned(run[q].node) = {} =>
             Forward(main[run[q].node], main'[run[q].node])
  PROVE  EvidenceInv(s)'
<1> SUFFICES ASSUME NEW q \in Runners, Busy(q)'
             PROVE  /\ Followed(q)'
                    /\ run'[q].phase = "publishing" =>
                         Justified(run'[q].base, run'[q].mine) /\ KeepsMarks(run'[q].base, run'[q].mine)
  BY DEF EvidenceInv
<1>1. run'[q] = run[q] /\ Busy(q) /\ TypeInv
  BY DEF EvidenceInv, KeptInv, Busy
<1>2. Followed(q)'
  BY <1>1, StillFollowed DEF EvidenceInv
<1> QED  BY <1>1, <1>2 DEF EvidenceInv

LEMMA EvidenceCommand ==
  ASSUME NEW s \in Hosts, EvidenceInv(s), TypeInv', NEW g \in Hosts, g # s, NEW n \in Nodes,
         Approve(g, n) \/ Verdict(g, n) \/ LifecycleCommand(g, n), tree[g] = main, CalmFamilies
  PROVE  EvidenceInv(s)'
<1>1. KeptInv(s) /\ TypeInv
  BY DEF EvidenceInv, KeptInv
<1>2. KeptInv(s)'
  BY <1>1, KeptApprove, KeptVerdict, KeptInvalidate, KeptKill DEF LifecycleCommand
<1>3. /\ UNCHANGED run
      /\ \/ \A c \in Nodes : Forward(main[c], main'[c])
         \/ HasTask(main, n) /\ ~HasTask(main', n)
  <2>1. CASE Approve(g, n)
    <3>1. UNCHANGED run /\ (main' = main \/ \A m \in Nodes : Marking(main[m], main'[m]))
      BY <1>1, <2>1, ApproveIs
    <3>2. ASSUME NEW m \in Nodes, Marking(main[m], main'[m])  PROVE Forward(main[m], main'[m])
      BY <3>2, WrittenForward, MarksNotDecisive DEF Marking
    <3> QED  BY <3>1, <3>2, ForwardItself
  <2>2. CASE Verdict(g, n)
    <3>1. UNCHANGED run /\ \A m \in Nodes : main'[m] = main[m] \/ Judging(main[m], main'[m])
      BY <1>1, <2>2, VerdictIs
    <3>2. ASSUME NEW m \in Nodes, Judging(main[m], main'[m])  PROVE Forward(main[m], main'[m])
      BY <3>2, VerdictForward DEF Judging
    <3> QED  BY <3>1, <3>2, ForwardItself
  <2>3. CASE Invalidate(g, n)
    <3>1. /\ UNCHANGED run
          /\ \A m \in Nodes : \/ main'[m] = main[m]
                              \/ /\ main'[m] = Archived(main[m])
                                 /\ Latest(main[m], "history") < MaxNumber
      BY <1>1, <2>3, InvalidateIs
    <3> QED  BY <3>1, ForwardItself, ArchiveForward
  <2>4. CASE Kill(g, n)
    <3>1. UNCHANGED run /\ (main' = main \/ (HasTask(main, n) /\ ~HasTask(main', n)))
      BY <1>1, <2>4, KillIs
    <3> QED  BY <3>1, ForwardItself
  <2> QED  BY <2>1, <2>2, <2>3, <2>4 DEF LifecycleCommand
<1>4. CASE \A c \in Nodes : Forward(main[c], main'[c])
  <2>1. \A c \in Nodes : Stands(c)
    BY <1>4, ForwardStands
  <2>2. \A q \in Runners : Busy(q)' => run'[q] = run[q] /\ run[q].node \in Nodes
    BY <1>1, <1>3 DEF Busy, TypeInv, RunsOfTasks
  <2> QED  BY <1>2, <1>4, <2>1, <2>2, EvidenceStays
<1>5. CASE HasTask(main, n) /\ ~HasTask(main', n)
  <2>1. \A q \in Runners : ~Busy(q)
    BY <1>5 DEF CalmFamilies
  <2>2. \A q \in Runners : ~Busy(q)'
    BY <1>3, <2>1 DEF Busy
  <2> QED  BY <1>2, <2>2 DEF EvidenceInv
<1> QED  BY <1>3, <1>4, <1>5

LEMMA EvidenceStart ==
  ASSUME NEW s, OneServer(s), EvidenceInv(s), TypeInv', NEW r \in Runners, Start(r), CalmFamilies
  PROVE  EvidenceInv(s)'
<1>1. KeptInv(s) /\ TypeInv /\ s \in Hosts
  BY DEF EvidenceInv, KeptInv, OneServer
<1>2. KeptInv(s)'
  BY <1>1, KeptStart
<1>3. PICK n \in Nodes :
        run' = [run EXCEPT ![r] =
             [phase |-> "working", node |-> n, nnn |-> NextNumber(tree[HostOf[r]][n]),
              base |-> main, mine |-> main]]
  BY DEF Start, Claimable
<1>4. UNCHANGED main /\ run \in [Runners -> RunRecords]
  BY <1>1 DEF Start, TypeInv
<1> HIDE DEF RunRecords
<1>5. /\ run'[r].phase = "working" /\ run'[r].node = n /\ run'[r].base = main
      /\ \A q \in Runners : q # r => run'[q] = run[q]
  BY <1>3, <1>4
<1>6. Followed(r)'
  <2>1. \A c \in Nodes : Latest(main[c], "history") <= Latest(main[c], "history")
    BY ArchiveNumber
  <2>2. Abreast(main[n], main[n])
    BY AgreeItself, AgreeAbreast
  <2> QED  BY <1>4, <1>5, <2>1, <2>2 DEF Followed
<1>7. \A c \in Nodes : Stands(c) /\ Forward(main[c], main'[c])
  BY <1>4, ForwardItself, ForwardStands
<1>8. ASSUME NEW q \in Runners, Busy(q)', q # r
      PROVE  /\ Followed(q)'
             /\ run'[q].phase = "publishing" =>
                  Justified(run'[q].base, run'[q].mine) /\ KeepsMarks(run'[q].base, run'[q].mine)
  <2>1. run'[q] = run[q] /\ Busy(q)
    BY <1>5, <1>8 DEF Busy
  <2>2. run[q].node \in Nodes
    BY <1>1, <2>1 DEF TypeInv, RunsOfTasks
  <2>3. Followed(q)'
    BY <1>1, <1>7, <2>1, <2>2, StillFollowed DEF EvidenceInv
  <2> QED  BY <2>1, <2>3 DEF EvidenceInv
<1> QED  BY <1>2, <1>5, <1>6, <1>8 DEF EvidenceInv

LEMMA EvidenceFinish ==
  ASSUME NEW s \in Hosts, EvidenceInv(s), TypeInv', NEW r \in Runners, Finish(r)
  PROVE  EvidenceInv(s)'
<1> DEFINE n == run[r].node
<1>1. PICK fact \in BOOLEAN, weaken \in {FALSE, MayWeaken}, seen \in {run[r].base[n], main[n]} :
        /\ fact => facts < MaxFacts /\ Planned(n) = {}
        /\ facts' = IF fact THEN facts + 1 ELSE facts
        /\ run' = [run EXCEPT
             ![r].phase = "publishing",
             ![r].mine = Signalled(r, Executed(r, fact,
                 IF weaken THEN "weakened" ELSE run[r].base[n][Task]), seen)]
  BY DEF Finish
<1> DEFINE contract == IF weaken THEN "weakened" ELSE run[r].base[n][Task]
           files == Executed(r, fact, contract)
           made == Signalled(r, files, seen)
           finished == [run[r] EXCEPT !.phase = "publishing", !.mine = made]
<1>2. TypeInv /\ KeptInv(s) /\ Busy(r) /\ run[r] \in RunRecords
  BY DEF Finish, EvidenceInv, KeptInv, TypeInv, Busy
<1>3. n \in Nodes /\ HasTask(run[r].base, n)
  BY <1>2 DEF TypeInv, RunsOfTasks
<1>4. contract \in TreeContents
  <2>1. run[r].base[n] \in FileMaps
    BY <1>2, <1>3 DEF RunRecords, Trees
  <2>2. run[r].base[n][Task] \in TreeContents
    BY <1>3, <2>1, FileMapIs DEF HasTask
  <2> QED  BY <2>2, KnownContents
<1>5. facts \in Nat
  BY <1>2, TreeAssumption DEF TypeInv, TreeAssumption
<1>6. files \in FileMaps
  <2> HIDE DEF contract, FileMaps, RunRecords
  <2> QED  BY <1>1, <1>2, <1>3, <1>4, <1>5, ExecutedMap
<1>7. Justified(run[r].base, made)
  <2> HIDE DEF contract, FileMaps, RunRecords
  <2> QED  BY <1>2, <1>3, <1>6, SignalJustified
<1>8. KeepsMarks(run[r].base, made)
  <2>1. /\ Marks(files) = Marks(run[r].base[n]) /\ Plans(run[r].base[n]) \subseteq Plans(files)
    <3> HIDE DEF contract
    <3> QED  BY <1>3, ExecutedMarks
  <2> HIDE DEF contract, files, FileMaps, RunRecords
  <2> QED  BY <1>2, <1>3, <1>6, <2>1, SignalledMarks
<1>9. run' = [run EXCEPT ![r].phase = "publishing", ![r].mine = made]
  BY <1>1
<1> HIDE DEF made, files, contract
<1>10. run' = [run EXCEPT ![r] = finished]
  BY <1>2, <1>9 DEF TypeInv
<1>11. /\ finished.node = n /\ finished.base = run[r].base /\ finished.mine = made
  <2> HIDE DEF Trees
  <2> QED  BY <1>2 DEF RunRecords
<1> HIDE DEF finished, RunRecords
<1>12. run'[r] = finished /\ \A q \in Runners : q # r => run'[q] = run[q]
  BY <1>2, <1>10 DEF TypeInv
<1>13. UNCHANGED main /\ KeptInv(s)'
  BY <1>2, KeptFinish DEF Finish
<1>14. ASSUME NEW q \in Runners, Busy(q)'
       PROVE  /\ Followed(q)'
              /\ run'[q].phase = "publishing" =>
                   Justified(run'[q].base, run'[q].mine) /\ KeepsMarks(run'[q].base, run'[q].mine)
  <2>1. /\ Busy(q) /\ run'[q].base = run[q].base /\ run'[q].node = run[q].node
    BY <1>2, <1>11, <1>12, <1>14 DEF Busy
  <2>2. Followed(q)'
    BY <1>13, <2>1 DEF EvidenceInv, Followed
  <2>3. CASE q = r
    BY <1>7, <1>8, <1>11, <1>12, <2>2, <2>3
  <2>4. CASE q # r
    BY <1>12, <2>1, <2>2, <2>4 DEF EvidenceInv
  <2> QED  BY <2>3, <2>4
<1> QED  BY <1>13, <1>14 DEF EvidenceInv

\* A parent that has a fact, and no audit, is resolved.
LEMMA ParentResolved ==
  ASSUME NEW files, NoPendings(files), NEW k \in 1 .. MaxNumber, <<"fact", k>> \in DOMAIN files
  PROVE  Resolved(files)
<1>1. MaxNumber \in Nat /\ Latest(files, "fact") \in 0 .. MaxNumber
  BY LatestIsGreatest, TreeAssumption DEF TreeAssumption
<1>2. k <= Latest(files, "fact")
  BY LatestIsGreatest
<1>3. Latest(files, "fact") # 0 /\ Latest(files, "fact") \in Nat
  BY <1>1, <1>2
<1>4. <<"pending-audit", Latest(files, "fact")>> \notin DOMAIN files
  BY <1>3 DEF NoPendings
<1> QED  BY <1>3, <1>4, FactStateIs

LEMMA RebasedHas ==
  ASSUME NEW theirs, NEW base, NEW mine, NEW f \in DOMAIN mine, f \notin DOMAIN base
  PROVE  f \in DOMAIN Rebased(theirs, base, mine)
BY DEF Rebased, Changed

\* The run itself resolved its leaf: what it proposed is on main as it proposed it.
LEMMA MergedResolved ==
  ASSUME NEW theirs, NEW base, NEW mine, Abreast(base, theirs), SameRecords(base, mine),
         Resolved(mine)
  PROVE  Resolved(Rebased(theirs, base, mine))
<1> DEFINE own == Changed(base, mine)
           merged == Rebased(theirs, base, mine)
<1>1. /\ DOMAIN merged = (DOMAIN theirs \ own) \cup (own \cap DOMAIN mine)
      /\ \A f \in DOMAIN merged : merged[f] = IF f \in own THEN mine[f] ELSE theirs[f]
  BY DEF Rebased
<1>2. /\ \A f \in DOMAIN mine : f \notin own => f \in DOMAIN base /\ base[f] = mine[f]
      /\ \A f \in DOMAIN base : f \notin own => f \in DOMAIN mine /\ base[f] = mine[f]
  BY DEF Changed
<1> HIDE DEF own, merged
<1>3. ASSUME NEW k \in Nat
      PROVE  /\ <<"fact", k>> \in DOMAIN merged <=> <<"fact", k>> \in DOMAIN mine
             /\ <<"pending-audit", k>> \in DOMAIN merged <=> <<"pending-audit", k>> \in DOMAIN mine
  <2>1. /\ <<"fact", k>> \in DOMAIN base <=> <<"fact", k>> \in DOMAIN theirs
        /\ <<"pending-audit", k>> \in DOMAIN base <=> <<"pending-audit", k>> \in DOMAIN theirs
    BY DEF Abreast
  <2> QED  BY <1>1, <1>2, <2>1
<1>4. MaxNumber \in Nat
  BY TreeAssumption DEF TreeAssumption
<1>5. SameFacts(merged, mine)
  <2>1. \A k \in 1 .. MaxNumber : k \in Nat
    BY <1>4
  <2> QED  BY <1>3, <2>1 DEF SameFacts
<1>6. Latest(merged, "fact") = Latest(mine, "fact")
  BY <1>5, SameLatestFact
<1> DEFINE k == Latest(mine, "fact")
<1>7. /\ k # 0 /\ k \in Nat
      /\ \/ <<"pending-audit", k>> \notin DOMAIN mine
         \/ <<"audit-result", k>> \in DOMAIN mine /\ mine[<<"audit-result", k>>] = "success"
  BY FactStateIs, ResolvedHasFact
<1> HIDE DEF k
<1>8. ASSUME <<"audit-result", k>> \in DOMAIN mine, mine[<<"audit-result", k>>] = "success"
      PROVE  <<"audit-result", k>> \in DOMAIN merged /\ merged[<<"audit-result", k>>] = "success"
  <2> DEFINE f == <<"audit-result", k>>
  <2>1. f \in RecordNames
    BY <1>7, RecordIs
  <2>2. f \in DOMAIN base /\ base[f] = mine[f]
    BY <1>8, <2>1 DEF SameRecords
  <2>3. f \in DOMAIN theirs /\ theirs[f] = base[f]
    BY <1>7, <2>2 DEF Abreast
  <2>4. f \notin own
    BY <1>8, <2>2 DEF own, Changed
  <2> QED  BY <1>1, <1>8, <2>2, <2>3, <2>4
<1>9. \/ <<"pending-audit", k>> \notin DOMAIN merged
      \/ <<"audit-result", k>> \in DOMAIN merged /\ merged[<<"audit-result", k>>] = "success"
  BY <1>3, <1>7, <1>8
<1> QED  BY <1>6, <1>7, <1>9, FactStateIs DEF k, merged

LEMMA RebasedRecords ==
  ASSUME NEW theirs, NEW base, NEW mine, SameRecords(base, mine)
  PROVE  SameRecords(theirs, Rebased(theirs, base, mine))
<1>1. Changed(base, mine) \cap RecordNames = {}
  BY DEF Changed, SameRecords
<1> QED  BY <1>1 DEF SameRecords, Rebased

\* What a merge leaves of a parent's results.
LEMMA ParentMerged ==
  ASSUME NEW theirs, NEW base, NEW mine, ~Conflicting(theirs, base, mine),
         KeepsFacts(base, mine), NoPendings(theirs), NoPendings(base), NoPendings(mine),
         NoPendings(Rebased(theirs, base, mine))
  PROVE  LET merged == Rebased(theirs, base, mine)
         IN  /\ Resolved(theirs) => Resolved(merged)
             /\ Resolved(mine) => Resolved(merged) \/ Resolved(base)
<1> DEFINE merged == Rebased(theirs, base, mine)
<1>1. ASSUME Resolved(theirs)  PROVE Resolved(merged)
  <2> DEFINE k == Latest(theirs, "fact")
  <2>1. k \in 1 .. MaxNumber /\ <<"fact", k>> \in DOMAIN theirs
    BY <1>1, ResolvedHasFact
  <2> HIDE DEF k, merged
  <2>2. <<"fact", k>> \in DOMAIN merged
    BY <2>1, RebasedKeeps DEF KeepsFacts, merged
  <2> QED  BY <2>1, <2>2, ParentResolved DEF merged
<1>2. ASSUME Resolved(mine)  PROVE Resolved(merged) \/ Resolved(base)
  <2> DEFINE k == Latest(mine, "fact")
  <2>1. k \in 1 .. MaxNumber /\ <<"fact", k>> \in DOMAIN mine
    BY <1>2, ResolvedHasFact
  <2> HIDE DEF k, merged
  <2>2. CASE <<"fact", k>> \in DOMAIN base
    BY <2>1, <2>2, ParentResolved
  <2>3. CASE <<"fact", k>> \notin DOMAIN base
    <3>1. <<"fact", k>> \in DOMAIN merged
      BY <2>1, <2>3, RebasedHas DEF merged
    <3> QED  BY <2>1, <3>1, ParentResolved DEF merged
  <2> QED  BY <2>2, <2>3
<1> QED  BY <1>1, <1>2

\* Main after a publish: a parent has its results, another leaf is as it was, the leaf of the
\* run had none; and what is resolved in the worktree is resolved on main, or was not yet
\* when the run started.
LEMMA PublishedOf ==
  ASSUME NEW s \in Hosts, EvidenceInv(s), TypeInv', NEW r \in Runners, PublishRun(r),
         NEW m \in Nodes
  PROVE  /\ Stands(m)
         /\ Planned(m) = {} /\ m # run[r].node => main'[m] = main[m]
         /\ \/ Latest(main'[m], "fact") = Latest(main[m], "fact")
            \/ /\ main'[m] = Rebased(main[m], run[r].base[m], run[r].mine[m])
               /\ \A c \in Nodes : main'[c] = Rebased(main[c], run[r].base[c], run[r].mine[c])
               /\ \A c \in Nodes : ~Conflicting(main[c], run[r].base[c], run[r].mine[c])
<1> DEFINE n == run[r].node
           base == run[r].base
           mine == run[r].mine
           failure == File(<<"run", run[r].nnn>>, "merge-conflict")
           rebased == [c \in Nodes |-> Rebased(main[c], base[c], mine[c])]
<1>1. /\ \/ main' = [main EXCEPT ![n] = Over(failure, @)]
         \/ /\ main' = rebased
            /\ \A c \in Nodes : ~Conflicting(main[c], base[c], mine[c])
      /\ Busy(r) /\ run[r].phase = "publishing"
  BY PublishedIs DEF PublishRun
<1>2. KeptInv(s) /\ TypeInv /\ run[r] \in RunRecords /\ main \in Trees
  BY DEF EvidenceInv, KeptInv, TypeInv
<1>3. n \in Nodes /\ base \in Trees /\ mine \in Trees
  BY <1>1, <1>2 DEF TypeInv, RunsOfTasks, RunRecords
<1>4. /\ Planned(n) = {} => Undecided(main[n])
      /\ Worked(n, base, mine) /\ Justified(base, mine)
      /\ Planned(m) # {} => NoPendings(main[m]) /\ NoPendings(base[m])
  BY <1>1, <1>2 DEF KeptInv, EvidenceInv
<1> HIDE DEF n, base, mine
<1>5. CASE main' = [main EXCEPT ![n] = Over(failure, @)]
  <2>1. main'[m] = IF m = n THEN Over(failure, main[m]) ELSE main[m]
    BY <1>2, <1>3, <1>5 DEF Trees
  <2>2. Agree(main[m], Over(failure, main[m])) /\ Agree(main[m], main[m])
    BY OtherFileOver, NotDecisive, AgreeItself
  <2>3. Latest(main'[m], "fact") = Latest(main[m], "fact")
    BY <2>1, <2>2, AgreeSame
  <2>4. Forward(main[m], Over(failure, main[m])) /\ Forward(main[m], main[m])
    <3>1. \A f \in DOMAIN failure : f \notin DecisiveNames \cup RecordNames
      BY NotDecisive, NotRecord DEF File
    <3> HIDE DEF failure
    <3> QED  BY <3>1, WrittenForward, ForwardItself
  <2>5. Forward(main[m], main'[m])
    <3> HIDE DEF failure
    <3> QED  BY <2>1, <2>4
  <2> QED  BY <2>1, <2>3, <2>5, ForwardStands DEF n
<1>6. CASE main' = rebased /\ \A c \in Nodes : ~Conflicting(main[c], base[c], mine[c])
  <2>1. \A c \in Nodes : main'[c] = Rebased(main[c], base[c], mine[c])
    BY <1>6
  <2>2. SameRecords(main[m], main'[m])
    BY <1>4, <2>1, RebasedRecords DEF Justified
  <2>3. Latest(main[m], "history") = Latest(main'[m], "history")
    BY <2>2, SameArchive
  <2>4. /\ Planned(m) # {} /\ NoPendings(main[m]) => NoPendings(main'[m])
        /\ Planned(m) = {} /\ m # n => main'[m] = main[m]
    BY <1>2, <1>3, <1>4, <1>6, <2>1, KeptMerge
  <2>5. ASSUME Resolved(main[m])  PROVE Resolved(main'[m])
    <3>1. CASE Planned(m) # {}
      <4>1. KeepsFacts(base[m], mine[m]) /\ NoPendings(mine[m])
        BY <1>4, <3>1 DEF Worked
      <4> QED  BY <1>4, <1>6, <2>1, <2>4, <2>5, <3>1, <4>1, ParentMerged
    <3>2. CASE Planned(m) = {} /\ m # n
      BY <2>4, <2>5, <3>2
    <3>3. CASE Planned(m) = {} /\ m = n
      BY <1>4, <2>5, <3>3 DEF Undecided, Resolved
    <3> QED  BY <3>1, <3>2, <3>3
  <2>6. Stands(m)
    BY <2>3, <2>5, ArchiveNumber DEF Stands
  <2> QED  BY <1>6, <2>1, <2>4, <2>6 DEF n, base, mine
<1> QED  BY <1>1, <1>5, <1>6

LEMMA EvidencePublish ==
  ASSUME NEW s, OneServer(s), EvidenceInv(s), TypeInv', NEW r \in Runners, PublishRun(r),
         CalmFamilies
  PROVE  EvidenceInv(s)'
<1>1. s \in Hosts /\ KeptInv(s) /\ TypeInv
  BY DEF OneServer, EvidenceInv, KeptInv
<1>2. KeptInv(s)'
  BY <1>1, KeptPublish
<1>3. run' = [run EXCEPT ![r] = IdleRun] /\ Busy(r) /\ run \in [Runners -> RunRecords]
  BY <1>1, PublishedIs DEF TypeInv
<1> HIDE DEF RunRecords
<1>4. run'[r].phase = "idle" /\ \A q \in Runners : q # r => run'[q] = run[q]
  BY <1>3 DEF IdleRun
<1>5. \A q \in Runners : Busy(q)' => q # r /\ run'[q] = run[q] /\ Busy(q)
  BY <1>4 DEF Busy
<1>6. \A c \in Nodes : Stands(c)
  BY <1>1, PublishedOf
<1>7. ASSUME NEW q \in Runners, Busy(q)', Planned(run[q].node) = {}
      PROVE  Forward(main[run[q].node], main'[run[q].node])
  <2>1. run[q].node # run[r].node /\ run[q].node \in Nodes
    BY <1>1, <1>3, <1>5, <1>7 DEF TypeInv, RunsOfTasks
  <2>2. main'[run[q].node] = main[run[q].node]
    BY <1>1, <1>7, <2>1, PublishedOf
  <2> QED  BY <2>2, ForwardItself
<1> QED  BY <1>1, <1>2, <1>5, <1>6, <1>7, EvidenceStays

\* The children of a parent that a run completes.
LEMMA Evidence ==
  ASSUME NEW s \in Hosts, EvidenceInv(s), TypeInv', NEW r \in Runners, PublishRun(r),
         NEW p \in Nodes, Planned(p) # {}, Latest(main'[p], "fact") > Latest(main[p], "fact"),
         NEW c \in Planned(p)
  PROVE  run[r].phase = "publishing" /\ (Resolved(main'[c]) \/ Mutated(run[r].base, c))
<1> DEFINE n == run[r].node
           base == run[r].base
           mine == run[r].mine
<1>1. Busy(r) /\ run[r].phase = "publishing"
  BY PublishedIs DEF PublishRun
<1>2. KeptInv(s) /\ TypeInv /\ run[r] \in RunRecords /\ main \in Trees /\ MaxNumber \in Nat
  BY TreeAssumption DEF EvidenceInv, KeptInv, TypeInv, TreeAssumption
<1>3. n \in Nodes /\ base \in Trees /\ mine \in Trees /\ c \in Nodes
  BY <1>1, <1>2 DEF TypeInv, RunsOfTasks, RunRecords, Planned
<1>4. /\ Planned(n) = {} => Undecided(main[n])
      /\ Worked(n, base, mine) /\ Justified(base, mine) /\ KeepsMarks(base, mine)
      /\ \A m \in Nodes : Planned(m) # {} => NoPendings(main[m]) /\ NoPendings(base[m])
      /\ Followed(r)
  BY <1>1, <1>2 DEF KeptInv, EvidenceInv
<1>5. Latest(main'[p], "fact") # Latest(main[p], "fact")
  <2>1. Latest(main'[p], "fact") \in Nat /\ Latest(main[p], "fact") \in Nat
    BY BoundNumbers
  <2> QED  BY <2>1
<1>6. /\ \A m \in Nodes : main'[m] = Rebased(main[m], base[m], mine[m])
      /\ \A m \in Nodes : ~Conflicting(main[m], base[m], mine[m])
  BY <1>5, PublishedOf
<1>7. ~SameFacts(base[p], mine[p])
  <2> DEFINE k == Latest(main'[p], "fact")
             l == Latest(main[p], "fact")
             f == <<"fact", k>>
  <2>1. k \in Nat /\ l \in Nat /\ k > l /\ k # 0
    <3>1. k \in Nat /\ l \in Nat
      BY BoundNumbers
    <3> QED  BY <3>1
  <2>2. k \in 1 .. MaxNumber /\ f \in DOMAIN main'[p]
    BY <2>1, FactNumber
  <2>3. f \notin DOMAIN main[p]
    <3>1. ASSUME f \in DOMAIN main[p]  PROVE FALSE
      <4>1. k <= l
        BY <2>2, <3>1, LatestIsGreatest
      <4> QED  BY <2>1, <4>1
    <3> QED  BY <3>1
  <2>4. f \in DOMAIN mine[p] /\ f \in Changed(base[p], mine[p])
    <3>1. f \in DOMAIN Rebased(main[p], base[p], mine[p])
      BY <1>6, <2>2
    <3> HIDE DEF k
    <3> QED  BY <2>3, <3>1 DEF Rebased
  <2>5. f \notin DOMAIN base[p]
    <3>1. KeepsFacts(base[p], mine[p])
      BY <1>4 DEF Worked
    <3> HIDE DEF k
    <3> QED  BY <2>2, <2>4, <3>1 DEF KeepsFacts, Changed
  <2> HIDE DEF k
  <2> QED  BY <2>2, <2>4, <2>5 DEF SameFacts
<1>8. /\ Children(mine, p) # {}
      /\ \A d \in Children(mine, p) : Resolved(mine[d])
  BY <1>4, <1>7 DEF Justified
<1>9. Children(base, p) = Children(mine, p)
  <2>1. \A d \in Nodes : HasTask(base, d) <=> HasTask(mine, d)
    BY <1>4, TaskIsMark DEF KeepsMarks
  <2> QED  BY <2>1 DEF Children, Planned
<1>10. Children(main, p) = Children(mine, p)
  BY <1>4, <1>8, <1>9 DEF Followed
<1> HIDE DEF n, base, mine
<1>11. ASSUME ~Mutated(base, c)  PROVE Resolved(main'[c])
  <2>1. HasTask(main, c) /\ Latest(base[c], "history") = Latest(main[c], "history")
    BY <1>11 DEF Mutated
  <2>2. Resolved(mine[c])
    BY <1>8, <1>10, <2>1 DEF Children
  <2>3. Stands(c)
    BY PublishedOf, <1>3
  <2>4. Resolved(base[c]) => Resolved(main[c])
    BY <1>3, <1>4, <2>1 DEF Followed, base
  <2>5. main'[c] = Rebased(main[c], base[c], mine[c])
    BY <1>3, <1>6
  <2>6. /\ Planned(c) # {} /\ NoPendings(main[c]) => NoPendings(main'[c])
        /\ Planned(c) = {} /\ c # n => main'[c] = main[c]
    BY <1>2, <1>3, <1>4, <1>6, <2>5, KeptMerge
  <2>7. CASE Planned(c) # {}
    <3>1. KeepsFacts(base[c], mine[c]) /\ NoPendings(mine[c])
      BY <1>3, <1>4, <2>7 DEF Worked
    <3>2. /\ Resolved(main[c]) => Resolved(main'[c])
          /\ Resolved(mine[c]) => Resolved(main'[c]) \/ Resolved(base[c])
      BY <1>3, <1>4, <1>6, <2>5, <2>6, <2>7, <3>1, ParentMerged
    <3> QED  BY <2>2, <2>4, <3>2
  <2>8. CASE Planned(c) = {} /\ c # n
    <3>1. mine[c] = base[c]
      BY <1>3, <1>4, <2>8 DEF Worked
    <3> QED  BY <2>2, <2>4, <2>6, <2>8, <3>1
  <2>9. CASE Planned(c) = {} /\ c = n
    <3>1. Abreast(base[c], main[c])
      BY <1>4, <2>1, <2>9 DEF Followed, base, n
    <3>2. SameRecords(base[c], mine[c])
      BY <1>3, <1>4 DEF Justified
    <3> QED  BY <2>2, <2>5, <3>1, <3>2, MergedResolved
  <2> QED  BY <2>7, <2>8, <2>9
<1> QED  BY <1>1, <1>11 DEF base

\* Parents that get a fact in the step, and a run to show for it.
OnEvidence ==
    \A p \in Nodes :
        Planned(p) # {} /\ Latest(main'[p], "fact") > Latest(main[p], "fact") =>
            \E r \in Runners :
                /\ run[r].phase = "publishing"
                /\ \A c \in Planned(p) : Resolved(main'[c]) \/ Mutated(run[r].base, c)

\* Only a publish gives facts.
LEMMA NoNewFact ==
  ASSUME \A m \in Nodes : Latest(main'[m], "fact") <= Latest(main[m], "fact")
  PROVE  OnEvidence
<1>1. ASSUME NEW p \in Nodes  PROVE ~(Latest(main'[p], "fact") > Latest(main[p], "fact"))
  <2>1. Latest(main'[p], "fact") \in Nat /\ Latest(main[p], "fact") \in Nat
    BY BoundNumbers
  <2> QED  BY <2>1
<1> QED  BY <1>1 DEF OnEvidence

LEMMA FewerFacts ==
  ASSUME NEW a, NEW b, \A k \in 1 .. MaxNumber : <<"fact", k>> \in DOMAIN b => <<"fact", k>> \in DOMAIN a
  PROVE  Latest(b, "fact") <= Latest(a, "fact")
<1>1. Latest(a, "fact") \in Nat /\ Latest(b, "fact") \in Nat
  BY BoundNumbers
<1>2. CASE Latest(b, "fact") = 0
  BY <1>1, <1>2
<1>3. CASE Latest(b, "fact") # 0
  BY <1>3, FactNumber, LatestIsGreatest
<1> QED  BY <1>2, <1>3

LEMMA CommandsProveNothing ==
  ASSUME TypeInv, NEW s \in Hosts, NEW g \in Hosts, g # s, NEW n \in Nodes,
         Approve(g, n) \/ Verdict(g, n) \/ LifecycleCommand(g, n), tree[g] = main
  PROVE  OnEvidence
<1>1. \A m \in Nodes : \/ main'[m] \in {main[m], NoFiles, Archived(main[m])}
                       \/ Marking(main[m], main'[m]) \/ Judging(main[m], main'[m])
  <2>1. CASE Approve(g, n)
    BY <2>1, ApproveIs
  <2>2. CASE Verdict(g, n)
    BY <2>2, VerdictIs
  <2>3. CASE Invalidate(g, n)
    BY <2>3, InvalidateIs
  <2>4. CASE Kill(g, n)
    BY <2>4, KillIs
  <2> QED  BY <2>1, <2>2, <2>3, <2>4 DEF LifecycleCommand
<1>2. ASSUME NEW m \in Nodes
      PROVE  Latest(main'[m], "fact") <= Latest(main[m], "fact")
  <2>1. Latest(main[m], "fact") \in Nat
    BY BoundNumbers
  <2>2. CASE main'[m] = main[m]
    BY <2>1, <2>2
  <2>3. CASE main'[m] = NoFiles
    <3>1. DOMAIN NoFiles = {}
      BY DEF NoFiles
    <3> QED  BY <2>3, <3>1, FewerFacts
  <2>4. CASE main'[m] = Archived(main[m])
    <3>1. \A k : <<"fact", k>> \in DOMAIN Archived(main[m]) => <<"fact", k>> \in DOMAIN main[m]
      BY DEF Archived, Over, File, Without, ChainOf
    <3> QED  BY <2>4, <3>1, FewerFacts
  <2>5. CASE Marking(main[m], main'[m])
    <3>1. Agree(main[m], main'[m])
      BY <2>5, WrittenOver, MarksNotDecisive DEF Marking
    <3> QED  BY <2>1, <3>1, AgreeSame
  <2>6. CASE Judging(main[m], main'[m])
    <3>1. \A k : <<"fact", k>> \in DOMAIN main'[m] => <<"fact", k>> \in DOMAIN main[m]
      BY <2>6 DEF Judging, Over, File
    <3> QED  BY <3>1, FewerFacts
  <2> QED  BY <1>1, <2>2, <2>3, <2>4, <2>5, <2>6
<1> QED  BY <1>2, NoNewFact

LEMMA EvidenceNext ==
  ASSUME NEW s, OneServer(s)
  PROVE  EvidenceInv(s) /\ [TreeNext]_treeVars /\ [UpToDate /\ CalmFamilies]_treeVars
           => EvidenceInv(s)' /\ [OnEvidence]_treeVars
<1> SUFFICES ASSUME EvidenceInv(s), [TreeNext]_treeVars, [UpToDate /\ CalmFamilies]_treeVars
             PROVE  EvidenceInv(s)' /\ [OnEvidence]_treeVars
  OBVIOUS
<1>1. KeptInv(s) /\ TypeInv /\ TypeInv' /\ s \in Hosts
  BY TypesNext DEF EvidenceInv, KeptInv, OneServer
<1>2. main' = main => OnEvidence
  <2>1. \A m \in Nodes : Latest(main[m], "fact") <= Latest(main[m], "fact")
    BY BoundNumbers
  <2> QED  BY <2>1, NoNewFact
<1>3. CASE UNCHANGED treeVars
  <2>1. UNCHANGED <<main, run, tree, head>>
    BY <1>3 DEF treeVars
  <2>2. KeptInv(s)'
    BY <1>1, <2>1 DEF KeptInv, Busy
  <2> QED  BY <1>3, <2>1, <2>2 DEF EvidenceInv, Followed, Busy
<1>4. CASE TreeNext /\ UpToDate /\ CalmFamilies
  <2>1. ASSUME NEW r \in Runners, Start(r)  PROVE EvidenceInv(s)' /\ OnEvidence
    BY <1>1, <1>2, <1>4, <2>1, EvidenceStart DEF Start
  <2>2. ASSUME NEW r \in Runners, Finish(r)  PROVE EvidenceInv(s)' /\ OnEvidence
    BY <1>1, <1>2, <2>2, EvidenceFinish DEF Finish
  <2>3. ASSUME NEW r \in Runners, PublishRun(r)  PROVE EvidenceInv(s)' /\ OnEvidence
    <3>1. EvidenceInv(s)'
      BY <1>1, <1>4, <2>3, EvidencePublish
    <3>2. OnEvidence
      BY <1>1, <2>3, Evidence DEF OnEvidence
    <3> QED  BY <3>1, <3>2
  <2>4. ASSUME UNCHANGED main, KeptInv(s)', \A q \in Runners : Busy(q)' => run'[q] = run[q] /\ Busy(q)
        PROVE  EvidenceInv(s)' /\ OnEvidence
    <3>1. \A c \in Nodes : Forward(main[c], main'[c]) /\ Stands(c)
      BY <2>4, ForwardItself, ForwardStands
    <3>2. \A q \in Runners : Busy(q)' => run[q].node \in Nodes
      BY <1>1, <2>4 DEF TypeInv, RunsOfTasks
    <3> QED  BY <1>1, <1>2, <1>4, <2>4, <3>1, <3>2, EvidenceStays
  <2>5. ASSUME NEW r \in Runners, Die(r)  PROVE EvidenceInv(s)' /\ OnEvidence
    <3>1. run' = [run EXCEPT ![r] = IdleRun] /\ UNCHANGED main /\ run \in [Runners -> RunRecords]
      BY <1>1, <2>5 DEF Die, TypeInv
    <3>2. \A q \in Runners : Busy(q)' => run'[q] = run[q] /\ Busy(q)
      <4> HIDE DEF RunRecords
      <4> QED  BY <3>1 DEF IdleRun, Busy
    <3>3. KeptInv(s)'
      BY <1>1, <2>5, KeptDie
    <3> QED  BY <2>4, <3>1, <3>2, <3>3
  <2>6. ASSUME NEW g \in Hosts, Pull(g)  PROVE EvidenceInv(s)' /\ OnEvidence
    <3>1. UNCHANGED <<main, run>> /\ KeptInv(s)'
      BY <1>1, <2>6, KeptPull DEF Pull
    <3> QED  BY <2>4, <3>1 DEF Busy
  <2>7. ASSUME NEW g \in Hosts, NEW n \in Nodes,
               Approve(g, n) \/ Verdict(g, n) \/ LifecycleCommand(g, n)
        PROVE  EvidenceInv(s)' /\ OnEvidence
    <3>1. tree[g] = main
      BY <1>4, <2>7 DEF UpToDate
    <3>2. g # s
      BY <2>7 DEF OneServer, Approve, Verdict, LifecycleCommand, Invalidate, Kill
    <3> QED  BY <1>1, <1>4, <2>7, <3>1, <3>2, EvidenceCommand, CommandsProveNothing
  <2> QED  BY <1>4, <2>1, <2>2, <2>3, <2>5, <2>6, <2>7 DEF TreeNext
<1> QED  BY <1>3, <1>4

\* Parents are completed on evidence (signal.rs propagate_composite, which looks at the
\* worktree of a run that may be behind main): with all runs on one machine, commands in
\* checkouts that are up to date, and no node killed or added to siblings while a run
\* works, a parent gets a fact on main only from a run that found all its children
\* resolved, and they are resolved there still or were archived meanwhile; for all trees,
\* audits, hosts and runs at the same time.
THEOREM ParentsOnEvidence ==
  ASSUME NEW s, OneServer(s)
  PROVE  TreeSpec /\ [][UpToDate /\ CalmFamilies]_treeVars => CompletedOnEvidence
<1>1. TreeInit => EvidenceInv(s)
  <2>1. TreeInit => KeptInv(s)
    BY KeptInit DEF OneServer
  <2>2. TreeInit => \A r \in Runners : ~Busy(r)
    BY DEF TreeInit, Busy, IdleRun
  <2> QED  BY <2>1, <2>2 DEF EvidenceInv
<1>2. EvidenceInv(s) /\ [TreeNext]_treeVars /\ [UpToDate /\ CalmFamilies]_treeVars
        => EvidenceInv(s)' /\ [OnEvidence]_treeVars
  BY EvidenceNext
<1>3. TreeSpec /\ [][UpToDate /\ CalmFamilies]_treeVars => [][OnEvidence]_treeVars
  BY <1>1, <1>2, PTL DEF TreeSpec
<1> QED  BY <1>3 DEF CompletedOnEvidence, OnEvidence

-----------------------------------------------------------------------------
(* No parent is left open.                                                 *)

\* Children of a parent none of whose children is audited.
Siblings(c, d) ==
    /\ Parent[c] = Parent[d] /\ Parent[c] # NoNode
    /\ \A e \in Planned(Parent[c]) : Audit[e] = "off"

\* Two runs are never below two siblings at the same time.
OneBranch ==
    \A r, q \in Runners, c, d \in Nodes :
        /\ r # q /\ Busy(r) /\ Busy(q) /\ Siblings(c, d)
        /\ run[r].node \in Below(c) /\ run[q].node \in Below(d)
        => c = d

\* Nothing is archived or killed while a run works, nor killed from among siblings.
CalmCommands ==
    \A h \in Hosts, n \in Nodes :
        LifecycleCommand(h, n) /\ main' # main =>
            /\ \A r \in Runners : ~Busy(r)
            /\ Kill(h, n) /\ Parent[n] # NoNode => Children(main, Parent[n]) = {n}

\* The bound on numbers is not reached by a parent.
HasRoom(t) == \A p \in Nodes : Planned(p) # {} => NextNumber(t[p]) <= MaxNumber

Answered(files) == \E k \in 1 .. MaxNumber : <<"fact", k>> \in DOMAIN files

\* Only what is audited has audits, a node has its parent, and a fact is that of a task.
Rooted(t) ==
    \A m \in Nodes :
        /\ Audit[m] # "required" => NoPendings(t[m])
        /\ HasTask(t, m) /\ Parent[m] # NoNode => HasTask(t, Parent[m])
        /\ ~HasTask(t, m) => ~Answered(t[m])

\* What a run of n may tell: facts on the way up from n, and as far as parents are to be
\* completed.
Told(n, base, mine) ==
    \A c \in Nodes :
        /\ Audit[c] # "required" => NoPendings(mine[c])
        /\ \/ SameFacts(base[c], mine[c])
           \/ /\ n \in Below(c) /\ HasTask(base, c)
              /\ Audit[c] # "required" /\ Parent[c] # NoNode => ~MayComplete(mine, Parent[c])

LEMMA AnsweredResolved ==
  ASSUME NEW files, NoPendings(files)
  PROVE  Answered(files) <=> Resolved(files)
BY ParentResolved, ResolvedHasFact DEF Answered

\* A parent that is completed.
LEMMA CompletedIs ==
  ASSUME NEW u \in Trees, NEW p \in Nodes, NEW fact \in TreeContents,
         NoPendings(u[p]), NextNumber(u[p]) <= MaxNumber
  PROVE  LET v == Completed(u, p, fact)
         IN  /\ v \in Trees /\ KeepsMarks(u, v)
             /\ \A m \in Nodes : m # p => v[m] = u[m]
             /\ NoPendings(v[p]) /\ Resolved(v[p])
<1> DEFINE k == NextNumber(u[p])
           pair == Over(File(<<"run", k>>, "success"), File(<<"fact", k>>, fact))
           new == Over(pair, u[p])
           v == [u EXCEPT ![p] = new]
<1>1. Completed(u, p, fact) = v
  BY DEF Completed, Trees
<1>2. v[p] = new /\ \A m \in Nodes : m # p => v[m] = u[m]
  BY DEF Trees
<1>3. DOMAIN new = {<<"run", k>>, <<"fact", k>>} \cup DOMAIN u[p]
  BY DEF Over, File
<1>4. k \in 1 .. MaxNumber
  <2>1. Cardinality(Numbers(u[p], "run")) \in Nat /\ MaxNumber \in Nat
    BY NumbersAreNumbers, FS_CardinalityType, TreeAssumption DEF TreeAssumption
  <2> QED  BY <2>1 DEF NextNumber
<1> HIDE DEF new, v, k
<1>5. NoPendings(new)
  BY <1>3 DEF NoPendings
<1>6. Resolved(new)
  BY <1>3, <1>4, <1>5, ParentResolved
<1> QED  BY <1>1, <1>2, <1>5, <1>6, CompletedTree, CompletedMarks

\* The way up from n: what was completed, from which node it goes on, and why not.
Climbed(n, base, d, s) ==
    /\ s = [tree |-> s.tree, at |-> s.at]
    /\ s.tree \in Trees /\ s.at \in Nodes \cup {NoNode}
    /\ KeepsMarks(base, s.tree)
    /\ \A c \in Nodes :
         /\ Audit[c] # "required" \/ Planned(c) # {} => NoPendings(s.tree[c])
         /\ Planned(c) # {} => Resolved(s.tree[c]) \/ s.tree[c] = base[c]
         /\ \/ SameFacts(base[c], s.tree[c])
            \/ /\ n \in Below(c) /\ HasTask(base, c)
               /\ Parent[c] # NoNode =>
                    IF s.at = NoNode THEN ~MayComplete(s.tree, Parent[c])
                    ELSE c = s.at \/ Resolved(s.tree[Parent[c]])
    /\ s.at # NoNode => /\ n \in Below(s.at)
                        /\ d <= Cardinality({c \in Nodes : Planned(c) # {} /\ Resolved(s.tree[c])})

LEMMA KeepsMarksOn ==
  ASSUME NEW a, NEW b, NEW c, KeepsMarks(a, b), KeepsMarks(b, c)
  PROVE  KeepsMarks(a, c)
BY DEF KeepsMarks

LEMMA SameTasks ==
  ASSUME NEW a, NEW b, KeepsMarks(a, b)
  PROVE  /\ \A m \in Nodes : HasTask(a, m) <=> HasTask(b, m)
         /\ \A p : Children(a, p) = Children(b, p)
<1>1. \A m \in Nodes : HasTask(a, m) <=> HasTask(b, m)
  BY TaskIsMark DEF KeepsMarks
<1> QED  BY <1>1 DEF Children, Planned

\* One step more.
LEMMA ClimbedOn ==
  ASSUME NEW n \in Nodes, NEW base \in Trees, NEW fact \in TreeContents, HasRoom(base),
         NEW d \in Nat, NEW s, Climbed(n, base, d, s)
  PROVE  Climbed(n, base, d + 1, Climbing(s, fact))
<1> DEFINE p == IF s.at = NoNode THEN NoNode ELSE Parent[s.at]
           u == s.tree
           v == Completed(u, p, fact)
           Done(t) == {c \in Nodes : Planned(c) # {} /\ Resolved(t[c])}
<1>1. p \in Nodes \cup {NoNode} /\ u \in Trees /\ NoNode \notin Nodes
  BY TreeAssumption DEF TreeAssumption, Climbed
<1>2. CASE p # NoNode /\ MayComplete(u, p)
  <2>1. p \in Nodes /\ s.at \in Nodes /\ s.at # NoNode /\ p = Parent[s.at]
    BY <1>1, <1>2 DEF Climbed
  <2>2. Climbing(s, fact) = [tree |-> v, at |-> p]
    BY <1>2 DEF Climbing
  <2>3. HasTask(u, p) /\ ~Resolved(u[p]) /\ Planned(p) # {}
    BY <1>2, <2>1 DEF MayComplete, Children
  <2>4. NoPendings(u[p]) /\ u[p] = base[p] /\ NextNumber(u[p]) <= MaxNumber
    BY <2>1, <2>3 DEF Climbed, HasRoom
  <2>5. /\ v \in Trees /\ KeepsMarks(u, v)
        /\ \A m \in Nodes : m # p => v[m] = u[m]
        /\ NoPendings(v[p]) /\ Resolved(v[p])
    BY <1>1, <2>1, <2>4, CompletedIs
  <2> HIDE DEF v, u
  <2>6. KeepsMarks(base, v) /\ HasTask(base, p)
    BY <2>1, <2>3, <2>5, KeepsMarksOn, SameTasks DEF Climbed, u
  <2>7. n \in Below(p)
    BY <2>1, BelowUp DEF Climbed
  <2>8. ASSUME NEW c \in Nodes
        PROVE  /\ Audit[c] # "required" \/ Planned(c) # {} => NoPendings(v[c])
               /\ Planned(c) # {} => Resolved(v[c]) \/ v[c] = base[c]
               /\ \/ SameFacts(base[c], v[c])
                  \/ /\ n \in Below(c) /\ HasTask(base, c)
                     /\ Parent[c] # NoNode => c = p \/ Resolved(v[Parent[c]])
    <3>1. CASE c = p
      BY <2>5, <2>6, <2>7, <3>1
    <3>2. CASE c # p
      <4>1. v[c] = u[c]
        BY <2>5, <3>2
      <4>2. ASSUME ~SameFacts(base[c], u[c]), Parent[c] # NoNode  PROVE Resolved(v[Parent[c]])
        <5>1. Parent[c] \in Nodes
          BY <4>2, ParentIsNode
        <5>2. c = s.at \/ Resolved(u[Parent[c]])
          BY <2>1, <4>2 DEF Climbed, u
        <5> QED  BY <2>1, <2>5, <5>1, <5>2
      <4> QED  BY <4>1, <4>2 DEF Climbed, u
    <3> QED  BY <3>1, <3>2
  <2>9. d + 1 <= Cardinality(Done(v))
    <3>1. Done(u) \cup {p} \subseteq Done(v) /\ p \notin Done(u) /\ Done(v) \subseteq Nodes
      BY <2>1, <2>3, <2>5
    <3>2. IsFiniteSet(Done(u)) /\ IsFiniteSet(Done(v))
      <4>1. IsFiniteSet(Nodes) /\ Done(u) \subseteq Nodes
        BY TreeAssumption DEF TreeAssumption
      <4> QED  BY <3>1, <4>1, FS_Subset
    <3> HIDE DEF Done
    <3>3. /\ Cardinality(Done(u) \cup {p}) = Cardinality(Done(u)) + 1
          /\ IsFiniteSet(Done(u) \cup {p})
      BY <3>1, <3>2, FS_AddElement
    <3>4. Cardinality(Done(u) \cup {p}) <= Cardinality(Done(v))
      BY <3>1, <3>2, FS_Subset
    <3>5. Cardinality(Done(u)) \in Nat /\ Cardinality(Done(v)) \in Nat
      BY <3>2, FS_CardinalityType
    <3>6. d <= Cardinality(Done(u))
      BY <2>1 DEF Climbed, Done, u
    <3> QED  BY <3>3, <3>4, <3>5, <3>6
  <2> DEFINE w == [tree |-> v, at |-> p]
  <2>10. w.tree = v /\ w.at = p
    OBVIOUS
  <2>11. w = [tree |-> w.tree, at |-> w.at]
    OBVIOUS
  <2> HIDE DEF w, p
  <2>12. Climbed(n, base, d + 1, w)
    BY <1>1, <2>1, <2>5, <2>6, <2>7, <2>8, <2>9, <2>10, <2>11 DEF Climbed, Done
  <2> QED  BY <2>2, <2>12 DEF w, p
<1>3. CASE ~(p # NoNode /\ MayComplete(u, p))
  <2> DEFINE w == [tree |-> u, at |-> NoNode]
  <2>1. Climbing(s, fact) = w
    <3>1. Climbing(s, fact) = [s EXCEPT !.at = NoNode]
      BY <1>3 DEF Climbing
    <3>2. s = [tree |-> s.tree, at |-> s.at]
      BY DEF Climbed
    <3> QED  BY <3>1, <3>2
  <2>2. w.tree = u /\ w.at = NoNode /\ w = [tree |-> w.tree, at |-> w.at]
    OBVIOUS
  <2>3. ASSUME NEW c \in Nodes, ~SameFacts(base[c], u[c]), Parent[c] # NoNode
        PROVE  ~MayComplete(u, Parent[c])
    <3>1. CASE s.at = NoNode
      BY <2>3, <3>1 DEF Climbed
    <3>2. CASE s.at # NoNode
      <4>1. c = s.at \/ Resolved(u[Parent[c]])
        BY <2>3, <3>2 DEF Climbed
      <4> QED  BY <1>3, <2>3, <3>2, <4>1 DEF MayComplete
    <3> QED  BY <3>1, <3>2
  <2> HIDE DEF w
  <2>4. Climbed(n, base, d + 1, w)
    BY <1>1, <2>2, <2>3 DEF Climbed
  <2> QED  BY <2>1, <2>4
<1> QED  BY <1>2, <1>3


-----------------------------------------------------------------------------
(* What a run tells.                                                       *)

\* A climb begins where the leaf n has changed.
LEMMA FirstClimbed ==
  ASSUME NEW n \in Nodes, NEW base \in Trees, Rooted(base), HasTask(base, n), Planned(n) = {},
         \A m \in Nodes : Planned(m) # {} => NoPendings(base[m]),
         NEW u \in Trees, KeepsMarks(base, u), NoPendings(u[n]),
         \A m \in Nodes : m # n => u[m] = base[m]
  PROVE  Climbed(n, base, 0, [tree |-> u, at |-> n])
<1> DEFINE s == [tree |-> u, at |-> n]
           Done == {c \in Nodes : Planned(c) # {} /\ Resolved(u[c])}
<1>1. s.tree = u /\ s.at = n /\ s = [tree |-> s.tree, at |-> s.at]
  OBVIOUS
<1>2. n \in Below(n) /\ n # NoNode
  BY BelowClosed, TreeAssumption DEF TreeAssumption
<1>3. 0 <= Cardinality(Done)
  <2>1. IsFiniteSet(Nodes) /\ Done \subseteq Nodes
    BY TreeAssumption DEF TreeAssumption
  <2> HIDE DEF Done
  <2>2. Cardinality(Done) \in Nat
    BY <2>1, FS_Subset, FS_CardinalityType
  <2> QED  BY <2>2
<1>4. ASSUME NEW c \in Nodes
      PROVE  /\ Audit[c] # "required" \/ Planned(c) # {} => NoPendings(u[c])
             /\ Planned(c) # {} => u[c] = base[c]
             /\ SameFacts(base[c], u[c]) \/ c = n
  BY DEF Rooted, SameFacts
<1> HIDE DEF s
<1>5. Climbed(n, base, 0, s)
  BY <1>1, <1>2, <1>3, <1>4 DEF Climbed, Done
<1> QED  BY <1>5 DEF s

\* It ends, since there are fewer parents than nodes.
LEMMA PropagatedTold ==
  ASSUME NEW n \in Nodes, NEW base \in Trees, Rooted(base), HasTask(base, n), Planned(n) = {},
         \A m \in Nodes : Planned(m) # {} => NoPendings(base[m]), HasRoom(base),
         NEW u \in Trees, KeepsMarks(base, u), NoPendings(u[n]),
         \A m \in Nodes : m # n => u[m] = base[m], NEW fact \in TreeContents
  PROVE  Told(n, base, Propagated(u, n, fact))
<1> DEFINE X == [tree : Trees, at : Nodes \cup {NoNode}]
           Z == {z \in Nat \X X : Climbed(n, base, z[1], z[2])}
           K == Cardinality(Nodes)
<1>1. \A d \in Nat : \A s : <<d, s>> \in Z <=> Climbed(n, base, d, s)
  <2>1. ASSUME NEW d \in Nat, NEW s, Climbed(n, base, d, s)  PROVE s \in X
    <3>1. s = [tree |-> s.tree, at |-> s.at] /\ s.tree \in Trees /\ s.at \in Nodes \cup {NoNode}
      BY <2>1 DEF Climbed
    <3> HIDE DEF Trees
    <3> QED  BY <3>1
  <2>2. ASSUME NEW d \in Nat, NEW s  PROVE <<d, s>> \in Z <=> s \in X /\ Climbed(n, base, d, s)
    <3> HIDE DEF X
    <3> QED  OBVIOUS
  <2> HIDE DEF X, Z
  <2> QED  BY <2>1, <2>2
<1> HIDE DEF Z
<1>2. <<0, [tree |-> u, at |-> n]>> \in Z
  <2>1. Climbed(n, base, 0, [tree |-> u, at |-> n])
    BY FirstClimbed
  <2> QED  BY <1>1, <2>1
<1>3. ClimbsIn(Z, fact)
  <2>1. ASSUME NEW d \in Nat, NEW s, <<d, s>> \in Z  PROVE <<d + 1, Climbing(s, fact)>> \in Z
    <3>1. Climbed(n, base, d + 1, Climbing(s, fact)) /\ d + 1 \in Nat
      BY <1>1, <2>1, ClimbedOn
    <3> QED  BY <1>1, <3>1
  <2> QED  BY <2>1 DEF ClimbsIn
<1>4. PICK s : <<K, s>> \in Z /\ Propagated(u, n, fact) = s.tree
  BY <1>2, <1>3, ClimbStays
<1>5. K \in Nat /\ IsFiniteSet(Nodes)
  BY TreeAssumption, FS_CardinalityType DEF TreeAssumption
<1>6. Climbed(n, base, K, s)
  BY <1>1, <1>4, <1>5
<1>7. s.at = NoNode
  <2> DEFINE Done == {c \in Nodes : Planned(c) # {} /\ Resolved(s.tree[c])}
  <2>1. Done \subseteq Nodes \ {n} /\ n \in Nodes
    OBVIOUS
  <2>2. s.at # NoNode => K <= Cardinality(Done)
    BY <1>6 DEF Climbed
  <2> HIDE DEF Done
  <2>3. /\ IsFiniteSet(Nodes \ {n}) /\ Cardinality(Nodes \ {n}) = K - 1
        /\ IsFiniteSet(Done)
    <3>1. IsFiniteSet(Nodes \ {n}) /\ Cardinality(Nodes \ {n}) = K - 1
      BY <1>5, FS_RemoveElement
    <3> QED  BY <2>1, <3>1, FS_Subset
  <2>4. Cardinality(Done) <= K - 1 /\ Cardinality(Done) \in Nat
    BY <2>1, <2>3, FS_Subset, FS_CardinalityType
  <2> QED  BY <1>5, <2>2, <2>4
<1>8. Told(n, base, s.tree)
  BY <1>6, <1>7 DEF Climbed, Told
<1> QED  BY <1>4, <1>8

\* What the executor leaves of a leaf that is not audited.
LEMMA ExecutedLeaf ==
  ASSUME NEW r \in Runners, NEW fact \in BOOLEAN, NEW contract, Planned(run[r].node) = {},
         NoPendings(run[r].base[run[r].node]), ~Answered(run[r].base[run[r].node])
  PROVE  LET files == Executed(r, fact, contract)
         IN  /\ NoPendings(files)
             /\ \A k \in 1 .. MaxNumber : <<"fact", k>> \in DOMAIN files => k = run[r].nnn
<1> DEFINE files == run[r].base[run[r].node]
           own == Over(File(Task, contract), files)
           made == Over(File(<<"fact", run[r].nnn>>, Fact(facts + 1)), own)
<1>1. Executed(r, fact, contract) = made \/ Executed(r, fact, contract) = own
  BY DEF Executed
<1>2. DOMAIN own = {Task} \cup DOMAIN files
  BY DEF Over, File
<1>3. DOMAIN made = {<<"fact", run[r].nnn>>, Task} \cup DOMAIN files
  BY DEF Over, File
<1> HIDE DEF own, made
<1> QED  BY <1>1, <1>2, <1>3 DEF NoPendings, Answered, Task

LEMMA SignalOfLeaf ==
  ASSUME NEW r \in Runners, run[r] \in RunRecords, run[r].node \in Nodes, NEW files, NEW seen,
         Planned(run[r].node) = {}, Audit[run[r].node] # "required"
  PROVE  LET n == run[r].node
             base == run[r].base
             next == NextNumber(files)
         IN  \/ Signalled(r, files, seen)
                  = [base EXCEPT ![n] = Marked(Over(File(<<"run", run[r].nnn>>, "failed"),
                                                    Without(files, {<<"fact", run[r].nnn>>})))]
             \/ /\ Signalled(r, files, seen)
                     = Propagated([base EXCEPT ![n] =
                                     Over(Over(File(<<"run", next>>, "success"), NoFiles), files)],
                                  n, files[<<"fact", next>>])
                /\ <<"fact", next>> \in DOMAIN files
BY DEF Signalled

\* Of an audited node nothing is told but by its verdict.
LEMMA SignalAudited ==
  ASSUME NEW r \in Runners, NEW files, NEW seen, Audit[run[r].node] = "required"
  PROVE  \E a : Signalled(r, files, seen) = [run[r].base EXCEPT ![run[r].node] = a]
BY DEF Signalled

LEMMA ToldAlone ==
  ASSUME NEW n \in Nodes, NEW base \in Trees, Rooted(base), HasTask(base, n), NEW a,
         Audit[n] # "required" => NoPendings(a) /\ SameFacts(base[n], a)
  PROVE  Told(n, base, [base EXCEPT ![n] = a])
<1> DEFINE t == [base EXCEPT ![n] = a]
<1>1. t[n] = a /\ \A m \in Nodes : m # n => t[m] = base[m]
  BY DEF Trees
<1>2. n \in Below(n)
  BY BelowClosed
<1> HIDE DEF t
<1>3. Told(n, base, t)
  BY <1>1, <1>2 DEF Told, Rooted, SameFacts
<1> QED  BY <1>3 DEF t

\* A leaf that is refused, and one that is done.
LEMMA RefusedLeaf ==
  ASSUME NEW files, NEW k, NoPendings(files)
  PROVE  LET refused == Marked(Over(File(<<"run", k>>, "failed"), Without(files, {<<"fact", k>>})))
         IN  /\ NoPendings(refused)
             /\ \A j \in 1 .. MaxNumber : <<"fact", j>> \in DOMAIN refused <=>
                                              <<"fact", j>> \in DOMAIN files /\ j # k
<1> DEFINE cut == Without(files, {<<"fact", k>>})
           failed == Over(File(<<"run", k>>, "failed"), cut)
<1>1. DOMAIN failed = {<<"run", k>>} \cup (DOMAIN files \ {<<"fact", k>>})
  BY DEF Over, File, Without
<1>2. DOMAIN Marked(failed) \subseteq {<<"unresolvable", 1>>} \cup DOMAIN failed
  BY DEF Marked, Over, File
<1>3. DOMAIN failed \subseteq DOMAIN Marked(failed)
  BY DEF Marked, Over, File
<1> HIDE DEF failed
<1> QED  BY <1>1, <1>2, <1>3 DEF NoPendings, failed

LEMMA DoneLeaf ==
  ASSUME NEW n \in Nodes, NEW base \in Trees, NEW files \in FileMaps, NoPendings(files),
         Marks(files) = Marks(base[n]), Plans(base[n]) \subseteq Plans(files)
  PROVE  LET u == [base EXCEPT ![n] =
                     Over(Over(File(<<"run", NextNumber(files)>>, "success"), NoFiles), files)]
         IN  /\ u \in Trees /\ KeepsMarks(base, u) /\ NoPendings(u[n])
             /\ \A m \in Nodes : m # n => u[m] = base[m]
<1> DEFINE next == NextNumber(files)
           pair == Over(File(<<"run", next>>, "success"), NoFiles)
           a == Over(pair, files)
           u == [base EXCEPT ![n] = a]
<1>1. next \in Nat
  BY NumbersAreNumbers
<1> HIDE DEF next
<1>2. Marks(pair) = {} /\ Plans(pair) = {}
  <2>1. /\ Marks(File(<<"run", next>>, "success")) = {} /\ Plans(File(<<"run", next>>, "success")) = {}
        /\ Marks(NoFiles) = {} /\ Plans(NoFiles) = {}
    BY OtherFile, NoMarks
  <2> QED  BY <2>1, OverOthers
<1>3. pair \in FileMaps
  <2>1. <<"run", next>> \in TreeNames /\ "success" \in TreeContents
    BY <1>1, KnownNames, KnownContents DEF Chain
  <2> QED  BY <2>1, FileMap, NoFileMap, OverMap
<1>4. DOMAIN a = {<<"run", next>>} \cup DOMAIN files
  BY DEF Over, File, NoFiles
<1> HIDE DEF pair
<1>5. a \in FileMaps /\ Marks(a) = Marks(files) /\ Plans(a) = Plans(files)
  BY <1>2, <1>3, OverMap, OverOthers
<1>6. NoPendings(a)
  BY <1>4 DEF NoPendings
<1> HIDE DEF a
<1>7. u[n] = a /\ \A m \in Nodes : m # n => u[m] = base[m]
  BY DEF Trees
<1>8. u \in Trees
  BY <1>5, TreeWith
<1> HIDE DEF u
<1>9. KeepsMarks(base, u)
  BY <1>5, <1>7 DEF KeepsMarks
<1> QED  BY <1>6, <1>7, <1>8, <1>9 DEF u, a, pair, next

LEMMA SignalTold ==
  ASSUME NEW r \in Runners, run[r] \in RunRecords, run[r].node \in Nodes,
         HasTask(run[r].base, run[r].node), Rooted(run[r].base), HasRoom(run[r].base),
         \A m \in Nodes : Planned(m) # {} => NoPendings(run[r].base[m]),
         Planned(run[r].node) = {} /\ Audit[run[r].node] # "required" =>
             ~Answered(run[r].base[run[r].node]),
         NEW fact \in BOOLEAN, NEW contract, NEW seen, Executed(r, fact, contract) \in FileMaps
  PROVE  Told(run[r].node, run[r].base, Signalled(r, Executed(r, fact, contract), seen))
<1> DEFINE n == run[r].node
           base == run[r].base
           files == Executed(r, fact, contract)
           next == NextNumber(files)
           own == Over(File(Task, contract), base[n])
           plan == File(<<"plan", Latest(base[n], "plan") + 1>>, "composite")
           decomposed == Over(File(<<"run", run[r].nnn>>, "decomposed"), Over(plan, own))
           refused == Marked(Over(File(<<"run", run[r].nnn>>, "failed"),
                                  Without(files, {<<"fact", run[r].nnn>>})))
           u == [base EXCEPT ![n] = Over(Over(File(<<"run", next>>, "success"), NoFiles), files)]
           made == Signalled(r, files, seen)
<1>1. base \in Trees /\ n \in Nodes
  BY DEF RunRecords
<1>2. CASE Audit[n] = "required"
  <2>1. PICK a : made = [base EXCEPT ![n] = a]
    BY <1>2, SignalAudited
  <2> HIDE DEF made, n, base
  <2>2. Told(n, base, [base EXCEPT ![n] = a])
    BY <1>1, <1>2, ToldAlone DEF n, base
  <2> QED  BY <2>1, <2>2 DEF made, n, base
<1>3. CASE Audit[n] # "required" /\ Planned(n) # {}
  <2>1. made = [base EXCEPT ![n] = decomposed]
    BY <1>3, SignalOfParent, ExecutedOfParent
  <2>2. DOMAIN decomposed
          = {<<"run", run[r].nnn>>, <<"plan", Latest(base[n], "plan") + 1>>, Task} \cup DOMAIN base[n]
    BY DEF Over, File
  <2>3. NoPendings(base[n])
    BY <1>1, <1>3 DEF Rooted
  <2> HIDE DEF decomposed, made
  <2>4. NoPendings(decomposed) /\ SameFacts(base[n], decomposed)
    BY <2>2, <2>3 DEF NoPendings, SameFacts, Task
  <2> HIDE DEF n, base
  <2>5. Told(n, base, [base EXCEPT ![n] = decomposed])
    BY <1>1, <2>4, ToldAlone DEF n, base
  <2> QED  BY <2>1, <2>5 DEF made, n, base
<1>4. CASE Audit[n] # "required" /\ Planned(n) = {}
  <2>1. NoPendings(base[n]) /\ ~Answered(base[n])
    BY <1>1, <1>4 DEF Rooted
  <2>2. /\ NoPendings(files)
        /\ \A k \in 1 .. MaxNumber : <<"fact", k>> \in DOMAIN files => k = run[r].nnn
    BY <1>4, <2>1, ExecutedLeaf
  <2>3. /\ Marks(files) = Marks(base[n])
        /\ Plans(base[n]) \subseteq Plans(files)
    BY ExecutedMarks
  <2>4. \/ made = [base EXCEPT ![n] = refused]
        \/ made = Propagated(u, n, files[<<"fact", next>>]) /\ <<"fact", next>> \in DOMAIN files
    BY <1>4, SignalOfLeaf
  <2>5. CASE made = [base EXCEPT ![n] = refused]
    <3> HIDE DEF files
    <3>1. NoPendings(refused) /\ \A j \in 1 .. MaxNumber :
             <<"fact", j>> \in DOMAIN refused <=> <<"fact", j>> \in DOMAIN files /\ j # run[r].nnn
      BY <2>2, RefusedLeaf
    <3> HIDE DEF refused
    <3>2. SameFacts(base[n], refused)
      BY <2>1, <2>2, <3>1 DEF SameFacts, Answered
    <3> HIDE DEF n, base, made
    <3>3. Told(n, base, [base EXCEPT ![n] = refused])
      BY <1>1, <3>1, <3>2, ToldAlone DEF n, base
    <3> QED  BY <2>5, <3>3 DEF made, n, base, files
  <2>6. CASE made = Propagated(u, n, files[<<"fact", next>>]) /\ <<"fact", next>> \in DOMAIN files
    <3>1. files[<<"fact", next>>] \in TreeContents
      BY <2>6, FileMapIs
    <3>2. files \in FileMaps
      OBVIOUS
    <3> HIDE DEF files, n, base
    <3>3. /\ u \in Trees /\ KeepsMarks(base, u) /\ NoPendings(u[n])
          /\ \A m \in Nodes : m # n => u[m] = base[m]
      BY <1>1, <2>2, <2>3, <3>2, DoneLeaf
    <3> HIDE DEF u, next, made
    <3>4. Told(n, base, Propagated(u, n, files[<<"fact", next>>]))
      BY <1>1, <1>4, <3>1, <3>3, PropagatedTold DEF n, base
    <3> QED  BY <2>6, <3>4 DEF made, n, base, files
  <2> HIDE DEF made
  <2> QED  BY <2>4, <2>5, <2>6 DEF made
<1> QED  BY <1>2, <1>3, <1>4

-----------------------------------------------------------------------------
(* Runs and commands, one branch at a time.                                *)

\* What a run read is still there, and of the siblings beside its way up none has been
\* resolved since.
AsRead(r) ==
    /\ Rooted(run[r].base) /\ HasRoom(run[r].base)
    /\ \A m \in Nodes : /\ HasTask(run[r].base, m) => HasTask(main, m)
                        /\ Latest(run[r].base[m], "history") = Latest(main[m], "history")
    /\ \A c, d \in Nodes : Siblings(c, d) /\ c # d /\ run[r].node \in Below(c) =>
           (Resolved(main[d]) => Resolved(run[r].base[d]))

OpenInv(s) ==
    /\ EvidenceInv(s)
    /\ Rooted(main)
    /\ NoneLeftOpen
    /\ \A r \in Runners : Busy(r) =>
         /\ AsRead(r)
         /\ run[r].phase = "publishing" => Told(run[r].node, run[r].base, run[r].mine)

\* A step that leaves the runs alone, or ends one.
LEMMA OpenStays ==
  ASSUME NEW s, OpenInv(s), EvidenceInv(s)', Rooted(main)', NoneLeftOpen',
         \A q \in Runners : Busy(q)' => Busy(q) /\ run'[q] = run[q],
         \A m \in Nodes : /\ HasTask(main, m) => HasTask(main', m)
                          /\ Latest(main'[m], "history") = Latest(main[m], "history"),
         \A q \in Runners, c, d \in Nodes :
             Busy(q)' /\ Siblings(c, d) /\ c # d /\ run[q].node \in Below(c) =>
                 (Resolved(main'[d]) => Resolved(main[d]))
  PROVE  OpenInv(s)'
<1> SUFFICES ASSUME NEW q \in Runners, Busy(q)'
             PROVE  /\ AsRead(q)'
                    /\ run'[q].phase = "publishing" => Told(run'[q].node, run'[q].base, run'[q].mine)
  BY DEF OpenInv
<1>1. Busy(q) /\ run'[q] = run[q]
  OBVIOUS
<1>2. AsRead(q)'
  BY <1>1 DEF OpenInv, AsRead
<1> QED  BY <1>1, <1>2 DEF OpenInv

LEMMA RootedStays ==
  ASSUME NEW t, NEW u, Rooted(t),
         \A m \in Nodes : /\ NoPendings(t[m]) => NoPendings(u[m])
                          /\ Answered(u[m]) => Answered(t[m])
                          /\ HasTask(t, m) => HasTask(u, m)
                          /\ HasTask(u, m) /\ ~HasTask(t, m) => HasTask(t, Parent[m])
  PROVE  Rooted(u)
<1>1. ASSUME NEW m \in Nodes, HasTask(u, m), Parent[m] # NoNode  PROVE HasTask(u, Parent[m])
  <2>1. Parent[m] \in Nodes
    BY <1>1, ParentIsNode
  <2>2. HasTask(t, Parent[m])
    BY <1>1 DEF Rooted
  <2> QED  BY <2>1, <2>2
<1>2. \A m \in Nodes : /\ Audit[m] # "required" => NoPendings(u[m])
                       /\ ~HasTask(u, m) => ~Answered(u[m])
  BY DEF Rooted
<1> QED  BY <1>1, <1>2 DEF Rooted

\* The files of an approval.
LEMMA MarkingSays ==
  ASSUME NEW a, NEW b, Marking(a, b)
  PROVE  /\ Latest(b, "history") = Latest(a, "history")
         /\ Resolved(a) <=> Resolved(b)
         /\ NoPendings(a) => NoPendings(b)
         /\ Answered(b) => Answered(a)
         /\ Task \in DOMAIN a => Task \in DOMAIN b
<1>1. PICK marks : /\ b = Over(marks, a)
                   /\ \A f \in DOMAIN marks :
                        f \in MarkNames \/ (f \in DOMAIN a /\ marks[f] = a[f])
  BY DEF Marking
<1>2. \A f : f \notin MarkNames => (f \in DOMAIN a <=> f \in DOMAIN b)
  BY <1>1 DEF Over
<1>3. \A k : \A kind \in {"fact", "pending-audit", "history"} : <<kind, k>> \notin MarkNames
  BY DEF MarkNames, Task
<1>4. Numbers(a, "history") = Numbers(b, "history")
  BY <1>2, <1>3 DEF Numbers
<1>5. FactState(a) = FactState(b)
  BY <1>1, WrittenOver, AgreeSame, MarksNotDecisive
<1>6. Task \in DOMAIN a => Task \in DOMAIN b
  BY <1>1 DEF Over
<1> QED  BY <1>2, <1>3, <1>4, <1>5, <1>6 DEF Latest, Resolved, NoPendings, Answered

LEMMA OpenApprove ==
  ASSUME NEW s \in Hosts, OpenInv(s), EvidenceInv(s)', NEW g \in Hosts, g # s, NEW n \in Nodes,
         Approve(g, n), tree[g] = main
  PROVE  OpenInv(s)'
<1>1. TypeInv
  BY DEF OpenInv, EvidenceInv, KeptInv
<1>2. /\ UNCHANGED run /\ HasTask(main, n)
      /\ \/ main' = main
         \/ \A m \in Nodes : /\ Marking(main[m], main'[m])
                             /\ HasTask(main', m) /\ ~HasTask(main, m) => Parent[m] = n
  BY <1>1, ApproveIs
<1>3. \A m \in Nodes : /\ Latest(main'[m], "history") = Latest(main[m], "history")
                       /\ Resolved(main[m]) <=> Resolved(main'[m])
                       /\ NoPendings(main[m]) => NoPendings(main'[m])
                       /\ Answered(main'[m]) => Answered(main[m])
                       /\ HasTask(main, m) => HasTask(main', m)
                       /\ HasTask(main', m) /\ ~HasTask(main, m) => Parent[m] = n
  BY <1>2, MarkingSays DEF HasTask
<1>4. ASSUME NEW m \in Nodes, ~HasTask(main, m)  PROVE ~Resolved(main'[m])
  <2>1. ~Answered(main[m])
    BY <1>4 DEF OpenInv, Rooted
  <2> QED  BY <1>3, <2>1, ResolvedHasFact DEF Answered
<1>5. Rooted(main)'
  BY <1>2, <1>3, RootedStays DEF OpenInv
<1>6. NoneLeftOpen'
  <2> SUFFICES ASSUME NEW p \in Nodes, \A c \in Planned(p) : Audit[c] = "off", MayComplete(main', p)
               PROVE  FALSE
    BY DEF NoneLeftOpen, Planned
  <2>1. HasTask(main', p) /\ ~Resolved(main[p])
    BY <1>3 DEF MayComplete
  <2>2. \A c \in Children(main', p) : HasTask(main, c) /\ Resolved(main[c])
    BY <1>3, <1>4 DEF MayComplete, Children, Planned
  <2>3. Children(main', p) = Children(main, p) /\ Children(main, p) # {}
    BY <1>3, <2>2 DEF MayComplete, Children, Planned
  <2>4. PICK c \in Nodes : Parent[c] = p /\ HasTask(main, c)
    BY <2>3 DEF Children, Planned
  <2>5. HasTask(main, p)
    BY <2>4, TreeAssumption DEF OpenInv, Rooted, TreeAssumption
  <2>6. MayComplete(main, p)
    BY <2>1, <2>2, <2>3, <2>5 DEF MayComplete
  <2> QED  BY <2>6 DEF OpenInv, NoneLeftOpen
<1>7. \A q \in Runners : Busy(q)' => Busy(q) /\ run'[q] = run[q]
  BY <1>2 DEF Busy
<1> QED  BY <1>3, <1>5, <1>6, <1>7, OpenStays

\* A verdict resolves an audited leaf only, and reopens none that is not audited.
LEMMA OpenVerdict ==
  ASSUME NEW s \in Hosts, OpenInv(s), EvidenceInv(s)', NEW g \in Hosts, g # s, NEW n \in Nodes,
         Verdict(g, n), tree[g] = main
  PROVE  OpenInv(s)'
<1>1. TypeInv /\ \A p \in Nodes : Planned(p) # {} => NoPendings(main[p])
  BY DEF OpenInv, EvidenceInv, KeptInv
<1>2. /\ UNCHANGED run
      /\ \A m \in Nodes : main'[m] = main[m] \/ Judging(main[m], main'[m])
      /\ \A m \in Nodes : main'[m] = main[m] \/ ~NoPendings(main[m])
  BY <1>1, VerdictIs
<1>3. ASSUME NEW m \in Nodes
      PROVE  /\ \A f : f[1] # "audit-result" => (f \in DOMAIN main[m] <=> f \in DOMAIN main'[m])
             /\ Audit[m] # "required" \/ Planned(m) # {} => main'[m] = main[m]
  <2>1. CASE Judging(main[m], main'[m])
    <3>1. PICK k \in Nat : DOMAIN main'[m] = {<<"audit-result", k>>} \cup DOMAIN main[m]
      BY <2>1 DEF Judging, Over, File
    <3>2. \A f : f[1] # "audit-result" => f # <<"audit-result", k>>
      OBVIOUS
    <3> QED  BY <1>1, <1>2, <3>1, <3>2 DEF OpenInv, Rooted
  <2> QED  BY <1>2, <2>1
<1>4. ASSUME NEW m \in Nodes
      PROVE  /\ \A k : /\ <<"fact", k>> \in DOMAIN main[m] <=> <<"fact", k>> \in DOMAIN main'[m]
                       /\ <<"history", k>> \in DOMAIN main[m] <=> <<"history", k>> \in DOMAIN main'[m]
                       /\ <<"pending-audit", k>> \in DOMAIN main[m] <=>
                              <<"pending-audit", k>> \in DOMAIN main'[m]
             /\ HasTask(main, m) <=> HasTask(main', m)
  <2>1. \A k : /\ <<"fact", k>>[1] # "audit-result" /\ <<"history", k>>[1] # "audit-result"
               /\ <<"pending-audit", k>>[1] # "audit-result"
    OBVIOUS
  <2>2. Task[1] # "audit-result"
    BY DEF Task
  <2> QED  BY <1>3, <2>1, <2>2 DEF HasTask
<1>5. \A m \in Nodes : Latest(main'[m], "history") = Latest(main[m], "history")
  <2>1. \A m \in Nodes : Numbers(main'[m], "history") = Numbers(main[m], "history")
    BY <1>4 DEF Numbers
  <2> QED  BY <2>1 DEF Latest
<1>6. Rooted(main)'
  <2>1. \A m \in Nodes : /\ NoPendings(main[m]) => NoPendings(main'[m])
                         /\ Answered(main'[m]) => Answered(main[m])
    BY <1>4 DEF NoPendings, Answered
  <2> QED  BY <1>4, <2>1, RootedStays DEF OpenInv
<1>7. NoneLeftOpen'
  <2> SUFFICES ASSUME NEW p \in Nodes, \A c \in Planned(p) : Audit[c] = "off", MayComplete(main', p)
               PROVE  FALSE
    BY DEF NoneLeftOpen, Planned
  <2>1. Children(main', p) = Children(main, p) /\ Children(main, p) # {} /\ Planned(p) # {}
    BY <1>4 DEF MayComplete, Children, Planned
  <2>2. main'[p] = main[p] /\ \A c \in Children(main, p) : main'[c] = main[c]
    BY <1>3, <2>1 DEF Children, Planned
  <2>3. MayComplete(main, p)
    BY <1>4, <2>1, <2>2 DEF MayComplete
  <2> QED  BY <2>3 DEF OpenInv, NoneLeftOpen
<1>8. \A c, d \in Nodes : Siblings(c, d) => main'[d] = main[d]
  <2>1. \A c, d \in Nodes : Siblings(c, d) => Audit[d] # "required"
    BY DEF Siblings, Planned
  <2> QED  BY <1>3, <2>1
<1>9. \A q \in Runners : Busy(q)' => Busy(q) /\ run'[q] = run[q]
  BY <1>2 DEF Busy
<1> QED  BY <1>4, <1>5, <1>6, <1>7, <1>8, <1>9, OpenStays

\* A command that removes results or nodes, when no run works.
LEMMA OpenAtRest ==
  ASSUME NEW s, EvidenceInv(s)', Rooted(main)', NoneLeftOpen', UNCHANGED run,
         \A q \in Runners : ~Busy(q)
  PROVE  OpenInv(s)'
BY DEF OpenInv, Busy

LEMMA ArchiveSays ==
  ASSUME NEW a
  PROVE  /\ ~Answered(Archived(a)) /\ ~Resolved(Archived(a))
         /\ NoPendings(a) => NoPendings(Archived(a))
         /\ Task \in DOMAIN a <=> Task \in DOMAIN Archived(a)
<1> DEFINE chain == ChainOf(a)
           k == Latest(a, "fact")
           kept == IF k = 0 THEN "written" ELSE a[<<"fact", k>>]
           file == File(<<"history", Latest(a, "history") + 1>>, kept)
<1>1. Archived(a) = IF chain = {} THEN a ELSE Over(file, Without(a, chain))
  BY DEF Archived
<1>2. DOMAIN Archived(a) \subseteq {<<"history", Latest(a, "history") + 1>>} \cup (DOMAIN a \ chain)
  BY <1>1 DEF Over, File, Without
<1>3. \A j : <<"fact", j>> \in DOMAIN a => <<"fact", j>> \in chain
  <2>1. \A j : <<"fact", j>>[1] = "fact"
    OBVIOUS
  <2>2. "fact" \in Chain
    BY DEF Chain
  <2> QED  BY <2>1, <2>2 DEF ChainOf
<1> HIDE DEF chain
<1>4. ~Answered(Archived(a))
  BY <1>2, <1>3 DEF Answered
<1>5. ~Resolved(Archived(a))
  BY <1>4, ResolvedHasFact DEF Answered
<1>6. NoPendings(a) => NoPendings(Archived(a))
  BY <1>2 DEF NoPendings
<1>7. Task \in Marks(a) <=> Task \in Marks(Archived(a))
  BY ArchivedMarks
<1>8. Task \in DOMAIN a <=> Task \in DOMAIN Archived(a)
  BY <1>7, MarkNamesApart DEF Marks
<1> QED  BY <1>4, <1>5, <1>6, <1>8

\* An invalidation reaches the children of every node that it reaches.
LEMMA OpenInvalidate ==
  ASSUME NEW s \in Hosts, OpenInv(s), EvidenceInv(s)', NEW g \in Hosts, g # s, NEW n \in Nodes,
         Invalidate(g, n), tree[g] = main, CalmCommands, main' # main
  PROVE  OpenInv(s)'
<1>1. TypeInv
  BY DEF OpenInv, EvidenceInv, KeptInv
<1>2. /\ UNCHANGED run
      /\ \A m \in Nodes : main'[m] = IF m \in Cascade(main, n) THEN Archived(main[m]) ELSE main[m]
  BY <1>1, InvalidateIs
<1>3. \A q \in Runners : ~Busy(q)
  BY DEF CalmCommands, LifecycleCommand
<1>4. \A m \in Nodes : HasTask(main, m) <=> HasTask(main', m)
  BY <1>2, ArchiveSays DEF HasTask
<1>5. Rooted(main)'
  <2>1. \A m \in Nodes : /\ NoPendings(main[m]) => NoPendings(main'[m])
                         /\ Answered(main'[m]) => Answered(main[m])
    BY <1>2, ArchiveSays
  <2> QED  BY <1>4, <2>1, RootedStays DEF OpenInv
<1>6. NoneLeftOpen'
  <2> SUFFICES ASSUME NEW p \in Nodes, \A c \in Planned(p) : Audit[c] = "off", MayComplete(main', p)
               PROVE  FALSE
    BY DEF NoneLeftOpen, Planned
  <2>1. Children(main', p) = Children(main, p) /\ Children(main, p) # {}
    BY <1>4 DEF MayComplete, Children, Planned
  <2>2. ASSUME NEW c \in Children(main, p)  PROVE c \notin Cascade(main, n) /\ main'[c] = main[c]
    <3>1. c \in Nodes /\ Resolved(main'[c])
      BY <2>1 DEF MayComplete, Children, Planned
    <3> QED  BY <1>2, <3>1, ArchiveSays
  <2>3. p \notin Cascade(main, n)
    BY <2>1, <2>2, CascadeBelow
  <2>4. MayComplete(main, p)
    BY <1>2, <1>4, <2>1, <2>2, <2>3 DEF MayComplete
  <2> QED  BY <2>4 DEF OpenInv, NoneLeftOpen
<1> QED  BY <1>2, <1>3, <1>5, <1>6, OpenAtRest

\* A kill takes no child away from others.
LEMMA OpenKill ==
  ASSUME NEW s \in Hosts, OpenInv(s), EvidenceInv(s)', NEW g \in Hosts, g # s, NEW n \in Nodes,
         Kill(g, n), tree[g] = main, CalmCommands, main' # main
  PROVE  OpenInv(s)'
<1>1. TypeInv
  BY DEF OpenInv, EvidenceInv, KeptInv
<1>2. /\ UNCHANGED run
      /\ \A m \in Nodes : main'[m] = IF m \in Below(n) THEN NoFiles ELSE main[m]
  BY <1>1, KillIs
<1>3. /\ \A q \in Runners : ~Busy(q)
      /\ Parent[n] # NoNode => Children(main, Parent[n]) = {n}
  BY DEF CalmCommands, LifecycleCommand
<1>4. DOMAIN NoFiles = {}
  BY DEF NoFiles
<1>5. /\ \A m \in Nodes : HasTask(main', m) <=> HasTask(main, m) /\ m \notin Below(n)
      /\ ~Answered(NoFiles) /\ NoPendings(NoFiles)
  BY <1>2, <1>4 DEF HasTask, Answered, NoPendings
<1>6. n \in Below(n) /\ \A c \in Nodes : Parent[c] \in Below(n) => c \in Below(n)
  BY BelowClosed
<1> HIDE DEF NoFiles
<1>7. Rooted(main)'
  <2>1. ASSUME NEW m \in Nodes, HasTask(main', m), Parent[m] # NoNode  PROVE HasTask(main', Parent[m])
    <3>1. Parent[m] \in Nodes /\ Parent[m] \notin Below(n)
      BY <1>5, <1>6, <2>1, ParentIsNode
    <3>2. HasTask(main, Parent[m])
      BY <1>5, <2>1 DEF OpenInv, Rooted
    <3> QED  BY <1>5, <3>1, <3>2
  <2>2. \A m \in Nodes : /\ Audit[m] # "required" => NoPendings(main'[m])
                         /\ ~HasTask(main', m) => ~Answered(main'[m])
    BY <1>2, <1>5 DEF OpenInv, Rooted
  <2> QED  BY <2>1, <2>2 DEF Rooted
<1>8. NoneLeftOpen'
  <2> SUFFICES ASSUME NEW p \in Nodes, \A c \in Planned(p) : Audit[c] = "off", MayComplete(main', p)
               PROVE  FALSE
    BY DEF NoneLeftOpen, Planned
  <2>1. HasTask(main', p) /\ Children(main', p) # {}
    BY DEF MayComplete
  <2>2. p \notin Below(n) /\ main'[p] = main[p] /\ p # NoNode
    BY <1>2, <1>5, <2>1, TreeAssumption DEF TreeAssumption
  <2>3. \A c \in Children(main', p) : c # n /\ c \in Children(main, p) /\ main'[c] = main[c]
    BY <1>2, <1>5, <1>6 DEF Children, Planned
  <2>4. Parent[n] # p
    BY <1>3, <2>1, <2>2, <2>3
  <2>5. ASSUME NEW c \in Children(main, p)  PROVE c \in Children(main', p)
    <3>1. c \in Nodes /\ Parent[c] = p /\ HasTask(main, c)
      BY DEF Children, Planned
    <3>2. c \notin Below(n)
      BY <2>2, <2>4, <3>1, BelowParents
    <3> QED  BY <1>5, <3>1, <3>2 DEF Children, Planned
  <2>6. Children(main', p) = Children(main, p)
    BY <2>3, <2>5
  <2>7. MayComplete(main, p)
    BY <1>5, <2>1, <2>2, <2>3, <2>6 DEF MayComplete
  <2> QED  BY <2>7 DEF OpenInv, NoneLeftOpen
<1> QED  BY <1>2, <1>3, <1>7, <1>8, OpenAtRest

\* A run starts from main as it is.
LEMMA OpenStart ==
  ASSUME NEW s, OpenInv(s), EvidenceInv(s)', NEW r \in Runners, Start(r), HasRoom(main)
  PROVE  OpenInv(s)'
<1>1. PICK n \in Nodes :
        run' = [run EXCEPT ![r] =
             [phase |-> "working", node |-> n, nnn |-> NextNumber(tree[HostOf[r]][n]),
              base |-> main, mine |-> main]]
  BY DEF Start, Claimable
<1>2. UNCHANGED main /\ run \in [Runners -> RunRecords]
  BY DEF Start, OpenInv, EvidenceInv, KeptInv, TypeInv
<1> HIDE DEF RunRecords
<1>3. /\ run'[r].phase = "working" /\ run'[r].node = n /\ run'[r].base = main
      /\ \A q \in Runners : q # r => run'[q] = run[q]
  BY <1>1, <1>2
<1>4. Rooted(main)' /\ NoneLeftOpen'
  BY <1>2 DEF OpenInv, NoneLeftOpen
<1>5. AsRead(r)'
  BY <1>2, <1>3 DEF AsRead, OpenInv
<1>6. ASSUME NEW q \in Runners, Busy(q)', q # r
      PROVE  /\ AsRead(q)'
             /\ run'[q].phase = "publishing" => Told(run'[q].node, run'[q].base, run'[q].mine)
  <2>1. run'[q] = run[q] /\ Busy(q)
    BY <1>3, <1>6 DEF Busy
  <2> QED  BY <1>2, <2>1 DEF OpenInv, AsRead
<1> QED  BY <1>3, <1>4, <1>5, <1>6 DEF OpenInv

\* What it tells, it decides in its own worktree.
LEMMA OpenFinish ==
  ASSUME NEW s \in Hosts, OpenInv(s), EvidenceInv(s)', NEW r \in Runners, Finish(r)
  PROVE  OpenInv(s)'
<1> DEFINE n == run[r].node
<1>1. PICK fact \in BOOLEAN, weaken \in {FALSE, MayWeaken}, seen \in {run[r].base[n], main[n]} :
        /\ fact => facts < MaxFacts /\ Planned(n) = {}
        /\ facts' = IF fact THEN facts + 1 ELSE facts
        /\ run' = [run EXCEPT
             ![r].phase = "publishing",
             ![r].mine = Signalled(r, Executed(r, fact,
                 IF weaken THEN "weakened" ELSE run[r].base[n][Task]), seen)]
  BY DEF Finish
<1> DEFINE contract == IF weaken THEN "weakened" ELSE run[r].base[n][Task]
           files == Executed(r, fact, contract)
           made == Signalled(r, files, seen)
           finished == [run[r] EXCEPT !.phase = "publishing", !.mine = made]
<1>2. TypeInv /\ KeptInv(s) /\ EvidenceInv(s) /\ Busy(r) /\ run[r] \in RunRecords
  BY DEF Finish, OpenInv, EvidenceInv, KeptInv, TypeInv, Busy
<1>3. n \in Nodes /\ HasTask(run[r].base, n)
  BY <1>2 DEF TypeInv, RunsOfTasks
<1>4. contract \in TreeContents
  <2>1. run[r].base[n] \in FileMaps
    BY <1>2, <1>3 DEF RunRecords, Trees
  <2>2. run[r].base[n][Task] \in TreeContents
    BY <1>3, <2>1, FileMapIs DEF HasTask
  <2> QED  BY <2>2, KnownContents
<1>5. facts \in Nat
  BY <1>2, TreeAssumption DEF TypeInv, TreeAssumption
<1>6. files \in FileMaps
  <2> HIDE DEF contract, FileMaps, RunRecords
  <2> QED  BY <1>1, <1>2, <1>3, <1>4, <1>5, ExecutedMap
<1>7. AsRead(r) /\ Followed(r)
  BY <1>2 DEF OpenInv, EvidenceInv
<1>8. ASSUME Planned(n) = {}, Audit[n] # "required"  PROVE ~Answered(run[r].base[n])
  <2>1. Abreast(run[r].base[n], main[n])
    BY <1>3, <1>7, <1>8 DEF Followed, AsRead
  <2>2. Undecided(main[n]) /\ NoPendings(main[n])
    BY <1>2, <1>3, <1>8 DEF KeptInv, OpenInv, Rooted
  <2>3. ~Answered(main[n])
    BY <2>2, AnsweredResolved DEF Undecided, Resolved
  <2>4. \A k \in 1 .. MaxNumber : k \in Nat
    BY TreeAssumption DEF TreeAssumption
  <2> QED  BY <2>1, <2>3, <2>4 DEF Abreast, Answered
<1>9. Told(n, run[r].base, made)
  <2>1. \A m \in Nodes : Planned(m) # {} => NoPendings(run[r].base[m])
    BY <1>2 DEF KeptInv
  <2> HIDE DEF contract, FileMaps, RunRecords
  <2> QED  BY <1>2, <1>3, <1>6, <1>7, <1>8, <2>1, SignalTold DEF AsRead
<1>10. run' = [run EXCEPT ![r].phase = "publishing", ![r].mine = made]
  BY <1>1
<1> HIDE DEF made, files, contract
<1>11. run' = [run EXCEPT ![r] = finished]
  BY <1>2, <1>10 DEF TypeInv
<1>12. /\ finished.node = n /\ finished.base = run[r].base /\ finished.mine = made
  <2> HIDE DEF Trees
  <2> QED  BY <1>2 DEF RunRecords
<1> HIDE DEF finished, RunRecords
<1>13. run'[r] = finished /\ \A q \in Runners : q # r => run'[q] = run[q]
  BY <1>2, <1>11 DEF TypeInv
<1>14. UNCHANGED main
  BY DEF Finish
<1>15. ASSUME NEW q \in Runners, Busy(q)'
       PROVE  /\ AsRead(q)'
              /\ run'[q].phase = "publishing" => Told(run'[q].node, run'[q].base, run'[q].mine)
  <2>1. Busy(q) /\ run'[q].base = run[q].base /\ run'[q].node = run[q].node
    BY <1>2, <1>12, <1>13, <1>15 DEF Busy
  <2>2. AsRead(q)'
    BY <1>14, <2>1 DEF OpenInv, AsRead
  <2>3. CASE q = r
    BY <1>9, <1>12, <1>13, <2>2, <2>3
  <2>4. CASE q # r
    BY <1>13, <2>1, <2>2, <2>4 DEF OpenInv
  <2> QED  BY <2>3, <2>4
<1> QED  BY <1>14, <1>15 DEF OpenInv, NoneLeftOpen

\* Main after a publish: nothing is archived, created or reopened, and what is resolved now
\* the run told, on its way up.
LEMMA PublishedSays ==
  ASSUME NEW s \in Hosts, OpenInv(s), TypeInv', NEW r \in Runners, PublishRun(r), NEW m \in Nodes
  PROVE  /\ HasTask(main', m) <=> HasTask(main, m)
         /\ Latest(main'[m], "history") = Latest(main[m], "history")
         /\ Resolved(main[m]) => Resolved(main'[m])
         /\ Audit[m] # "required" => NoPendings(main'[m])
         /\ ~HasTask(main', m) => ~Answered(main'[m])
         /\ Audit[m] = "off" /\ ~Resolved(main[m]) /\ Resolved(main'[m]) =>
              /\ Resolved(run[r].mine[m])
              /\ run[r].node \in Below(m) /\ HasTask(run[r].base, m)
              /\ Parent[m] # NoNode => ~MayComplete(run[r].mine, Parent[m])
<1> DEFINE n == run[r].node
           base == run[r].base
           mine == run[r].mine
           failure == File(<<"run", run[r].nnn>>, "merge-conflict")
           rebased == [c \in Nodes |-> Rebased(main[c], base[c], mine[c])]
<1>1. /\ \/ main' = [main EXCEPT ![n] = Over(failure, @)]
         \/ /\ main' = rebased
            /\ \A c \in Nodes : ~Conflicting(main[c], base[c], mine[c])
      /\ Busy(r) /\ run[r].phase = "publishing"
  BY PublishedIs DEF PublishRun
<1>2. EvidenceInv(s) /\ TypeInv /\ main \in Trees
  BY DEF OpenInv, EvidenceInv, KeptInv, TypeInv
<1>3. /\ AsRead(r) /\ Told(n, base, mine) /\ Justified(base, mine) /\ KeepsMarks(base, mine)
      /\ Rooted(main) /\ Rooted(base)
  BY <1>1 DEF OpenInv, EvidenceInv, AsRead
<1>4. Stands(m)
  BY <1>2, PublishedOf
<1> HIDE DEF n, base, mine
<1>5. CASE main' = [main EXCEPT ![n] = Over(failure, @)]
  <2>1. main'[m] = main[m] \/ main'[m] = Over(failure, main[m])
    BY <1>2, <1>5 DEF Trees
  <2>2. DOMAIN Over(failure, main[m]) = {<<"run", run[r].nnn>>} \cup DOMAIN main[m]
    BY DEF Over, File
  <2>3. Agree(main[m], main'[m])
    BY <2>1, AgreeItself, OtherFileOver, NotDecisive
  <2> HIDE DEF failure
  <2>4. /\ HasTask(main', m) <=> HasTask(main, m)
        /\ NoPendings(main[m]) => NoPendings(main'[m])
        /\ Answered(main'[m]) => Answered(main[m])
        /\ Numbers(main'[m], "history") = Numbers(main[m], "history")
    BY <2>1, <2>2 DEF HasTask, NoPendings, Answered, Numbers, Task
  <2>5. Resolved(main[m]) <=> Resolved(main'[m])
    BY <2>3, AgreeSame DEF Resolved
  <2> QED  BY <1>3, <2>4, <2>5 DEF Rooted, Latest
<1>6. CASE main' = rebased /\ \A c \in Nodes : ~Conflicting(main[c], base[c], mine[c])
  <2>1. main'[m] = Rebased(main[m], base[m], mine[m]) /\ ~Conflicting(main[m], base[m], mine[m])
    BY <1>6
  <2>2. Latest(main'[m], "history") = Latest(main[m], "history")
    <3>1. SameRecords(main[m], main'[m])
      BY <1>3, <2>1, RebasedRecords DEF Justified
    <3> QED  BY <3>1, SameArchive
  <2>3. HasTask(main', m) <=> HasTask(main, m)
    <3>1. Marks(main'[m]) = Marks(main[m])
      BY <1>3, <2>1, RebasedMarks DEF KeepsMarks
    <3> QED  BY <3>1, TaskIsMark
  <2>4. DOMAIN main'[m] \subseteq DOMAIN main[m] \cup DOMAIN mine[m]
    BY <2>1, RebasedNames
  <2>5. Audit[m] # "required" => NoPendings(main[m]) /\ NoPendings(mine[m]) /\ NoPendings(main'[m])
    BY <1>3, <2>4 DEF Rooted, Told, NoPendings
  <2>6. ASSUME ~HasTask(main', m)  PROVE ~Answered(main'[m])
    <3>1. ~HasTask(main, m) /\ ~HasTask(base, m)
      BY <1>3, <2>3, <2>6 DEF AsRead, base
    <3>2. ~Answered(main[m]) /\ ~Answered(base[m]) /\ SameFacts(base[m], mine[m])
      BY <1>3, <3>1 DEF Rooted, Told
    <3> QED  BY <2>4, <3>2 DEF SameFacts, Answered
  <2>7. ASSUME Audit[m] = "off", ~Resolved(main[m]), Resolved(main'[m])
        PROVE  Resolved(mine[m]) /\ ~SameFacts(base[m], mine[m])
    <3>1. NoPendings(main[m]) /\ NoPendings(mine[m]) /\ NoPendings(main'[m])
      BY <2>5, <2>7
    <3>2. PICK k \in 1 .. MaxNumber : <<"fact", k>> \in DOMAIN main'[m]
      BY <2>7, <3>1, AnsweredResolved DEF Answered
    <3>3. <<"fact", k>> \notin DOMAIN main[m]
      BY <2>7, <3>1, AnsweredResolved DEF Answered
    <3>4. <<"fact", k>> \in DOMAIN mine[m] /\ <<"fact", k>> \notin DOMAIN base[m]
      BY <2>1, <3>2, <3>3 DEF Rebased, Conflicting, Changed
    <3>5. Answered(mine[m])
      BY <3>4 DEF Answered
    <3> QED  BY <3>1, <3>4, <3>5, AnsweredResolved DEF SameFacts
  <2>8. Resolved(main[m]) => Resolved(main'[m])
    BY <1>4, <2>2 DEF Stands
  <2> QED  BY <1>3, <2>2, <2>3, <2>5, <2>6, <2>7, <2>8 DEF Told, n, base, mine
<1> QED  BY <1>1, <1>5, <1>6

\* If the last child is resolved now, the run that told so has completed the parent.
LEMMA PublishedOpen ==
  ASSUME NEW s \in Hosts, OpenInv(s), TypeInv', NEW r \in Runners, PublishRun(r)
  PROVE  NoneLeftOpen'
<1> DEFINE n == run[r].node
           base == run[r].base
           mine == run[r].mine
<1> SUFFICES ASSUME NEW p \in Nodes, \A c \in Planned(p) : Audit[c] = "off", MayComplete(main', p)
             PROVE  FALSE
  BY DEF NoneLeftOpen, Planned
<1>1. /\ Busy(r) /\ run[r].phase = "publishing"
      /\ \/ main' = [main EXCEPT ![n] = Over(File(<<"run", run[r].nnn>>, "merge-conflict"), @)]
         \/ \A c \in Nodes : /\ main'[c] = Rebased(main[c], base[c], mine[c])
                             /\ ~Conflicting(main[c], base[c], mine[c])
  BY PublishedIs DEF PublishRun
<1>2. /\ EvidenceInv(s) /\ KeptInv(s) /\ TypeInv /\ Followed(r) /\ AsRead(r)
      /\ Worked(n, base, mine) /\ KeepsMarks(base, mine) /\ NoneLeftOpen
  BY <1>1 DEF OpenInv, EvidenceInv, KeptInv
<1>3. Children(main', p) = Children(main, p) /\ Children(main, p) # {} /\ HasTask(main, p)
  BY PublishedSays DEF MayComplete, Children, Planned
<1>4. ~Resolved(main[p]) /\ ~Resolved(main'[p]) /\ \A c \in Children(main, p) : Resolved(main'[c])
  BY <1>3, PublishedSays DEF MayComplete
<1>5. PICK e \in Children(main, p) : ~Resolved(main[e])
  BY <1>2, <1>3, <1>4 DEF NoneLeftOpen, MayComplete
<1>6. e \in Nodes /\ Parent[e] = p /\ p # NoNode /\ Audit[e] = "off"
  BY <1>5, TreeAssumption DEF Children, Planned, TreeAssumption
<1>7. n \in Below(e) /\ HasTask(base, e) /\ ~MayComplete(mine, p)
  BY <1>4, <1>5, <1>6, PublishedSays
<1>8. /\ HasTask(mine, p) /\ HasTask(base, p)
      /\ Children(mine, p) = Children(main, p)
  <2>1. HasTask(base, p)
    BY <1>2, <1>6, <1>7 DEF AsRead, Rooted
  <2>2. Children(base, p) # {}
    BY <1>6, <1>7 DEF Children, Planned
  <2>3. Children(main, p) = Children(base, p)
    BY <1>2, <2>2 DEF Followed
  <2> QED  BY <1>2, <2>1, <2>3, SameTasks
<1>9. Planned(p) # {}
  BY <1>6 DEF Planned
<1>10. ~Resolved(mine[p])
  <2>1. CASE main' = [main EXCEPT ![n] = Over(File(<<"run", run[r].nnn>>, "merge-conflict"), @)]
    <3> DEFINE failure == File(<<"run", run[r].nnn>>, "merge-conflict")
    <3>1. main'[e] = main[e] \/ main'[e] = Over(failure, main[e])
      BY <1>2, <1>6, <2>1 DEF TypeInv, Trees
    <3>2. Agree(main[e], main'[e])
      BY <3>1, AgreeItself, OtherFileOver, NotDecisive
    <3> QED  BY <1>4, <1>5, <3>2, AgreeSame DEF Resolved
  <2>2. CASE \A c \in Nodes : /\ main'[c] = Rebased(main[c], base[c], mine[c])
                              /\ ~Conflicting(main[c], base[c], mine[c])
    <3>1. NoPendings(main[p]) /\ NoPendings(base[p])
      BY <1>1, <1>2, <1>9 DEF KeptInv
    <3>2. KeepsFacts(base[p], mine[p]) /\ NoPendings(mine[p])
      BY <1>2, <1>9 DEF Worked
    <3>3. NoPendings(main'[p])
      BY <2>2, <3>1, <3>2, RebasedNames DEF NoPendings
    <3>4. Resolved(mine[p]) => Resolved(main'[p]) \/ Resolved(base[p])
      BY <2>2, <3>1, <3>2, <3>3, ParentMerged
    <3>5. Resolved(base[p]) => Resolved(main[p])
      BY <1>2 DEF Followed, AsRead
    <3> QED  BY <1>4, <3>4, <3>5
  <2> QED  BY <1>1, <2>1, <2>2
<1>11. ASSUME NEW d \in Children(main, p)  PROVE Resolved(mine[d])
  <2>1. d \in Nodes /\ Parent[d] = p /\ Audit[d] = "off" /\ Resolved(main'[d])
    BY <1>4 DEF Children, Planned
  <2>2. CASE ~Resolved(main[d])
    BY <2>1, <2>2, PublishedSays
  <2>3. CASE Resolved(main[d])
    <3>1. d # e /\ Siblings(e, d)
      BY <1>5, <1>6, <2>1, <2>3 DEF Siblings
    <3>2. Resolved(base[d])
      BY <1>2, <1>6, <1>7, <2>1, <2>3, <3>1 DEF AsRead
    <3>3. CASE Planned(d) # {}
      <4>1. KeepsFacts(base[d], mine[d]) /\ NoPendings(mine[d])
        BY <1>2, <2>1, <3>3 DEF Worked
      <4>2. /\ Latest(base[d], "fact") \in 1 .. MaxNumber /\ Latest(base[d], "fact") \in Nat
            /\ <<"fact", Latest(base[d], "fact")>> \in DOMAIN base[d]
        BY <3>2, ResolvedHasFact
      <4>3. Answered(mine[d])
        BY <4>1, <4>2 DEF KeepsFacts, Answered
      <4> QED  BY <4>1, <4>3, AnsweredResolved
    <3>4. CASE Planned(d) = {} /\ d # n
      BY <1>2, <2>1, <3>2, <3>4 DEF Worked
    <3>5. CASE Planned(d) = {} /\ d = n
      BY <1>1, <1>2, <2>3, <3>5 DEF KeptInv, Undecided, Resolved
    <3> QED  BY <3>3, <3>4, <3>5
  <2> QED  BY <2>2, <2>3
<1> QED  BY <1>3, <1>7, <1>8, <1>10, <1>11 DEF MayComplete

LEMMA OpenPublish ==
  ASSUME NEW s \in Hosts, OpenInv(s), EvidenceInv(s)', NEW r \in Runners, PublishRun(r), OneBranch
  PROVE  OpenInv(s)'
<1>1. TypeInv /\ TypeInv'
  BY DEF OpenInv, EvidenceInv, KeptInv
<1>2. run' = [run EXCEPT ![r] = IdleRun] /\ Busy(r) /\ run \in [Runners -> RunRecords]
  BY <1>1, PublishedIs DEF TypeInv, PublishRun, Busy
<1> HIDE DEF RunRecords
<1>3. \A q \in Runners : Busy(q)' => q # r /\ run'[q] = run[q] /\ Busy(q)
  BY <1>2 DEF IdleRun, Busy
<1>4. Rooted(main)'
  <2>1. ASSUME NEW m \in Nodes, HasTask(main', m), Parent[m] # NoNode  PROVE HasTask(main', Parent[m])
    <3>1. Parent[m] \in Nodes /\ HasTask(main, m)
      BY <1>1, <2>1, ParentIsNode, PublishedSays
    <3>2. HasTask(main, Parent[m])
      BY <2>1, <3>1 DEF OpenInv, Rooted
    <3> QED  BY <1>1, <3>1, <3>2, PublishedSays
  <2>2. \A m \in Nodes : /\ Audit[m] # "required" => NoPendings(main'[m])
                         /\ ~HasTask(main', m) => ~Answered(main'[m])
    BY <1>1, PublishedSays
  <2> QED  BY <2>1, <2>2 DEF Rooted
<1>5. NoneLeftOpen'
  BY <1>1, PublishedOpen
<1>6. ASSUME NEW q \in Runners, NEW c \in Nodes, NEW d \in Nodes, Busy(q)', Siblings(c, d), c # d,
             run[q].node \in Below(c), Resolved(main'[d])
      PROVE  Resolved(main[d])
  <2>1. Audit[d] = "off" /\ Siblings(d, c)
    BY <1>6 DEF Siblings, Planned
  <2>2. ASSUME ~Resolved(main[d])  PROVE FALSE
    <3>1. run[r].node \in Below(d)
      BY <1>1, <1>6, <2>1, <2>2, PublishedSays
    <3> QED  BY <1>2, <1>3, <1>6, <2>1, <3>1 DEF OneBranch
  <2> QED  BY <2>2
<1>7. \A m \in Nodes : /\ HasTask(main, m) => HasTask(main', m)
                       /\ Latest(main'[m], "history") = Latest(main[m], "history")
  BY <1>1, PublishedSays
<1> QED  BY <1>3, <1>4, <1>5, <1>6, <1>7, OpenStays

LEMMA OpenNext ==
  ASSUME NEW s, OneServer(s)
  PROVE  OpenInv(s) /\ [TreeNext]_treeVars /\ OneBranch /\ HasRoom(main)
           /\ [UpToDate /\ CalmFamilies /\ CalmCommands]_treeVars => OpenInv(s)'
<1> SUFFICES ASSUME OpenInv(s), [TreeNext]_treeVars, OneBranch, HasRoom(main),
                    [UpToDate /\ CalmFamilies /\ CalmCommands]_treeVars
             PROVE  OpenInv(s)'
  OBVIOUS
<1>1. EvidenceInv(s) /\ s \in Hosts
  BY DEF OpenInv, OneServer
<1>2. EvidenceInv(s)'
  BY <1>1, EvidenceNext
<1>3. ASSUME UNCHANGED main, \A q \in Runners : Busy(q)' => Busy(q) /\ run'[q] = run[q]
      PROVE  OpenInv(s)'
  BY <1>2, <1>3 DEF OpenInv, NoneLeftOpen, AsRead
<1>4. CASE UNCHANGED treeVars
  <2>1. UNCHANGED main /\ UNCHANGED run
    BY <1>4 DEF treeVars
  <2>2. \A q \in Runners : Busy(q)' => Busy(q) /\ run'[q] = run[q]
    BY <2>1 DEF Busy
  <2> QED  BY <1>3, <2>1, <2>2
<1>5. CASE TreeNext /\ UpToDate /\ CalmFamilies /\ CalmCommands
  <2>1. ASSUME NEW r \in Runners, Start(r)  PROVE OpenInv(s)'
    BY <1>2, <2>1, OpenStart
  <2>2. ASSUME NEW r \in Runners, Finish(r)  PROVE OpenInv(s)'
    BY <1>1, <1>2, <2>2, OpenFinish
  <2>3. ASSUME NEW r \in Runners, PublishRun(r)  PROVE OpenInv(s)'
    BY <1>1, <1>2, <2>3, OpenPublish
  <2>4. ASSUME NEW r \in Runners, Die(r)  PROVE OpenInv(s)'
    <3>1. run' = [run EXCEPT ![r] = IdleRun] /\ UNCHANGED main /\ run \in [Runners -> RunRecords]
      BY <1>1, <2>4 DEF Die, EvidenceInv, KeptInv, TypeInv
    <3>2. \A q \in Runners : Busy(q)' => Busy(q) /\ run'[q] = run[q]
      <4> HIDE DEF RunRecords
      <4> QED  BY <3>1 DEF IdleRun, Busy
    <3> QED  BY <1>3, <3>1, <3>2
  <2>5. ASSUME NEW g \in Hosts, Pull(g)  PROVE OpenInv(s)'
    <3>1. UNCHANGED main /\ UNCHANGED run
      BY <2>5 DEF Pull
    <3> QED  BY <1>3, <3>1 DEF Busy
  <2>6. ASSUME NEW g \in Hosts, NEW n \in Nodes,
               Approve(g, n) \/ Verdict(g, n) \/ LifecycleCommand(g, n)
        PROVE  OpenInv(s)'
    <3>1. tree[g] = main
      BY <1>5, <2>6 DEF UpToDate
    <3>2. g # s
      BY <2>6 DEF OneServer, Approve, Verdict, LifecycleCommand, Invalidate, Kill
    <3>3. CASE Approve(g, n)
      BY <1>1, <1>2, <3>1, <3>2, <3>3, OpenApprove
    <3>4. CASE Verdict(g, n)
      BY <1>1, <1>2, <3>1, <3>2, <3>4, OpenVerdict
    <3>5. CASE LifecycleCommand(g, n) /\ main' = main
      <4>1. UNCHANGED run
        BY <3>5 DEF LifecycleCommand, Invalidate, Kill
      <4> QED  BY <1>3, <3>5, <4>1 DEF Busy
    <3>6. CASE LifecycleCommand(g, n) /\ main' # main
      BY <1>1, <1>2, <1>5, <3>1, <3>2, <3>6, OpenInvalidate, OpenKill DEF LifecycleCommand
    <3> QED  BY <2>6, <3>3, <3>4, <3>5, <3>6
  <2> QED  BY <1>5, <2>1, <2>2, <2>3, <2>4, <2>5, <2>6 DEF TreeNext
<1> QED  BY <1>4, <1>5

LEMMA OpenInit ==
  ASSUME NEW s, OneServer(s), TreeInit
  PROVE  OpenInv(s)
<1>1. KeptInv(s) /\ \A r \in Runners : ~Busy(r)
  BY KeptInit DEF OneServer, TreeInit, Busy, IdleRun
<1>2. ASSUME NEW n \in Nodes
      PROVE  /\ \A k : /\ <<"fact", k>> \notin DOMAIN main[n]
                       /\ <<"pending-audit", k>> \notin DOMAIN main[n]
             /\ HasTask(main, n) <=> n \in Grown \/ Parent[n] = NoNode \/ Parent[n] \in Grown
  BY DEF TreeInit, HasTask, Over, File, NoFiles, Task
<1>3. ASSUME NEW n \in Nodes, HasTask(main, n), Parent[n] # NoNode  PROVE HasTask(main, Parent[n])
  <2>1. Parent[n] \in Grown
    BY <1>2, <1>3, TreeAssumption DEF TreeAssumption
  <2>2. Parent[n] \in Nodes
    BY <1>3, ParentIsNode
  <2> QED  BY <1>2, <2>1, <2>2
<1>4. \A n \in Nodes : ~Answered(main[n]) /\ NoPendings(main[n])
  BY <1>2 DEF Answered, NoPendings
<1>5. \A n \in Nodes : ~Resolved(main[n])
  BY <1>4, AnsweredResolved
<1>6. NoneLeftOpen
  BY <1>5 DEF NoneLeftOpen, MayComplete, Children, Planned
<1> QED  BY <1>1, <1>3, <1>4, <1>6 DEF OpenInv, EvidenceInv, Rooted

\* No parent is left open (signal.rs propagate_composite, which runs with the publish of a
\* child only): with all runs on one machine, commands in checkouts that are up to date, two
\* runs never below two siblings at once, and people who remove results or nodes between
\* runs only and no child from among others, a parent whose children are not audited and are
\* all resolved is resolved itself; for all trees, hosts and runners, and as long as no parent
\* uses up the numbers of the model.
THEOREM NoParentOpen ==
  ASSUME NEW s, OneServer(s)
  PROVE  TreeSpec /\ [][UpToDate /\ CalmFamilies /\ CalmCommands]_treeVars
           /\ []OneBranch /\ []HasRoom(main) => []NoneLeftOpen
<1>1. TreeInit => OpenInv(s)
  BY OpenInit
<1>2. OpenInv(s) /\ [TreeNext]_treeVars /\ OneBranch /\ HasRoom(main)
        /\ [UpToDate /\ CalmFamilies /\ CalmCommands]_treeVars => OpenInv(s)'
  BY OpenNext
<1>3. OpenInv(s) => NoneLeftOpen
  BY DEF OpenInv
<1> QED  BY <1>1, <1>2, <1>3, PTL DEF TreeSpec
=============================================================================
