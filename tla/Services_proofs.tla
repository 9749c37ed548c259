-------------------------- MODULE Services_proofs --------------------------
(***************************************************************************)
(* The components that share no state: what the orchestrator is told, how  *)
(* long an attempt takes, what an audit says, whose worktrees are removed, *)
(* what skills allow, who decides under the mandates, what a translation   *)
(* leaves alone, what is left of secrets, and who executes a node.  For    *)
(* all values of their constants, and whatever people, CLIs and git do.    *)
(***************************************************************************)
EXTENDS Orchestrator, Attempt, AuditCycle, Worktrees, SandboxPolicy, Mandates,
        Texts, Masking, ExecutorFlags, NumberLemmas, FiniteSetTheorems, SequenceTheorems, TLAPS

-----------------------------------------------------------------------------
(* Wakes.                                                                  *)

\* The file only gets newer, and the bridge knows no other device as its own.
WakeIInv ==
    /\ mtime \in Nat /\ lastSeen \in Nat
    /\ lastSeen <= mtime
    /\ known \in {Unknown, ThisHost}
    /\ NoWakeLost

\* Every change that comes from outside leaves a reason, and only the beginning of a wake
\* takes one away: a frame of another host or a person, a merge, and a connection that is
\* renewed in between (relay_client.rs handle_incoming, orchestrator.rs Wake).
THEOREM WakesAreKept ==
  OrchestratorSpec => []NoWakeLost
<1> USE OrchestratorAssumption DEF OrchestratorAssumption, WakeIInv, NoWakeLost
<1>1. OrchestratorInit => WakeIInv
  BY DEF OrchestratorInit
<1>2. WakeIInv /\ [OrchestratorNext]_orchestratorVars => WakeIInv'
  <2> SUFFICES ASSUME WakeIInv, [OrchestratorNext]_orchestratorVars PROVE WakeIInv'
    OBVIOUS
  <2>1. CASE Frame
    <3>1. PICK fromHost \in BOOLEAN, hostToHost \in BOOLEAN,
               origin \in {ThisHost, OtherHost, Phone, Unknown} :
            /\ fromHost <=> origin # Phone
            /\ hostToHost => fromHost
            /\ signalled' = (signalled \/ Taken(fromHost, hostToHost, origin))
            /\ news' = (news \/ origin = Phone \/ (hostToHost /\ origin = OtherHost))
      BY <2>1 DEF Frame
    <3>2. origin = Phone \/ (hostToHost /\ origin = OtherHost) => Taken(fromHost, hostToHost, origin)
      BY <3>1 DEF Taken
    <3> QED  BY <2>1, <3>1, <3>2 DEF Frame
  <2>2. CASE Hello
    BY <2>2 DEF Hello
  <2>3. CASE Merge
    BY <2>3 DEF Merge
  <2>4. CASE WakeUp
    BY <2>4 DEF WakeUp
  <2>5. CASE Dispatch \/ ScanStates \/ Audits \/ PruneWorktrees
    BY <2>5 DEF Dispatch, ScanStates, Audits, PruneWorktrees, FlagAfterTick
  <2>6. CASE UNCHANGED orchestratorVars
    BY <2>6 DEF orchestratorVars
  <2> QED  BY <2>1, <2>2, <2>3, <2>4, <2>5, <2>6 DEF OrchestratorNext
<1>3. WakeIInv => NoWakeLost
  OBVIOUS
<1> QED  BY <1>1, <1>2, <1>3, PTL DEF OrchestratorSpec

-----------------------------------------------------------------------------
(* Alerts.                                                                 *)

\* What the runs left unresolvable is so until the scan, and reported after it.
AlertIInv ==
    /\ tick \in {<<>>, Tick, <<"scan", "audit", "prune">>, <<"audit", "prune">>, <<"prune">>}
    /\ workState \in [Work -> WorkStates]
    /\ failedRuns \subseteq Work
    /\ \A n \in failedRuns : workState[n] = "unresolvable"
    /\ tick \in {<<"audit", "prune">>, <<"prune">>} => failedRuns \subseteq alerted

LEMMA Ticks ==
  /\ <<>> \notin {Tick, <<"scan", "audit", "prune">>, <<"audit", "prune">>, <<"prune">>}
  /\ Head(Tick) = "dispatch" /\ Tail(Tick) = <<"scan", "audit", "prune">>
  /\ Head(<<"scan", "audit", "prune">>) = "scan"
  /\ Tail(<<"scan", "audit", "prune">>) = <<"audit", "prune">>
  /\ Head(<<"audit", "prune">>) = "audit" /\ Tail(<<"audit", "prune">>) = <<"prune">>
  /\ Head(<<"prune">>) = "prune" /\ Tail(<<"prune">>) = <<>>
  /\ Tick \notin {<<"audit", "prune">>, <<"prune">>}
  /\ <<"scan", "audit", "prune">> \notin {<<"audit", "prune">>, <<"prune">>}
BY DEF Tick

\* The alerts of a wake come after its runs: whoever they left unresolvable, and no merge
\* has changed since, is alerted before the wake is over (orchestrator.rs tick).
THEOREM FailuresAreReported ==
  OrchestratorSpec => []AlertedInSameWake
<1> USE DEF AlertIInv
<1>1. OrchestratorInit => AlertIInv
  BY Ticks DEF OrchestratorInit, WorkStates
<1>2. AlertIInv /\ [OrchestratorNext]_orchestratorVars => AlertIInv'
  <2> SUFFICES ASSUME AlertIInv, [OrchestratorNext]_orchestratorVars PROVE AlertIInv'
    OBVIOUS
  <2>1. CASE Frame \/ Hello
    BY <2>1 DEF Frame, Hello
  <2>2. CASE Merge
    BY <2>2 DEF Merge
  <2>3. CASE WakeUp
    BY <2>3, Ticks DEF WakeUp
  <2>4. CASE Dispatch
    BY <2>4, Ticks DEF Dispatch, Step
  <2>5. CASE ScanStates
    BY <2>5, Ticks DEF ScanStates, Step
  <2>6. CASE Audits
    <3>1. tick = <<"audit", "prune">> /\ tick' = <<"prune">>
      BY <2>6, Ticks DEF Audits, Step
    <3>2. \A n \in failedRuns : workState'[n] = workState[n]
      BY <2>6 DEF Audits
    <3> QED  BY <2>6, <3>1, <3>2 DEF Audits
  <2>7. CASE PruneWorktrees
    BY <2>7, Ticks DEF PruneWorktrees, Step
  <2>8. CASE UNCHANGED orchestratorVars
    BY <2>8 DEF orchestratorVars
  <2> QED  BY <2>1, <2>2, <2>3, <2>4, <2>5, <2>6, <2>7, <2>8 DEF OrchestratorNext
<1>3. AlertIInv => AlertedInSameWake
  BY DEF AlertedInSameWake
<1> QED  BY <1>1, <1>2, <1>3, PTL DEF OrchestratorSpec

-----------------------------------------------------------------------------
(* The watchdog.                                                           *)

\* Without progress that the watchdog has not seen yet, it counts at most the seconds since
\* the agent last wrote.
IdleBehind ==
    /\ {age, idle, quiet} \subseteq Nat
    /\ process = "running" /\ ~touched => idle <= quiet

\* A kill for a lack of progress comes only after more than the timeout without a file,
\* also when the agent writes between two polls or in the second of the last one
\* (runner.rs spawn_watched).
THEOREM WritersAreSpared ==
  AttemptSpec => KilledOnlyWhenIdle
<1> USE AttemptAssumption DEF AttemptAssumption
<1> DEFINE Spared == killed = "no" /\ killed' = "progress-timeout" => quiet > ProgressTimeout
<1>1. AttemptInit => IdleBehind
  BY DEF AttemptInit, IdleBehind
<1>2. IdleBehind /\ [AttemptNext]_attemptVars => IdleBehind' /\ [Spared]_attemptVars
  <2> SUFFICES ASSUME IdleBehind, [AttemptNext]_attemptVars
               PROVE  IdleBehind' /\ [Spared]_attemptVars
    OBVIOUS
  <2> USE DEF IdleBehind
  <2>1. CASE Spawn
    BY <2>1 DEF Spawn
  <2>2. CASE CascadeEnds
    BY <2>2 DEF CascadeEnds, PhaseEnds
  <2>3. CASE AgentWrites
    BY <2>3 DEF AgentWrites
  <2>4. CASE AgentExits
    BY <2>4 DEF AgentExits
  <2>5. CASE Second
    BY SMTT(30), <2>5 DEF Second
  <2>6. CASE Poll
    <3>1. CASE process # "running"
      BY <2>6, <3>1 DEF Poll, PhaseEnds
    <3>2. CASE process = "running" /\ age > BudgetHard
      <4>1. killed' = "budget-exceeded" /\ process' = "none" /\ UNCHANGED <<age, idle, quiet>>
        BY <2>6, <3>2 DEF Poll, KillChild, PhaseEnds
      <4> QED  BY <4>1
    <3>3. CASE process = "running" /\ ~(age > BudgetHard) /\ touched
      <4>1. idle' = 0 /\ UNCHANGED <<age, quiet, killed>>
        BY <2>6, <3>3 DEF Poll, IdleAfterProgress
      <4> QED  BY <4>1
    <3>4. CASE process = "running" /\ ~(age > BudgetHard) /\ ~touched
      <4>1. CASE idle > ProgressTimeout
        BY <2>6, <3>4, <4>1 DEF Poll, KillChild, PhaseEnds
      <4>2. CASE ~(idle > ProgressTimeout)
        BY <2>6, <3>4, <4>2 DEF Poll
      <4> QED  BY <4>1, <4>2
    <3> QED  BY <3>1, <3>2, <3>3, <3>4
  <2>7. CASE UNCHANGED attemptVars
    BY <2>7 DEF attemptVars
  <2> QED  BY <2>1, <2>2, <2>3, <2>4, <2>5, <2>6, <2>7 DEF AttemptNext
<1> QED  BY <1>1, <1>2, PTL DEF AttemptSpec, KilledOnlyWhenIdle

-----------------------------------------------------------------------------
(* The cascade.                                                            *)

Listed(s) == {s[i] : i \in DOMAIN s}
Once(s) == \A i, j \in DOMAIN s : s[i] = s[j] => i = j
Clis == {AgentCli} \cup Listed(CloudClis)

\* Those of a cascade that can be spawned.
Left(s) == Cardinality(Listed(s) \cap KnownClis)

LEMMA Single ==
  ASSUME NEW S, NEW e \in S
  PROVE  <<e>> \in Seq(S) /\ DOMAIN <<e>> = {1} /\ <<e>>[1] = e
OBVIOUS

LEMMA ListedFinite ==
  ASSUME NEW s \in Seq(STRING)
  PROVE  IsFiniteSet(Listed(s))
<1>1. DOMAIN s = 1 .. Len(s) /\ Len(s) \in Nat
  OBVIOUS
<1>2. IsFiniteSet(DOMAIN s)
  BY <1>1, FS_Interval
<1>3. [i \in DOMAIN s |-> s[i]] \in Surjection(DOMAIN s, Listed(s))
  BY DEF Surjection, Listed
<1> QED  BY <1>2, <1>3, FS_Surjection

\* Each CLI is tried once in a phase, and no other (runner.rs cascade_order).
LEMMA CascadeListsOnce ==
  /\ CascadeOrder \in Seq(STRING)
  /\ Once(CascadeOrder)
  /\ Listed(CascadeOrder) \subseteq Clis
<1> USE AttemptAssumption DEF AttemptAssumption
<1> DEFINE N == Len(CloudClis)
           Good(s) == s \in Seq(STRING) /\ Once(s) /\ Listed(s) \subseteq Clis
           Next(k, s) == IF \E i \in DOMAIN s : s[i] = CloudClis[k] THEN s ELSE Append(s, CloudClis[k])
           X == {s \in Seq(STRING) : Good(s)}
           F == [p \in Nat \X X |-> IF p[1] + 1 \in 1 .. N THEN Next(p[1] + 1, p[2]) ELSE p[2]]
           Order(f) == [k \in 0 .. N |->
                          IF k = 0 THEN <<AgentCli>>
                          ELSE IF \E i \in DOMAIN f[k - 1] : f[k - 1][i] = CloudClis[k]
                          THEN f[k - 1]
                          ELSE Append(f[k - 1], CloudClis[k])]
<1>1. N \in Nat /\ DOMAIN CloudClis = 1 .. N /\ \A k \in 1 .. N : CloudClis[k] \in STRING
  OBVIOUS
<1>2. Good(<<AgentCli>>)
  <2>1. <<AgentCli>> \in Seq(STRING)
    <3>1. AgentCli \in STRING
      OBVIOUS
    <3> QED  BY <3>1, Single
  <2>2. \A i \in DOMAIN <<AgentCli>> : i = 1 /\ <<AgentCli>>[i] = AgentCli
    BY Single
  <2> DEFINE s == <<AgentCli>>
  <2> HIDE DEF s
  <2>3. s \in Seq(STRING) /\ \A i \in DOMAIN s : i = 1 /\ s[i] = AgentCli
    BY <2>1, <2>2 DEF s
  <2>4. Good(s)
    BY <2>3 DEF Once, Listed, Clis
  <2> QED  BY <2>4 DEF s
<1>3. ASSUME NEW s, Good(s), NEW k \in 1 .. N  PROVE Good(Next(k, s))
  <2>1. CASE \E i \in DOMAIN s : s[i] = CloudClis[k]
    BY <1>3, <2>1
  <2>2. CASE ~\E i \in DOMAIN s : s[i] = CloudClis[k]
    <3> DEFINE e == CloudClis[k]
               t == Append(s, e)
    <3>1. s \in Seq(STRING) /\ e \in STRING /\ e \in Clis
      BY <1>1, <1>3 DEF Clis, Listed
    <3>2. \A i \in DOMAIN s : s[i] # e
      BY <2>2
    <3> HIDE DEF e
    <3>3. /\ t \in Seq(STRING) /\ DOMAIN t = DOMAIN s \cup {Len(s) + 1}
          /\ t[Len(s) + 1] = e /\ \A i \in DOMAIN s : t[i] = s[i]
          /\ Len(s) + 1 \notin DOMAIN s
      <4>1. /\ DOMAIN s = 1 .. Len(s) /\ Len(s) \in Nat
        BY <3>1
      <4>2. t \in Seq(STRING) /\ Len(t) = Len(s) + 1 /\ DOMAIN t = 1 .. Len(s) + 1
        <5>1. t \in Seq(STRING) /\ Len(t) = Len(s) + 1
          BY <3>1, AppendProperties
        <5> HIDE DEF t
        <5> QED  BY <5>1
      <4>3. t[Len(s) + 1] = e
        BY ZenonT(60), <3>1, AppendProperties
      <4>4. \A i \in 1 .. Len(s) : t[i] = s[i]
        BY <3>1, AppendProperties
      <4>5. 1 .. Len(s) + 1 = (1 .. Len(s)) \cup {Len(s) + 1} /\ Len(s) + 1 \notin 1 .. Len(s)
        BY <4>1
      <4> HIDE DEF t
      <4> QED  BY <4>1, <4>2, <4>3, <4>4, <4>5
    <3> HIDE DEF t
    <3>4. Once(t)
      BY <1>3, <3>2, <3>3 DEF Once
    <3>5. Listed(t) \subseteq Clis
      BY <1>3, <3>1, <3>3 DEF Listed
    <3>6. Next(k, s) = t
      BY <2>2 DEF t, e
    <3> HIDE DEF Next
    <3> QED  BY <3>3, <3>4, <3>5, <3>6
  <2> QED  BY <2>1, <2>2
<1> HIDE DEF Good, N
<1>4. <<AgentCli>> \in X /\ F \in [Nat \X X -> X]
  <2>1. \A s : Good(s) => s \in X
    BY DEF Good
  <2>2. ASSUME NEW p \in Nat \X X  PROVE F[p] \in X
    <3>1. Good(p[2]) /\ p[2] \in X /\ p[1] \in Nat
      OBVIOUS
    <3>2. CASE p[1] + 1 \in 1 .. N
      <4>1. Good(Next(p[1] + 1, p[2]))
        <5> HIDE DEF Next
        <5> QED  BY <1>3, <3>1, <3>2
      <4>2. F[p] = Next(p[1] + 1, p[2])
        BY <3>2
      <4> HIDE DEF Next, F, X
      <4> QED  BY <2>1, <4>1, <4>2
    <3>3. CASE p[1] + 1 \notin 1 .. N
      BY <3>1, <3>3
    <3> QED  BY <3>2, <3>3
  <2> HIDE DEF X, Next
  <2> QED  BY <1>2, <2>1, <2>2
<1>5. PICK f \in [Nat -> X] : Stepped(F, <<AgentCli>>, f)
  <2> HIDE DEF X, F
  <2> QED  BY <1>4, Steps
<1>6. \E g : g = Order(g)
  <2> DEFINE g == [k \in 0 .. N |-> f[k]]
  <2>1. ASSUME NEW k \in 0 .. N  PROVE g[k] = Order(g)[k]
    <3>1. CASE k = 0
      BY <1>5, <3>1 DEF Stepped
    <3>2. CASE k # 0
      <4>1. k - 1 \in Nat /\ k - 1 \in 0 .. N /\ (k - 1) + 1 = k /\ k \in 1 .. N
        BY <1>1, <3>2
      <4>2. f[k] = F[<<k - 1, f[k - 1]>>]
        <5> HIDE DEF F, X
        <5> QED  BY <1>5, <4>1 DEF Stepped
      <4>3. <<k - 1, f[k - 1]>> \in Nat \X X
        <5> HIDE DEF X
        <5> QED  BY <4>1
      <4>4. f[k] = Next(k, f[k - 1])
        <5> HIDE DEF Next, X
        <5> QED  BY <4>1, <4>2, <4>3
      <4> QED  BY <3>2, <4>1, <4>4
    <3> QED  BY <3>1, <3>2
  <2>2. g = Order(g)
    BY <2>1
  <2> HIDE DEF g, Order
  <2> QED  BY <2>2
<1>7. CascadeOrder = (CHOOSE g : g = Order(g))[N]
  BY DEF CascadeOrder, N
<1>8. PICK g : g = Order(g) /\ CascadeOrder = g[N]
  <2> HIDE DEF Order
  <2> QED  BY <1>6, <1>7
<1>9. /\ g[0] = <<AgentCli>>
      /\ \A k \in 1 .. N : g[k] = Next(k, g[k - 1])
  <2>1. \A k \in 0 .. N : g[k] = Order(g)[k]
    <3> HIDE DEF Order
    <3> QED  BY <1>8
  <2>2. g[0] = <<AgentCli>>
    <3>1. 0 \in 0 .. N
      BY <1>1
    <3>2. Order(g)[0] = <<AgentCli>>
      BY <3>1
    <3> HIDE DEF Order
    <3> QED  BY <2>1, <3>1, <3>2
  <2>3. ASSUME NEW k \in 1 .. N  PROVE g[k] = Next(k, g[k - 1])
    <3>1. k \in 0 .. N /\ k # 0
      BY <1>1
    <3> QED  BY <2>1, <3>1
  <2> QED  BY <2>2, <2>3
<1>10. N \in {k \in Nat : k <= N => Good(g[k])}
  <2> DEFINE S == {k \in Nat : k <= N => Good(g[k])}
  <2>1. 0 \in S
    BY <1>2, <1>9
  <2>2. ASSUME NEW k \in Nat, k \in S  PROVE k + 1 \in S
    <3> SUFFICES ASSUME k + 1 <= N PROVE Good(g[k + 1])
      OBVIOUS
    <3>1. k + 1 \in 1 .. N /\ (k + 1) - 1 = k /\ k <= N
      BY <1>1
    <3>2. g[k + 1] = Next(k + 1, g[k])
      <4> HIDE DEF Next
      <4> QED  BY <1>9, <3>1
    <3>3. Good(Next(k + 1, g[k]))
      <4> HIDE DEF Next
      <4> QED  BY <1>3, <2>2, <3>1
    <3> QED  BY <3>2, <3>3
  <2> HIDE DEF S
  <2> QED  BY <1>1, <2>1, <2>2, AllNumbers DEF S
<1>11. Good(g[N])
  BY <1>1, <1>10
<1> QED  BY <1>8, <1>11 DEF Good

\* A CLI less, if the first one could be spawned.
LEMMA TailLeft ==
  ASSUME NEW s \in Seq(STRING), s # <<>>, Once(s), Listed(s) \subseteq Clis
  PROVE  /\ Tail(s) \in Seq(STRING) /\ Once(Tail(s)) /\ Listed(Tail(s)) \subseteq Clis
         /\ Left(s) \in Nat /\ Left(Tail(s)) \in Nat
         /\ Left(s) = Left(Tail(s)) + IF Head(s) \in KnownClis THEN 1 ELSE 0
<1> DEFINE t == Tail(s)
<1>1. /\ t \in Seq(STRING) /\ Len(t) = Len(s) - 1 /\ \A i \in 1 .. Len(t) : t[i] = s[i + 1]
  BY HeadTailProperties
<1>2. Head(s) = s[1] /\ Len(s) \in Nat \ {0} /\ DOMAIN s = 1 .. Len(s)
  BY EmptySeq
<1> HIDE DEF t
<1>3. DOMAIN t = 1 .. Len(t)
  BY <1>1
<1>4. \A i \in DOMAIN t : i + 1 \in DOMAIN s /\ i + 1 # 1
  BY <1>1, <1>2, <1>3
<1>5. Once(t)
  <2> SUFFICES ASSUME NEW i \in DOMAIN t, NEW j \in DOMAIN t, t[i] = t[j]  PROVE i = j
    BY DEF Once
  <2>1. s[i + 1] = s[j + 1]
    BY <1>1, <1>3
  <2>2. i + 1 = j + 1
    BY <1>4, <2>1 DEF Once
  <2> QED  BY <1>3, <2>2
<1>6. Listed(s) = Listed(t) \cup {Head(s)}
  <2>1. \A i \in DOMAIN s : i # 1 => i - 1 \in DOMAIN t /\ t[i - 1] = s[i]
    BY <1>1, <1>2, <1>3
  <2>2. 1 \in DOMAIN s
    BY <1>2
  <2> QED  BY SMTT(30), <1>1, <1>2, <1>3, <1>4, <2>1, <2>2 DEF Listed
<1>7. Head(s) \notin Listed(t)
  <2> SUFFICES ASSUME NEW i \in DOMAIN t, t[i] = Head(s)  PROVE FALSE
    BY DEF Listed
  <2>1. s[i + 1] = s[1] /\ 1 \in DOMAIN s
    BY <1>1, <1>2, <1>3
  <2> QED  BY <1>4, <2>1 DEF Once
<1> DEFINE A == Listed(t) \cap KnownClis
<1>8. IsFiniteSet(A)
  BY <1>1, ListedFinite, FS_Subset
<1>9. Cardinality(A) \in Nat
  BY <1>8, FS_CardinalityType
<1>10. Left(t) \in Nat
  BY <1>9 DEF Left
<1>11. ASSUME Head(s) \in KnownClis  PROVE Left(s) = Left(t) + 1
  <2>1. Listed(s) \cap KnownClis = A \cup {Head(s)} /\ Head(s) \notin A
    BY <1>6, <1>7, <1>11
  <2>2. Cardinality(A \cup {Head(s)}) = Cardinality(A) + 1
    BY <1>8, <2>1, FS_AddElement
  <2> QED  BY <2>1, <2>2 DEF Left
<1>12. ASSUME Head(s) \notin KnownClis  PROVE Left(s) = Left(t)
  <2>1. Listed(s) \cap KnownClis = A
    BY <1>6, <1>12
  <2> QED  BY <2>1 DEF Left
<1>13. Listed(t) \subseteq Clis
  BY <1>6
<1>14. /\ Left(s) \in Nat
       /\ Left(s) = Left(t) + IF Head(s) \in KnownClis THEN 1 ELSE 0
  BY <1>10, <1>11, <1>12
<1> QED  BY <1>1, <1>5, <1>10, <1>13, <1>14 DEF t

-----------------------------------------------------------------------------
(* The time an attempt takes.                                              *)

Budget == BudgetHard + 1
PerPhase == Cardinality(Clis \cap KnownClis) * Budget

\* What the phases up to this one may take together.
AllowedSoFar == CASE stage = "planning" -> PerPhase
             [] stage = "execution" -> 2 * PerPhase
             [] OTHER -> 3 * PerPhase

\* The seconds taken, those of the process there is and those of the CLIs left in the
\* cascade are within that.
WithinBudgets ==
    /\ age \in Nat /\ wall \in Nat /\ polled \in BOOLEAN
    /\ process \in {"none", "running", "rate-limited", "exited"}
    /\ stage \in Phases \cup {"finished", "refused"}
    /\ process # "none" => stage \in Phases
    /\ cascade \in Seq(STRING) /\ Once(cascade) /\ Listed(cascade) \subseteq Clis
    /\ process = "running" => age <= Budget /\ (polled => age < Budget)
    /\ wall + Left(cascade) * Budget + (IF process = "running" THEN Budget - age ELSE 0) <= AllowedSoFar

LEMMA Costs ==
  /\ Budget \in Nat /\ PerPhase \in Nat
  /\ \A n \in Nat : n * Budget \in Nat /\ (n + 1) * Budget = n * Budget + Budget
  /\ \A s \in Seq(STRING) : Left(s) \in Nat
  /\ Left(<<>>) = 0
  /\ Left(CascadeOrder) * Budget <= PerPhase
<1>1. Budget \in Nat
  BY AttemptAssumption DEF AttemptAssumption, Budget
<1>2. IsFiniteSet(Clis \cap KnownClis)
  <2>1. IsFiniteSet(Listed(CloudClis))
    BY AttemptAssumption, ListedFinite DEF AttemptAssumption
  <2>2. IsFiniteSet(Clis)
    BY <2>1, FS_AddElement DEF Clis
  <2> QED  BY <2>2, FS_Subset
<1>3. Cardinality(Clis \cap KnownClis) \in Nat
  BY <1>2, FS_CardinalityType
<1>4. \A n \in Nat : n * Budget \in Nat /\ (n + 1) * Budget = n * Budget + Budget
  <2> SUFFICES ASSUME NEW n \in Nat, NEW x \in Nat  PROVE n * x \in Nat /\ (n + 1) * x = n * x + x
    BY <1>1
  <2> QED  BY SMT
<1>5. ASSUME NEW s \in Seq(STRING)  PROVE Left(s) \in Nat
  <2>1. IsFiniteSet(Listed(s) \cap KnownClis)
    BY ListedFinite, FS_Subset
  <2> QED  BY <2>1, FS_CardinalityType DEF Left
<1>6. Left(<<>>) = 0
  <2>1. Listed(<<>>) \cap KnownClis = {}
    BY DEF Listed
  <2> QED  BY <2>1, FS_EmptySet DEF Left
<1>7. Left(CascadeOrder) * Budget <= PerPhase
  <2>1. Listed(CascadeOrder) \cap KnownClis \subseteq Clis \cap KnownClis
    BY CascadeListsOnce
  <2>2. Left(CascadeOrder) <= Cardinality(Clis \cap KnownClis)
    BY <1>2, <2>1, FS_Subset DEF Left
  <2>3. ASSUME NEW m \in Nat, NEW n \in Nat, NEW x \in Nat, m <= n  PROVE m * x <= n * x
    BY <2>3, SMT
  <2>4. Left(CascadeOrder) \in Nat
    BY <1>5, CascadeListsOnce
  <2> QED  BY <1>1, <1>3, <2>2, <2>3, <2>4 DEF PerPhase
<1>8. PerPhase \in Nat
  BY <1>3, <1>4 DEF PerPhase
<1> QED  BY <1>1, <1>4, <1>5, <1>6, <1>7, <1>8

\* The next phase has a budget of its own.
LEMMA NextPhaseWithin ==
  ASSUME WithinBudgets, stage \in Phases, PhaseEnds
  PROVE  /\ process' = "none" /\ stage' \in Phases \cup {"finished"}
         /\ cascade' \in Seq(STRING) /\ Once(cascade') /\ Listed(cascade') \subseteq Clis
         /\ wall + Left(cascade)' * Budget <= AllowedSoFar'
<1>1. wall <= AllowedSoFar /\ wall \in Nat
  <2>1. /\ Left(cascade) * Budget \in Nat
        /\ process = "running" => Budget - age \in Nat
    BY Costs DEF WithinBudgets
  <2>2. AllowedSoFar \in Nat
    BY Costs DEF AllowedSoFar
  <2> HIDE DEF AllowedSoFar
  <2> QED  BY <2>1, <2>2 DEF WithinBudgets
<1>2. Left(CascadeOrder) * Budget \in Nat /\ Left(CascadeOrder) * Budget <= PerPhase /\ PerPhase \in Nat
  BY Costs, CascadeListsOnce
<1>3. CASE stage = "planning" /\ stage' = "execution" /\ cascade' = CascadeOrder
  <2>1. AllowedSoFar = PerPhase /\ AllowedSoFar' = 2 * PerPhase
    BY <1>3 DEF AllowedSoFar
  <2>2. Left(cascade)' = Left(CascadeOrder)
    BY <1>3
  <2> QED  BY <1>1, <1>2, <1>3, <2>1, <2>2, CascadeListsOnce DEF PhaseEnds, Phases
<1>4. CASE stage # "summary" /\ stage' = "summary" /\ cascade' = CascadeOrder
  <2>1. AllowedSoFar <= 2 * PerPhase /\ AllowedSoFar' = 3 * PerPhase
    BY <1>2, <1>4 DEF AllowedSoFar, Phases
  <2>2. Left(cascade)' = Left(CascadeOrder)
    BY <1>4
  <2>3. AllowedSoFar \in Nat
    BY <1>2 DEF AllowedSoFar
  <2> HIDE DEF AllowedSoFar
  <2> QED  BY <1>1, <1>2, <1>4, <2>1, <2>2, <2>3, CascadeListsOnce DEF PhaseEnds, Phases
<1>5. CASE stage' = "finished" /\ cascade' = <<>>
  <2>1. AllowedSoFar <= 3 * PerPhase /\ AllowedSoFar' = 3 * PerPhase
    BY <1>2, <1>5 DEF AllowedSoFar, Phases
  <2>2. Left(cascade)' = 0 /\ 0 * Budget = 0
    BY <1>5, Costs
  <2>3. /\ cascade' \in Seq(STRING) /\ Once(cascade') /\ Listed(cascade') \subseteq Clis
    BY <1>5 DEF Once, Listed
  <2>4. AllowedSoFar \in Nat
    BY <1>2 DEF AllowedSoFar
  <2> HIDE DEF AllowedSoFar
  <2> QED  BY <1>1, <1>2, <1>5, <2>1, <2>2, <2>3, <2>4 DEF PhaseEnds
<1> QED  BY <1>3, <1>4, <1>5 DEF PhaseEnds

LEMMA PhaseOver ==
  ASSUME WithinBudgets, stage \in Phases, PhaseEnds, UNCHANGED <<age, wall>>, polled' \in BOOLEAN
  PROVE  WithinBudgets'
<1>1. /\ process' = "none" /\ stage' \in Phases \cup {"finished"}
      /\ cascade' \in Seq(STRING) /\ Once(cascade') /\ Listed(cascade') \subseteq Clis
      /\ wall + Left(cascade)' * Budget <= AllowedSoFar'
  BY NextPhaseWithin
<1>2. age' \in Nat /\ wall' \in Nat /\ wall' = wall
  BY DEF WithinBudgets
<1>3. Left(cascade)' * Budget \in Nat
  <2>1. Left(cascade') \in Nat
    BY <1>1, Costs
  <2> QED  BY <2>1, Costs
<1>4. wall' + Left(cascade)' * Budget + (IF process' = "running" THEN Budget - age' ELSE 0) <= AllowedSoFar'
  BY <1>1, <1>2, <1>3
<1> QED  BY <1>1, <1>2, <1>4 DEF WithinBudgets

\* Whatever the CLIs do, each known one has at most its budget and a second in each of the
\* three phases: the cascade lists none twice, and the watchdog looks at least once in a
\* second (runner.rs cascade_order, run_phase, spawn_watched).
THEOREM AttemptsEnd ==
  AttemptSpec => []AttemptBounded
<1>1. AttemptInit => WithinBudgets
  <2> SUFFICES ASSUME AttemptInit PROVE WithinBudgets
    OBVIOUS
  <2>1. PerPhase <= AllowedSoFar
    BY Costs DEF AllowedSoFar
  <2>2. Left(cascade) * Budget <= PerPhase /\ PerPhase \in Nat
    BY Costs DEF AttemptInit
  <2>3. Left(cascade) * Budget \in Nat /\ AllowedSoFar \in Nat
    BY Costs, CascadeListsOnce DEF AttemptInit, AllowedSoFar
  <2>4. wall + Left(cascade) * Budget + (IF process = "running" THEN Budget - age ELSE 0) <= AllowedSoFar
    <3>1. wall = 0 /\ process = "none"
      BY DEF AttemptInit
    <3> HIDE DEF AllowedSoFar
    <3> QED  BY <2>1, <2>2, <2>3, <3>1
  <2>5. /\ age \in Nat /\ wall \in Nat /\ polled \in BOOLEAN /\ process = "none"
        /\ stage \in Phases /\ cascade = CascadeOrder
    BY DEF AttemptInit, Phases
  <2> QED  BY <2>4, <2>5, CascadeListsOnce DEF WithinBudgets
<1>2. WithinBudgets /\ [AttemptNext]_attemptVars => WithinBudgets'
  <2> SUFFICES ASSUME WithinBudgets, [AttemptNext]_attemptVars PROVE WithinBudgets'
    OBVIOUS
  <2> DEFINE cost == Left(cascade) * Budget
  <2>1. /\ Budget \in Nat /\ PerPhase \in Nat /\ AllowedSoFar \in Nat /\ cost \in Nat
        /\ Budget = BudgetHard + 1 /\ BudgetHard \in Nat
    <3>1. Budget = BudgetHard + 1 /\ BudgetHard \in Nat
      BY AttemptAssumption DEF Budget, AttemptAssumption
    <3>2. Left(cascade) \in Nat
      BY Costs DEF WithinBudgets
    <3>3. PerPhase \in Nat
      BY Costs
    <3>4. AllowedSoFar \in Nat
      BY <3>3 DEF AllowedSoFar
    <3>5. cost \in Nat /\ Budget \in Nat
      BY <3>2, Costs
    <3> QED  BY <3>1, <3>3, <3>4, <3>5
  <2>2. CASE Spawn
    <3>1. /\ Tail(cascade) \in Seq(STRING) /\ Once(Tail(cascade)) /\ Listed(Tail(cascade)) \subseteq Clis
          /\ Left(cascade) \in Nat /\ Left(Tail(cascade)) \in Nat
          /\ Left(cascade) = Left(Tail(cascade)) + IF Head(cascade) \in KnownClis THEN 1 ELSE 0
      BY <2>2, TailLeft DEF Spawn, WithinBudgets
    <3> DEFINE rest == Left(Tail(cascade)) * Budget
    <3>2. rest \in Nat /\ (Left(Tail(cascade)) + 1) * Budget = rest + Budget
      BY <3>1, Costs
    <3>3. wall + cost <= AllowedSoFar /\ process = "none" /\ wall \in Nat /\ UNCHANGED wall
      BY <2>1, <2>2 DEF Spawn, WithinBudgets
    <3>4. CASE Head(cascade) \notin KnownClis
      <4>1. cascade' = Tail(cascade) /\ UNCHANGED <<stage, process, age, polled, wall>>
        BY <2>2, <3>4 DEF Spawn
      <4>2. Left(cascade)' * Budget = cost /\ AllowedSoFar' = AllowedSoFar
        BY <3>1, <3>4, <4>1 DEF AllowedSoFar
      <4> HIDE DEF AllowedSoFar
      <4> QED  BY <2>1, <3>1, <3>3, <4>1, <4>2 DEF WithinBudgets
    <3>5. CASE Head(cascade) \in KnownClis /\ process' = "running"
      <4>1. /\ cascade' = Tail(cascade) /\ age' = 0 /\ polled' = FALSE /\ UNCHANGED stage /\ stage \in Phases
        BY <2>2, <3>3, <3>5 DEF Spawn
      <4>2. Left(cascade)' * Budget = rest /\ cost = rest + Budget
        BY <3>1, <3>2, <3>5, <4>1
      <4>3. AllowedSoFar' = AllowedSoFar
        BY <4>1 DEF AllowedSoFar
      <4> HIDE DEF AllowedSoFar, rest, cost
      <4>4. wall' + Left(cascade)' * Budget + (Budget - age') <= AllowedSoFar'
        BY <2>1, <3>2, <3>3, <4>1, <4>2, <4>3
      <4>5. age' \in Nat /\ wall' \in Nat /\ polled' \in BOOLEAN /\ age' <= Budget /\ ~polled'
        <5>1. 0 <= Budget
          BY <2>1
        <5> QED  BY <3>3, <4>1, <5>1
      <4> QED  BY <3>1, <3>5, <4>1, <4>4, <4>5 DEF WithinBudgets
    <3>6. CASE Head(cascade) \in KnownClis /\ process' # "running"
      <4>1. /\ UNCHANGED <<cascade, process, age, polled>> /\ stage' \in {"finished", "refused"}
        BY <2>2, <3>6 DEF Spawn
      <4>2. AllowedSoFar <= AllowedSoFar' /\ AllowedSoFar' \in Nat
        BY <2>1, <4>1 DEF AllowedSoFar
      <4>3. Left(cascade)' = Left(cascade)
        BY <4>1
      <4> HIDE DEF AllowedSoFar
      <4>4. wall' + Left(cascade)' * Budget <= AllowedSoFar'
        BY <2>1, <3>3, <4>2, <4>3
      <4> QED  BY <3>3, <4>1, <4>4, <2>1 DEF WithinBudgets
    <3> QED  BY <3>4, <3>5, <3>6
  <2>3. CASE CascadeEnds
    <3>1. stage \in Phases /\ PhaseEnds /\ UNCHANGED <<age, polled, wall>>
      BY <2>3 DEF CascadeEnds
    <3>2. polled' \in BOOLEAN
      BY <3>1 DEF WithinBudgets
    <3> QED  BY <3>1, <3>2, PhaseOver
  <2>4. CASE AgentWrites
    <3>1. UNCHANGED <<stage, cascade, process, age, polled, wall>>
      BY <2>4 DEF AgentWrites
    <3> QED  BY <3>1 DEF WithinBudgets, AllowedSoFar, Left, Listed, Once
  <2>5. CASE AgentExits
    <3>1. /\ UNCHANGED <<stage, cascade, age, polled, wall>>
          /\ process = "running" /\ process' \in {"rate-limited", "exited"}
      BY <2>5 DEF AgentExits
    <3>2. AllowedSoFar' = AllowedSoFar /\ Left(cascade)' = Left(cascade)
      BY <3>1 DEF AllowedSoFar
    <3> HIDE DEF AllowedSoFar
    <3>3. wall + cost <= AllowedSoFar
      BY <2>1, <3>1 DEF WithinBudgets
    <3> QED  BY <2>1, <3>1, <3>2, <3>3 DEF WithinBudgets
  <2>6. CASE Second
    <3>1. /\ UNCHANGED <<stage, cascade, process>> /\ process = "running" /\ polled
          /\ age' = age + 1 /\ wall' = wall + 1 /\ polled' = FALSE
      BY <2>6 DEF Second
    <3>2. AllowedSoFar' = AllowedSoFar /\ Left(cascade)' = Left(cascade)
      BY <3>1 DEF AllowedSoFar
    <3>3. age \in Nat /\ wall \in Nat /\ age < Budget /\ wall + cost + (Budget - age) <= AllowedSoFar
      BY <3>1 DEF WithinBudgets
    <3> HIDE DEF AllowedSoFar
    <3>4. wall' + cost + (Budget - age') <= AllowedSoFar /\ age' <= Budget /\ age' \in Nat /\ wall' \in Nat
      BY <2>1, <3>1, <3>3
    <3> HIDE DEF cost
    <3> QED  BY <3>1, <3>2, <3>4 DEF WithinBudgets, cost
  <2>7. CASE Poll
    <3>1. /\ process # "none" /\ polled' = TRUE /\ UNCHANGED <<age, wall>> /\ stage \in Phases
      BY <2>7 DEF Poll, WithinBudgets
    <3>2. CASE PhaseEnds
      BY <3>1, <3>2, PhaseOver
    <3>3. CASE ~PhaseEnds
      <4>1. UNCHANGED <<stage, cascade>>
            /\ \/ process = "rate-limited" /\ process' = "none"
               \/ process = "running" /\ process' = process /\ age <= BudgetHard
        BY <2>7, <3>3 DEF Poll, KillChild
      <4>2. AllowedSoFar' = AllowedSoFar /\ Left(cascade)' = Left(cascade)
        BY <4>1 DEF AllowedSoFar
      <4>3. age < Budget \/ process # "running"
        BY <2>1, <4>1 DEF WithinBudgets
      <4> HIDE DEF AllowedSoFar
      <4> QED  BY <2>1, <3>1, <4>1, <4>2, <4>3 DEF WithinBudgets
    <3> QED  BY <3>2, <3>3
  <2>8. CASE UNCHANGED attemptVars
    <3>1. UNCHANGED <<stage, cascade, process, age, polled, wall>>
      BY <2>8 DEF attemptVars
    <3> QED  BY <3>1 DEF WithinBudgets, AllowedSoFar, Left, Listed, Once
  <2> QED  BY <2>2, <2>3, <2>4, <2>5, <2>6, <2>7, <2>8 DEF AttemptNext
<1>3. WithinBudgets => AttemptBounded
  <2> SUFFICES ASSUME WithinBudgets PROVE AttemptBounded
    OBVIOUS
  <2>1. wall <= AllowedSoFar /\ wall \in Nat /\ AllowedSoFar \in Nat
    <3>1. Left(cascade) * Budget \in Nat
      BY Costs DEF WithinBudgets
    <3>2. process = "running" => Budget - age \in Nat
      BY Costs DEF WithinBudgets
    <3>3. AllowedSoFar \in Nat
      BY Costs DEF AllowedSoFar
    <3> HIDE DEF AllowedSoFar
    <3> QED  BY <3>1, <3>2, <3>3 DEF WithinBudgets
  <2>2. AllowedSoFar <= 3 * PerPhase
    BY Costs DEF AllowedSoFar
  <2> DEFINE n == Cardinality(Clis \cap KnownClis)
  <2>3. n \in Nat /\ Budget \in Nat /\ PerPhase \in Nat
    <3>1. IsFiniteSet(Clis \cap KnownClis)
      <4>1. IsFiniteSet(Listed(CloudClis))
        BY AttemptAssumption, ListedFinite DEF AttemptAssumption
      <4>2. IsFiniteSet(Clis)
        BY <4>1, FS_AddElement DEF Clis
      <4> QED  BY <4>2, FS_Subset
    <3> QED  BY <3>1, FS_CardinalityType, Costs
  <2>4. PerPhase = n * Budget
    BY DEF PerPhase
  <2> HIDE DEF n
  <2>5. 3 * PerPhase = 3 * n * Budget
    BY <2>3, <2>4, SMT
  <2>6. wall <= 3 * n * Budget
    BY <2>1, <2>2, <2>3, <2>5
  <2> QED  BY <2>6 DEF AttemptBounded, n, Clis, Listed, Budget
<1> QED  BY <1>1, <1>2, <1>3, PTL DEF AttemptSpec

-----------------------------------------------------------------------------
(* Cycles of the audit.                                                    *)

LEMMA NextCycleIsNew ==
  ASSUME NEW files
  PROVE  /\ LastCycle(files) \in 0 .. MaxCycles
         /\ <<"pending-audit", LastCycle(files) + 1>> \notin DOMAIN files
            \/ LastCycle(files) + 1 \notin 1 .. MaxCycles
<1> DEFINE cycles == {k \in 1 .. MaxCycles : <<"pending-audit", k>> \in DOMAIN files}
<1>1. MaxCycles \in Nat
  BY AuditAssumption DEF AuditAssumption
<1>2. CASE cycles = {}
  BY <1>1, <1>2 DEF LastCycle
<1>3. CASE cycles # {}
  <2>1. \E x \in cycles : \A k \in cycles : k <= x
    <3>1. cycles \subseteq 0 .. MaxCycles
      BY <1>1
    <3> HIDE DEF cycles
    <3> QED  BY <1>1, <1>3, <3>1, GreatestNumber
  <2>2. LastCycle(files) = CHOOSE k \in cycles : \A j \in cycles : j <= k
    BY <1>3 DEF LastCycle
  <2>3. LastCycle(files) \in cycles /\ \A j \in cycles : j <= LastCycle(files)
    <3> HIDE DEF cycles
    <3> QED  BY <2>1, <2>2
  <2> QED  BY <1>1, <2>3
<1> QED  BY <1>2, <1>3

\* A cycle that is open has no verdict.
LEMMA OpenHasNoVerdict ==
  ASSUME NEW files, OpenAudit(files) # 0
  PROVE  /\ <<"audit-result", OpenAudit(files)>> \notin DOMAIN files
         /\ OpenAudit(files) \in 1 .. MaxCycles
<1>1. LastCycle(files) \in 0 .. MaxCycles /\ MaxCycles \in Nat
  BY NextCycleIsNew, AuditAssumption DEF AuditAssumption
<1> QED  BY <1>1 DEF OpenAudit

-----------------------------------------------------------------------------
(* What an audit says.                                                     *)

\* Each side has what it published itself, and the executor has no question that is not
\* published.
SidesKnow ==
    /\ DOMAIN copy = {Auditor, Executor}
    /\ \A k \in 1 .. MaxCycles :
         /\ <<"audit-result", k>> \in DOMAIN published => <<"audit-result", k>> \in DOMAIN copy[Auditor]
         /\ <<"clarification", k>> \in DOMAIN published => <<"clarification", k>> \in DOMAIN copy[Auditor]
         /\ <<"amended", k>> \in DOMAIN published => <<"amended", k>> \in DOMAIN copy[Executor]
         /\ <<"clarification", k>> \in DOMAIN copy[Executor] => <<"clarification", k>> \in DOMAIN published
         /\ <<"amended", k>> \in DOMAIN published => <<"clarification", k>> \in DOMAIN published

\* What main has of the cycles stays as it is.
Kept ==
    \A f \in DOMAIN published : f \in DOMAIN published' /\ published'[f] = published[f]

\* A file of one side, new to it, is published or kept from being.
LEMMA PublishStep ==
  ASSUME SidesKnow, NEW h \in {Auditor, Executor}, NEW name, NEW k \in 1 .. MaxCycles,
         PublishArtifact(h, <<name, k>>),
         <<name, k>> \notin DOMAIN copy[h],
         \/ h = Auditor /\ name \in {"audit-result", "clarification"}
         \/ h = Executor /\ name = "amended" /\ <<"clarification", k>> \in DOMAIN copy[Executor]
  PROVE  SidesKnow' /\ Kept
<1> USE AuditAssumption DEF AuditAssumption
<1>1. <<name, k>> \notin DOMAIN published
  BY DEF SidesKnow
<1>2. /\ copy' = [copy EXCEPT ![h] = AuditPut(copy[h], <<name, k>>, written')]
      /\ published' = published \/ published' = AuditPut(published, <<name, k>>, written')
  BY DEF PublishArtifact
<1>3. /\ DOMAIN copy' = {Auditor, Executor}
      /\ DOMAIN copy'[h] = DOMAIN copy[h] \cup {<<name, k>>}
      /\ \A g \in {Auditor, Executor} : g # h => copy'[g] = copy[g]
  BY <1>2 DEF SidesKnow, AuditPut
<1>4. DOMAIN published' = DOMAIN published \/ DOMAIN published' = DOMAIN published \cup {<<name, k>>}
  BY <1>2 DEF AuditPut
<1>5. Kept
  BY <1>1, <1>2 DEF Kept, AuditPut
<1>6. ASSUME NEW j \in 1 .. MaxCycles
      PROVE  /\ <<"audit-result", j>> \in DOMAIN published' => <<"audit-result", j>> \in DOMAIN copy'[Auditor]
             /\ <<"clarification", j>> \in DOMAIN published' => <<"clarification", j>> \in DOMAIN copy'[Auditor]
             /\ <<"amended", j>> \in DOMAIN published' => <<"amended", j>> \in DOMAIN copy'[Executor]
             /\ <<"clarification", j>> \in DOMAIN copy'[Executor] => <<"clarification", j>> \in DOMAIN published'
             /\ <<"amended", j>> \in DOMAIN published' => <<"clarification", j>> \in DOMAIN published'
  <2>1. ASSUME NEW other
        PROVE  /\ <<other, j>> \in DOMAIN copy'[h] <=>
                     <<other, j>> \in DOMAIN copy[h] \/ (other = name /\ j = k)
               /\ <<other, j>> \in DOMAIN published => <<other, j>> \in DOMAIN published'
               /\ <<other, j>> \in DOMAIN published' =>
                     <<other, j>> \in DOMAIN published \/ (other = name /\ j = k)
    BY <1>3, <1>4
  <2>2. /\ <<"audit-result", j>> \in DOMAIN published => <<"audit-result", j>> \in DOMAIN copy[Auditor]
        /\ <<"clarification", j>> \in DOMAIN published => <<"clarification", j>> \in DOMAIN copy[Auditor]
        /\ <<"amended", j>> \in DOMAIN published => <<"amended", j>> \in DOMAIN copy[Executor]
        /\ <<"clarification", j>> \in DOMAIN copy[Executor] => <<"clarification", j>> \in DOMAIN published
        /\ <<"amended", j>> \in DOMAIN published => <<"clarification", j>> \in DOMAIN published
    BY DEF SidesKnow
  <2>3. CASE h = Auditor /\ name \in {"audit-result", "clarification"}
    <3>1. copy'[Executor] = copy[Executor] /\ name # "amended"
      BY <1>3, <2>3
    <3> QED  BY <2>1, <2>2, <2>3, <3>1
  <2>4. CASE h = Executor /\ name = "amended" /\ <<"clarification", k>> \in DOMAIN copy[Executor]
    <3>1. copy'[Auditor] = copy[Auditor] /\ <<"clarification", k>> \in DOMAIN published
      BY <1>3, <2>4 DEF SidesKnow
    <3>2. "audit-result" # name /\ "clarification" # name
      BY <2>4
    <3> QED  BY <2>1, <2>2, <2>4, <3>1, <3>2
  <2> QED  BY <2>3, <2>4
<1> QED  BY <1>3, <1>5, <1>6 DEF SidesKnow

LEMMA SubmitStep ==
  ASSUME SidesKnow, Submit
  PROVE  SidesKnow' /\ Kept
<1> DEFINE last == LastCycle(published)
<1>1. /\ published' = AuditPut(published, <<"pending-audit", last + 1>>, written')
      /\ UNCHANGED copy
      /\ last < MaxCycles
  BY DEF Submit
<1>2. last \in 0 .. MaxCycles /\ MaxCycles \in Nat
  BY NextCycleIsNew, AuditAssumption DEF AuditAssumption
<1>3. <<"pending-audit", last + 1>> \notin DOMAIN published
  BY <1>1, <1>2, NextCycleIsNew
<1>4. DOMAIN published' = DOMAIN published \cup {<<"pending-audit", last + 1>>}
  BY <1>1 DEF AuditPut
<1>5. Kept
  BY <1>1, <1>3 DEF Kept, AuditPut
<1>6. SidesKnow'
  BY <1>1, <1>4 DEF SidesKnow
<1> QED  BY <1>5, <1>6

LEMMA PullStep ==
  ASSUME SidesKnow, NEW h \in {Auditor, Executor}, PullAudit(h)
  PROVE  SidesKnow' /\ Kept
<1> USE AuditAssumption DEF AuditAssumption
<1>1. /\ copy' = [copy EXCEPT ![h] = AuditOver(published, copy[h])]
      /\ UNCHANGED published
  BY DEF PullAudit
<1>2. /\ DOMAIN copy' = {Auditor, Executor}
      /\ DOMAIN copy'[h] = DOMAIN copy[h] \cup DOMAIN published
      /\ \A g \in {Auditor, Executor} : g # h => copy'[g] = copy[g]
  BY <1>1 DEF SidesKnow, AuditOver
<1>3. Kept
  BY <1>1 DEF Kept
<1>4. SidesKnow'
  BY <1>1, <1>2 DEF SidesKnow
<1> QED  BY <1>3, <1>4

LEMMA CycleStep ==
  ASSUME SidesKnow, [AuditNext]_auditVars
  PROVE  SidesKnow' /\ Kept
<1>1. CASE Submit
  BY <1>1, SubmitStep
<1>2. CASE GiveVerdict \/ Expire
  <2> DEFINE k == OpenAudit(copy[Auditor])
  <2>1. k # 0 /\ PublishArtifact(Auditor, <<"audit-result", k>>)
    BY <1>2 DEF GiveVerdict, Expire
  <2>2. <<"audit-result", k>> \notin DOMAIN copy[Auditor] /\ k \in 1 .. MaxCycles
    BY <2>1, OpenHasNoVerdict
  <2> HIDE DEF k
  <2> QED  BY <2>1, <2>2, PublishStep
<1>3. CASE Clarify
  <2> DEFINE k == OpenAudit(copy[Auditor])
  <2>1. /\ k # 0 /\ PublishArtifact(Auditor, <<"clarification", k>>)
        /\ <<"clarification", k>> \notin DOMAIN copy[Auditor]
    BY <1>3 DEF Clarify
  <2>2. k \in 1 .. MaxCycles
    BY <2>1, OpenHasNoVerdict
  <2> HIDE DEF k
  <2> QED  BY <2>1, <2>2, PublishStep
<1>4. CASE AmendAudit
  <2> DEFINE k == OpenAudit(copy[Executor])
  <2>1. /\ k # 0 /\ PublishArtifact(Executor, <<"amended", k>>)
        /\ <<"clarification", k>> \in DOMAIN copy[Executor]
        /\ <<"amended", k>> \notin DOMAIN copy[Executor]
    BY <1>4 DEF AmendAudit
  <2>2. k \in 1 .. MaxCycles
    BY <2>1, OpenHasNoVerdict
  <2> HIDE DEF k
  <2> QED  BY <2>1, <2>2, PublishStep
<1>5. CASE \E h \in {Auditor, Executor} : PullAudit(h)
  BY <1>5, PullStep
<1>6. CASE UNCHANGED auditVars
  BY <1>6 DEF auditVars, SidesKnow, Kept
<1> QED  BY <1>1, <1>2, <1>3, <1>4, <1>5, <1>6 DEF AuditNext, AuditCommand

\* One verdict, one question and one answer in each cycle, and no answer without its
\* question, although each side decides by its own checkout and repeats what could not be
\* published (audit.rs open_audit, clarification, amend).
THEOREM CyclesGrow ==
  AuditSpec => CycleGrows
<1> DEFINE Grows == /\ \A f \in DOMAIN published : f \in DOMAIN published' /\ published'[f] = published[f]
                    /\ \A k \in 1 .. MaxCycles :
                         <<"amended", k>> \in DOMAIN published' =>
                             <<"clarification", k>> \in DOMAIN published'
<1>1. AuditInit => SidesKnow
  BY AuditAssumption DEF AuditAssumption, AuditInit, SidesKnow
<1>2. SidesKnow /\ [AuditNext]_auditVars => SidesKnow' /\ [Grows]_auditVars
  <2> SUFFICES ASSUME SidesKnow, [AuditNext]_auditVars PROVE SidesKnow' /\ Grows
    OBVIOUS
  <2>1. SidesKnow' /\ Kept
    BY CycleStep
  <2> QED  BY <2>1 DEF SidesKnow, Kept
<1> QED  BY <1>1, <1>2, PTL DEF AuditSpec, CycleGrows

-----------------------------------------------------------------------------
(* Worktrees.                                                              *)

WorktreesSpec == WorktreesInit /\ [][WorktreesNext]_worktreesVars

\* No branch goes without the worktree that was on it, and no edits of a developer without
\* --force: the branch is deleted under the name of the worktree, so it has to be the one
\* it is still on (worktree.rs remove_dev_worktree, remove_run_worktree, prune).
THEOREM OwnWorktreesOnly ==
  WorktreesSpec => OnlyOwnRemoved
<1> DEFINE gone == DOMAIN entries \ DOMAIN entries'
           WithWorktree == \A b \in branches \ branches' : \E w \in gone : entries[w].branch = b
           OwnAndForced == \A w \in DevNames \cap gone :
                             entries[w].there => /\ entries[w].branch = w
                                                 /\ entries[w].edited => mtCommand'[1] = "remove --force"
<1>1. ASSUME WorktreesNext  PROVE WithWorktree /\ OwnAndForced
  <2>1. CASE Prune
    <3>1. branches' = branches /\ \A w \in gone : ~entries[w].there
      BY <2>1 DEF Prune
    <3> QED  BY <3>1
  <2>2. ASSUME NEW name \in DevNames, CreateDev(name)  PROVE WithWorktree /\ OwnAndForced
    <3>1. branches \subseteq branches' /\ gone = {}
      BY <2>2 DEF CreateDev, AddWorktree
    <3> QED  BY <3>1
  <2>3. ASSUME NEW name \in DevNames, NEW force \in BOOLEAN, RemoveDev(name, force)
        PROVE  WithWorktree /\ OwnAndForced
    <3>1. /\ gone = {name} /\ branches \ branches' \subseteq {name}
          /\ entries[name].branch = name
          /\ entries[name].there /\ entries[name].edited => force
      BY <2>3 DEF RemoveDev, Belongs, WithoutEntry
    <3>2. force => mtCommand'[1] = "remove --force"
      BY <2>3 DEF RemoveDev
    <3> QED  BY <3>1, <3>2
  <2>4. ASSUME NEW name \in RunNames, CreateRun(name) \/ RemoveRun(name)
        PROVE  WithWorktree /\ OwnAndForced
    <3>1. branches' = branches /\ gone \subseteq {name}
      BY <2>4 DEF CreateRun, AddWorktree, RemoveRun, WithoutEntry
    <3>2. DevNames \cap gone = {}
      BY <2>4, <3>1, WorktreesAssumption DEF WorktreesAssumption
    <3> QED  BY <3>1, <3>2
  <2>5. ASSUME NEW name \in DevNames \cup RunNames, Person(name)
        PROVE  WithWorktree /\ OwnAndForced
    <3>1. branches' = branches /\ gone = {}
      BY <2>5 DEF Person
    <3> QED  BY <3>1
  <2> QED  BY <1>1, <2>1, <2>2, <2>3, <2>4, <2>5 DEF WorktreesNext
<1>2. [WorktreesNext]_worktreesVars => [WithWorktree /\ OwnAndForced]_worktreesVars
  BY <1>1
<1> QED  BY <1>2, PTL DEF WorktreesSpec, OnlyOwnRemoved

-----------------------------------------------------------------------------
(* What skills allow.                                                      *)

SandboxSpec == SandboxInit /\ [][SandboxNext]_sandboxVars

\* The profiles are those the host started with.
ProfilesOfSkills == profiles \in UNION {[names -> Profile] : names \in SUBSET Skills}

\* Declaring more skills, or others than the project knows, never gives a node more than all
\* profiles together give (sandbox.rs policy_for, policy_for_node, host_ceiling).
THEOREM CeilingHolds ==
  SandboxSpec => []PolicyWithinCeiling
<1>1. SandboxInit => ProfilesOfSkills
  BY DEF SandboxInit, ProfilesOfSkills
<1>2. ProfilesOfSkills /\ [SandboxNext]_sandboxVars => ProfilesOfSkills'
  BY DEF ProfilesOfSkills, SandboxNext, Declare, sandboxVars
<1>3. ProfilesOfSkills => PolicyWithinCeiling
  <2> SUFFICES ASSUME ProfilesOfSkills PROVE PolicyWithinCeiling
    OBVIOUS
  <2>1. ASSUME NEW skills, NEW policy, policy = PolicyFor(skills)
        PROVE  /\ \A p \in Programs : Allowed(policy, p) => Allowed(HostCeiling, p)
               /\ NetworkAllowed(policy) => NetworkAllowed(HostCeiling)
    <3>1. CASE ~configured
      BY <2>1, <3>1 DEF PolicyFor, HostCeiling, Permissive, Allowed, NetworkAllowed
    <3>2. CASE configured
      BY <2>1, <3>2 DEF PolicyFor, HostCeiling, ProfilesUnion, Allowed, NetworkAllowed
    <3> QED  BY <3>1, <3>2
  <2>2. \A policy \in {PolicyForNode, PolicyOfRun} : \E skills : policy = PolicyFor(skills)
    BY DEF PolicyForNode, PolicyOfRun, HostCeiling
  <2> QED  BY <2>1, <2>2 DEF PolicyWithinCeiling
<1> QED  BY <1>1, <1>2, <1>3, PTL DEF SandboxSpec

-----------------------------------------------------------------------------
(* Mandates.                                                               *)

MandatesSpec == MandatesInit /\ [][MandatesNext]_mandatesVars

-----------------------------------------------------------------------------
(* Mandates of one file.                                                   *)

LEMMA OfOwner ==
  ASSUME NEW ms, NEW o \in OwnersOf(ms)
  PROVE  Of(ms, o) \in ms /\ Of(ms, o).owner = o
BY DEF OwnersOf, Of

\* What the comparison of grants overlooks, lookup does not grant either: patterns, types
\* and thresholds that are not wider cover no further decision (change.rs, lookup.rs).
LEMMA NotWider ==
  ASSUME MandatesAssumption, NEW kind, NEW old \in Grants, NEW new \in Grants,
         ~Wider(kind, old, new)
  PROVE  Authority(new) \subseteq Authority(old)
<1> SUFFICES ASSUME NEW ref \in NodeRefs, NEW type \in DecisionTypes, NEW f \in Facets,
                    Covers(new, ref, type, f)
             PROVE  Covers(old, ref, type, f)
  BY DEF Authority
<1>1. AnyType \in old.types \/ type \in old.types
  BY DEF Wider, TypesWidened, Covers
<1>2. \E p \in old.refs : <<p, ref>> \in Matches
  BY DEF Wider, Covers
<1>3. /\ \A a \in Axes : old.caps[a] \in Levels \cup {NoCap} /\ new.caps[a] \in Levels \cup {NoCap}
      /\ Levels \subseteq Nat /\ NoCap \notin Levels
  BY DEF MandatesAssumption
<1>4. \A a \in Axes : f[a] \in Levels \cup {NoCap}
  BY DEF Axes, Facets
<1>5. ASSUME NEW a \in Axes, old.caps[a] # NoCap, f[a] # NoCap  PROVE f[a] <= old.caps[a]
  <2>1. ~CapRaised(old.caps[a], new.caps[a])
    BY DEF Wider
  <2>2. new.caps[a] # NoCap /\ ~(new.caps[a] > old.caps[a])
    BY <1>5, <2>1 DEF CapRaised
  <2>3. f[a] <= new.caps[a]
    BY <1>5, <2>2 DEF Covers, FitsThresholds
  <2>4. f[a] \in Nat /\ new.caps[a] \in Nat /\ old.caps[a] \in Nat
    BY <1>3, <1>4, <1>5, <2>2
  <2>5. \A x, y, z \in Nat : x <= y /\ ~(y > z) => x <= z
    OBVIOUS
  <2> QED  BY <2>2, <2>3, <2>4, <2>5
<1>6. f.irreversible => old.irreversible
  BY DEF Wider, Covers, FitsThresholds, MandatesAssumption
<1> QED  BY <1>1, <1>2, <1>5, <1>6 DEF Covers, FitsThresholds

-----------------------------------------------------------------------------
(* The maps in force.                                                      *)

\* Every map in force is a file that parse.rs accepts.
MapInForce == IsFiniteSet(mandates) /\ mandates \subseteq Mandate /\ Valid(generation, mandates)

LEMMA FirstMap == MandatesInit => MapInForce
BY FirstMapsAssumption DEF MandatesInit, MapInForce

\* An act writes records of the file, finitely many.
LEMMA ProposalTypes ==
  ASSUME NEW ms, IsFiniteSet(ms), ms \subseteq Mandate, NEW new \in Proposals(ms)
  PROVE  IsFiniteSet(new) /\ new \subseteq Mandate
<1> DEFINE Good(x) == IsFiniteSet(x) /\ x \subseteq Mandate
<1>1. ASSUME NEW x, Good(x), NEW o  PROVE Good(Without(x, o))
  <2>1. Without(x, o) \subseteq x
    BY DEF Without
  <2> QED  BY <1>1, <2>1, FS_Subset
<1>2. ASSUME NEW x, Good(x), NEW m \in Mandate  PROVE Good(x \cup {m})
  BY <1>2, FS_AddElement
<1>3. PICK o \in Owners, p \in Owners : \E r \in Rewrites(ms, o) : new \in Moves(r, p)
  BY DEF Proposals
<1>4. PICK r \in Rewrites(ms, o) : new \in Moves(r, p)
  BY <1>3
<1>5. Good(r)
  <2>1. Good(Without(ms, o))
    BY <1>1
  <2>2. r = Without(ms, o) \/ \E m \in Mandate : r = Without(ms, o) \cup {m}
    BY <1>4 DEF Rewrites
  <2> HIDE DEF Good
  <2> QED  BY <1>2, <2>1, <2>2
<1>6. Good(new)
  <2>1. Good(Without(r, p))
    BY <1>1, <1>5
  <2>2. CASE new = Without(r, p)
    BY <2>1, <2>2
  <2>3. ASSUME NEW t \in Owners \cup {NoOne},
               new = Without(r, p) \cup {[m EXCEPT !.to = t] : m \in {n \in r : n.owner = p}}
        PROVE  Good(new)
    <3> DEFINE own == {n \in r : n.owner = p}
               moved == {[m EXCEPT !.to = t] : m \in own}
    <3>1. IsFiniteSet(own) /\ own \subseteq Mandate
      BY <1>5, FS_Subset
    <3>2. IsFiniteSet(moved)
      <4> DEFINE f == [m \in own |-> [m EXCEPT !.to = t]]
      <4> HIDE DEF own
      <4>1. f \in Surjection(own, moved)
        BY DEF Surjection
      <4> HIDE DEF f, moved
      <4> QED  BY <3>1, <4>1, FS_Surjection
    <3>3. moved \subseteq Mandate
      BY <3>1 DEF Mandate
    <3>4. new = Without(r, p) \cup moved
      BY <2>3
    <3> HIDE DEF own, moved
    <3> QED  BY <2>1, <3>2, <3>3, <3>4, FS_Union
  <2> QED  BY <1>4, <2>2, <2>3 DEF Moves
<1> QED  BY <1>6

LEMMA NextMap ==
  ASSUME MapInForce, [MandatesNext]_mandatesVars
  PROVE  MapInForce'
<1>1. CASE UNCHANGED mandatesVars
  BY <1>1 DEF mandatesVars, MapInForce
<1>2. CASE MandatesNext
  <2>1. PICK new \in Proposals(mandates), by \in SUBSET Owners : Amend(new, by)
    BY <1>2 DEF MandatesNext
  <2>2. Valid(generation', new) /\ mandates' = new
    BY <2>1 DEF Amend, ChangeAccepted
  <2>3. IsFiniteSet(new) /\ new \subseteq Mandate
    BY <2>1, ProposalTypes DEF MapInForce
  <2> QED  BY <2>2, <2>3 DEF MapInForce
<1> QED  BY <1>1, <1>2

-----------------------------------------------------------------------------
(* Growth.                                                                 *)

\* No owner can decide anything new unless the delegator above has signed, and for a model
\* a human too: the comparison that asks for the signatures is by patterns, types and
\* thresholds, the decisions by matching refs and facets (change.rs classify, lookup.rs).
THEOREM GrowthIsSigned ==
  MandatesSpec => GrowthSigned
<1> DEFINE Grown(o) ==
      LET m == Of(mandates, o)
          n == Of(mandates', o)
      IN  /\ m.kind = n.kind /\ m.to = n.to /\ m.grant # n.grant
          /\ ~(Authority(n.grant) \subseteq Authority(m.grant))
          => /\ m.to \in signed'
             /\ m.kind = "model" => signed' \cap HumanKeys # {}
<1>1. ASSUME MapInForce, MandatesNext, NEW o \in OwnersOf(mandates) \cap OwnersOf(mandates')
      PROVE  Grown(o)
  <2>1. PICK new \in Proposals(mandates), by \in SUBSET Owners : Amend(new, by)
    BY <1>1 DEF MandatesNext
  <2>2. mandates' = new /\ signed' = by /\ SignedFor(mandates, new, o, by)
    BY <2>1 DEF Amend, ChangeAccepted
  <2>3. MapInForce'
    BY <1>1, NextMap
  <2> DEFINE m == Of(mandates, o)
             n == Of(new, o)
  <2>4. m \in Mandate /\ n \in Mandate
    BY <1>1, <2>2, <2>3, OfOwner DEF MapInForce
  <2>5. m.grant \in Grants /\ n.grant \in Grants
    BY <2>4 DEF Mandate
  <2>6. ASSUME m.kind = n.kind, m.to = n.to, ~(Authority(n.grant) \subseteq Authority(m.grant))
        PROVE  /\ m.to \in by
               /\ m.kind = "model" => by \cap HumanKeys # {}
    <3>1. Wider(m.kind, m.grant, n.grant)
      BY <2>5, <2>6, MandatesAssumption, NotWider
    <3>2. Change(mandates, new, o) = "Widened"
      BY <1>1, <2>2, <2>6, <3>1 DEF Change
    <3>3. Delegated(mandates, new, o, by)
      BY <2>2, <3>2 DEF SignedFor
    <3> QED  BY <1>1, <3>3 DEF Delegated, Reference
  <2> QED  BY <2>2, <2>6
<1>2. MapInForce /\ [MandatesNext]_mandatesVars
        => [\A o \in OwnersOf(mandates) \cap OwnersOf(mandates') : Grown(o)]_mandatesVars
  BY <1>1
<1>3. MapInForce /\ [MandatesNext]_mandatesVars => MapInForce'
  BY NextMap
<1> QED  BY <1>2, <1>3, FirstMap, PTL DEF MandatesSpec, GrowthSigned

-----------------------------------------------------------------------------
(* The root.                                                               *)

LEMMA OneRoot ==
  ASSUME NEW g, NEW ms, IsFiniteSet(ms), Valid(g, ms)
  PROVE  \E m \in ms : Roots(ms) = {m} /\ m.to = NoOne
<1>1. Roots(ms) \subseteq ms /\ Cardinality(Roots(ms)) = 1
  BY DEF Roots, Valid
<1>2. IsFiniteSet(Roots(ms))
  BY <1>1, FS_Subset
<1>3. PICK m : Roots(ms) = {m}
  BY <1>1, <1>2, FS_Singleton
<1> QED  BY <1>1, <1>3 DEF Roots

\* Whoever stops being the root has signed: removed, it had to; re-addressed, there is no
\* delegator to release it; and another root beside it is no valid file (change.rs rules,
\* parse.rs validate).
THEOREM RootsConsent ==
  MandatesSpec => RootConsents
<1> DEFINE Unseated ==
      LET root(ms) == OwnersOf(Roots(ms))
      IN  root(mandates') # root(mandates) => root(mandates) \subseteq signed'
<1>1. ASSUME MapInForce, MandatesNext  PROVE Unseated
  <2>1. PICK new \in Proposals(mandates), by \in SUBSET Owners : Amend(new, by)
    BY <1>1 DEF MandatesNext
  <2>2. mandates' = new /\ signed' = by /\ MapInForce'
    BY <1>1, <2>1, NextMap DEF Amend
  <2>3. PICK m \in mandates : Roots(mandates) = {m} /\ m.to = NoOne
    BY <1>1, OneRoot DEF MapInForce
  <2>4. PICK n \in new : Roots(new) = {n} /\ n.to = NoOne
    BY <2>2, OneRoot DEF MapInForce
  <2> DEFINE o == m.owner
  <2>5. /\ OwnersOf(Roots(mandates)) = {o} /\ OwnersOf(Roots(new)) = {n.owner}
        /\ o \in OwnersOf(mandates)
    BY <2>3, <2>4 DEF OwnersOf
  <2>6. Of(mandates, o) = m
    <3>1. Of(mandates, o) \in mandates /\ Of(mandates, o).owner = o
      BY <2>5, OfOwner
    <3> QED  BY <1>1, <3>1 DEF MapInForce, Valid
  <2>7. SignedFor(mandates, new, o, by)
    BY <2>1, <2>5 DEF Amend, ChangeAccepted
  <2>8. ASSUME n.owner # o  PROVE o \in by
    <3>1. CASE o \notin OwnersOf(new)
      <4>1. Change(mandates, new, o) = "Removed"
        BY <2>5, <3>1 DEF Change
      <4> QED  BY <2>7, <4>1 DEF SignedFor
    <3>2. CASE o \in OwnersOf(new)
      <4> DEFINE k == Of(new, o)
      <4>1. k \in new /\ k.owner = o
        BY <3>2, OfOwner
      <4>2. k.to # NoOne
        BY <2>4, <2>8, <4>1 DEF Roots
      <4>3. CASE m.kind # k.kind
        <5>1. Change(mandates, new, o) = "KindChanged"
          BY <2>5, <2>6, <3>2, <4>3 DEF Change
        <5> QED  BY <2>7, <5>1 DEF SignedFor
      <4>4. CASE m.kind = k.kind
        <5>1. Change(mandates, new, o) = "EscalatesToChanged"
          BY <2>3, <2>5, <2>6, <3>2, <4>2, <4>4 DEF Change
        <5>2. NoOne \in by
          BY <2>3, <2>6, <2>7, <5>1 DEF SignedFor, Readdressed
        <5> QED  BY <2>1, <5>2, MandatesAssumption DEF MandatesAssumption
      <4> QED  BY <4>3, <4>4
    <3> QED  BY <3>1, <3>2
  <2> HIDE DEF o
  <2> QED  BY <2>2, <2>5, <2>8
<1>2. MapInForce /\ [MandatesNext]_mandatesVars => [Unseated]_mandatesVars
  BY <1>1
<1>3. MapInForce /\ [MandatesNext]_mandatesVars => MapInForce'
  BY NextMap
<1> QED  BY <1>2, <1>3, FirstMap, PTL DEF MandatesSpec, RootConsents

-----------------------------------------------------------------------------
(* Escalation.                                                             *)

\* One step up.
Above(ms, o) == IF o \notin OwnersOf(ms) \/ Of(ms, o).to = NoOne THEN o ELSE Of(ms, o).to


LEMMA WalkGoesUp ==
  ASSUME NEW ms, IsFiniteSet(ms), ms \subseteq Mandate, NEW o \in Owners
  PROVE  LET steps == Cardinality(ms) + 1
         IN  /\ steps \in Nat
             /\ Walk(ms, o) \in [0 .. steps -> Owners]
             /\ Walk(ms, o)[0] = o
             /\ \A s \in 0 .. steps : s # 0 => Walk(ms, o)[s] = Above(ms, Walk(ms, o)[s - 1])
<1> DEFINE steps == Cardinality(ms) + 1
           F == [x \in Owners |-> Above(ms, x)]
           Up(up) == [s \in 0 .. steps |->
                        IF s = 0 THEN o
                        ELSE IF up[s - 1] \notin OwnersOf(ms) \/ Of(ms, up[s - 1]).to = NoOne
                             THEN up[s - 1]
                             ELSE Of(ms, up[s - 1]).to]
<1>1. steps \in Nat
  BY FS_CardinalityType
<1>2. F \in [Owners -> Owners]
  <2> SUFFICES ASSUME NEW x \in Owners  PROVE Above(ms, x) \in Owners
    OBVIOUS
  <2> QED  BY OfOwner DEF Above, Mandate
<1> HIDE DEF steps
<1>3. PICK f \in [Nat -> Owners] : Iterated(F, o, f)
  BY <1>2, Iteration
<1>4. \E up : up = Up(up)
  <2> DEFINE up == [s \in 0 .. steps |-> f[s]]
  <2>1. ASSUME NEW s \in 0 .. steps  PROVE up[s] = Up(up)[s]
    <3>1. CASE s = 0
      BY <1>3, <3>1 DEF Iterated
    <3>2. CASE s # 0
      <4>1. s - 1 \in Nat /\ s - 1 \in 0 .. steps /\ s = (s - 1) + 1
        BY <1>1, <3>2
      <4>2. f[s] = F[f[s - 1]]
        BY <1>3, <4>1 DEF Iterated
      <4>3. f[s] = Above(ms, f[s - 1])
        BY <4>1, <4>2
      <4> QED  BY <3>2, <4>1, <4>3 DEF Above
    <3> QED  BY <3>1, <3>2
  <2>2. up = Up(up)
    BY <2>1
  <2> HIDE DEF up, Up
  <2> QED  BY <2>2
<1>5. Walk(ms, o) = CHOOSE up : up = Up(up)
  BY DEF Walk, steps
<1> DEFINE w == Walk(ms, o)
<1>6. w = Up(w)
  <2> HIDE DEF Up
  <2> QED  BY <1>4, <1>5
<1>7. /\ w[0] = o
      /\ \A s \in 0 .. steps : s # 0 => w[s] = Above(ms, w[s - 1])
  <2>1. 0 \in 0 .. steps
    BY <1>1
  <2>2. \A s \in 0 .. steps : w[s] = Up(w)[s]
    <3> HIDE DEF w, Up
    <3> QED  BY <1>6
  <2> HIDE DEF w
  <2> QED  BY <2>1, <2>2 DEF Above
<1>8. w \in [0 .. steps -> Owners]
  <2> DEFINE In == {s \in Nat : s <= steps => w[s] \in Owners}
  <2>1. 0 \in In
    BY <1>7
  <2>2. ASSUME NEW s \in Nat, s \in In  PROVE s + 1 \in In
    <3> SUFFICES ASSUME s + 1 <= steps PROVE w[s + 1] \in Owners
      OBVIOUS
    <3>1. s + 1 \in 0 .. steps /\ s + 1 # 0 /\ (s + 1) - 1 = s /\ s <= steps
      BY <1>1
    <3>2. w[s + 1] = Above(ms, w[s]) /\ w[s] \in Owners
      <4> HIDE DEF w
      <4> QED  BY <1>7, <2>2, <3>1
    <3>3. F[w[s]] \in Owners /\ F[w[s]] = Above(ms, w[s])
      <4> HIDE DEF w
      <4> QED  BY <1>2, <3>2
    <3> QED  BY <3>2, <3>3
  <2>3. \A s \in 0 .. steps : w[s] \in Owners
    <3>1. Nat \subseteq In
      <4> HIDE DEF In
      <4> QED  BY <2>1, <2>2, AllNumbers
    <3> QED  BY <1>1, <3>1
  <2>4. w = [s \in 0 .. steps |-> w[s]]
    <3> HIDE DEF w
    <3> QED  BY <1>6
  <2> HIDE DEF w
  <2> QED  BY <2>3, <2>4
<1> QED  BY <1>1, <1>7, <1>8 DEF steps

\* A root leads to itself.
LEMMA RootStays ==
  ASSUME NEW g, NEW ms, Valid(g, ms), NEW o \in OwnersOf(Roots(ms))
  PROVE  o \in OwnersOf(ms) /\ Of(ms, o).to = NoOne /\ Above(ms, o) = o
<1>1. PICK m \in Roots(ms) : m.owner = o
  BY DEF OwnersOf
<1>2. m \in ms /\ m.to = NoOne
  BY DEF Roots
<1>3. o \in OwnersOf(ms)
  BY <1>1, <1>2 DEF OwnersOf
<1>4. Of(ms, o) \in ms /\ Of(ms, o).owner = o
  BY <1>3, OfOwner
<1>5. Of(ms, o) = m
  BY <1>1, <1>2, <1>4 DEF Valid
<1> QED  BY <1>2, <1>3, <1>5 DEF Above

\* From every owner of a valid file the chain leads through mandates to the root, once each.
Escalates(ms, o) ==
    LET c == EscalationChain(ms, o)
    IN  /\ Of(ms, c[Len(c)]).to = NoOne
        /\ \A i, j \in DOMAIN c : c[i] = c[j] => i = j
        /\ \A i \in DOMAIN c : c[i] \in OwnersOf(ms)

LEMMA ChainsEscalate ==
  ASSUME NEW g, NEW ms, IsFiniteSet(ms), ms \subseteq Mandate, Valid(g, ms),
         NEW o \in OwnersOf(ms)
  PROVE  Escalates(ms, o)
<1> DEFINE w == Walk(ms, o)
           steps == Cardinality(ms) + 1
           R == OwnersOf(Roots(ms))
<1>1. o \in Owners
  BY DEF OwnersOf, Mandate
<1>2. /\ steps \in Nat
      /\ w \in [0 .. steps -> Owners]
      /\ w[0] = o
      /\ \A s \in 0 .. steps : s # 0 => w[s] = Above(ms, w[s - 1])
  BY <1>1, WalkGoesUp
<1>3. \E s \in 0 .. steps : w[s] \in R
  BY DEF Valid, ReachesRoot
<1>4. EscalationChain(ms, o) =
        LET last == CHOOSE s \in 0 .. steps : /\ s = steps \/ w[s + 1] = w[s]
                                              /\ \A t \in 0 .. (s - 1) : w[t + 1] # w[t]
        IN  [i \in 1 .. (last + 1) |-> w[i - 1]]
  BY DEF EscalationChain
<1> HIDE DEF w, steps
<1>5. \A s \in 0 .. steps : s < steps => w[s + 1] = Above(ms, w[s])
  <2> SUFFICES ASSUME NEW s \in 0 .. steps, s < steps  PROVE w[s + 1] = Above(ms, w[s])
    OBVIOUS
  <2>1. s + 1 \in 0 .. steps /\ s + 1 # 0 /\ (s + 1) - 1 = s
    BY <1>2
  <2> QED  BY <1>2, <2>1
<1>6. PICK r \in 0 .. steps : w[r] \in R /\ \A s \in 0 .. steps : w[s] \in R => r <= s
  <2> DEFINE T == {s \in 0 .. steps : w[s] \in R}
  <2>1. T \subseteq Nat /\ T # {}
    BY <1>2, <1>3
  <2>2. PICK r \in T : \A s \in T : r <= s
    <3> HIDE DEF T
    <3> QED  BY <2>1, LeastNumber
  <2> QED  BY <2>2
<1>7. /\ \A x \in R : x \in OwnersOf(ms) /\ Of(ms, x).to = NoOne /\ Above(ms, x) = x
  BY RootStays
<1> HIDE DEF R
<1>8. ASSUME NEW s \in 0 .. steps, Above(ms, w[s]) = w[s]
      PROVE  \A t \in s .. steps : w[t] = w[s]
  <2> DEFINE Same == {k \in Nat : s + k <= steps => w[s + k] = w[s]}
  <2>1. 0 \in Same
    OBVIOUS
  <2>2. ASSUME NEW k \in Nat, k \in Same  PROVE k + 1 \in Same
    <3> SUFFICES ASSUME s + (k + 1) <= steps PROVE w[s + (k + 1)] = w[s]
      OBVIOUS
    <3>1. s + k \in 0 .. steps /\ s + k < steps /\ s + (k + 1) = (s + k) + 1
      BY <1>2
    <3>2. w[(s + k) + 1] = Above(ms, w[s + k])
      BY <1>5, <3>1
    <3> QED  BY <1>8, <2>2, <3>1, <3>2
  <2>3. Nat \subseteq Same
    <3> HIDE DEF Same
    <3> QED  BY <2>1, <2>2, AllNumbers
  <2>4. ASSUME NEW t \in s .. steps  PROVE w[t] = w[s]
    <3>1. t - s \in Nat /\ s + (t - s) = t /\ t <= steps
      BY <1>2
    <3> QED  BY <2>3, <3>1
  <2> QED  BY <2>4
<1>9. ASSUME NEW s \in 0 .. steps, s < r  PROVE w[s + 1] # w[s]
  <2> SUFFICES ASSUME w[s + 1] = w[s] PROVE FALSE
    OBVIOUS
  <2>1. s < steps /\ r \in s .. steps
    BY <1>2, <1>9
  <2>2. w[r] = w[s]
    BY <1>5, <1>8, <2>1
  <2> QED  BY <1>2, <1>6, <1>9, <2>2
<1>10. r = steps \/ w[r + 1] = w[r]
  <2> SUFFICES ASSUME r # steps PROVE w[r + 1] = w[r]
    OBVIOUS
  <2>1. r < steps
    BY <1>2
  <2> QED  BY <1>5, <1>6, <1>7, <2>1
<1> DEFINE LastStep(s) == /\ s = steps \/ w[s + 1] = w[s]
                          /\ \A t \in 0 .. (s - 1) : w[t + 1] # w[t]
<1>11. LastStep(r)
  <2>1. \A t \in 0 .. (r - 1) : t \in 0 .. steps /\ t < r
    BY <1>2
  <2> QED  BY <1>9, <1>10, <2>1
<1>12. ASSUME NEW s \in 0 .. steps, LastStep(s)  PROVE s = r
  <2>1. CASE s < r
    BY <1>2, <1>9, <1>12, <2>1
  <2>2. CASE r < s
    <3>1. r \in 0 .. (s - 1) /\ r # steps
      BY <1>2, <2>2
    <3> QED  BY <1>10, <1>12, <3>1
  <2> QED  BY <1>2, <2>1, <2>2
<1>13. (CHOOSE s \in 0 .. steps : LastStep(s)) = r
  <2> HIDE DEF LastStep
  <2> QED  BY <1>11, <1>12
<1> DEFINE c == EscalationChain(ms, o)
<1>14. c = [i \in 1 .. (r + 1) |-> w[i - 1]]
  BY <1>4, <1>13
<1>15. DOMAIN c = 1 .. (r + 1) /\ Len(c) = r + 1 /\ \A i \in 1 .. (r + 1) : c[i] = w[i - 1]
  <2>1. r + 1 \in Nat
    BY <1>2
  <2> HIDE DEF c
  <2> QED  BY <1>14, <2>1
<1> HIDE DEF c
<1>16. ASSUME NEW s \in 0 .. r  PROVE w[s] \in OwnersOf(ms)
  <2>1. CASE s = r
    BY <1>6, <1>7, <2>1
  <2>2. CASE s # r
    <3>1. s \in 0 .. steps /\ s < r /\ s < steps
      BY <1>2, <2>2
    <3> QED  BY <1>5, <1>9, <3>1 DEF Above
  <2> QED  BY <2>1, <2>2
<1>17. ASSUME NEW i \in 0 .. r, NEW j \in 0 .. r, i < j  PROVE w[i] # w[j]
  <2> SUFFICES ASSUME w[i] = w[j] PROVE FALSE
    OBVIOUS
  <2> DEFINE Same == {k \in Nat : j + k <= r => w[i + k] = w[j + k]}
  <2>1. 0 \in Same
    OBVIOUS
  <2>2. ASSUME NEW k \in Nat, k \in Same  PROVE k + 1 \in Same
    <3> SUFFICES ASSUME j + (k + 1) <= r PROVE w[i + (k + 1)] = w[j + (k + 1)]
      OBVIOUS
    <3>1. /\ i + k \in 0 .. steps /\ i + k < steps /\ i + (k + 1) = (i + k) + 1
          /\ j + k \in 0 .. steps /\ j + k < steps /\ j + (k + 1) = (j + k) + 1
          /\ j + k <= r
      BY <1>2, <1>17
    <3> QED  BY <1>5, <2>2, <3>1
  <2>3. r - j \in Same
    <3>1. r - j \in Nat
      BY <1>2
    <3> HIDE DEF Same
    <3> QED  BY <2>1, <2>2, <3>1, AllNumbers
  <2>4. w[i + (r - j)] = w[r] /\ i + (r - j) \in 0 .. steps /\ ~(r <= i + (r - j))
    BY <1>2, <1>17, <2>3
  <2> QED  BY <1>6, <2>4
<1>18. Of(ms, c[Len(c)]).to = NoOne
  <2>1. c[Len(c)] = w[r]
    BY <1>2, <1>15
  <2> QED  BY <1>6, <1>7, <2>1
<1>19. \A i \in DOMAIN c : c[i] \in OwnersOf(ms)
  <2>1. \A i \in 1 .. (r + 1) : i - 1 \in 0 .. r
    BY <1>2
  <2> QED  BY <1>15, <1>16, <2>1
<1>20. ASSUME NEW i \in DOMAIN c, NEW j \in DOMAIN c, c[i] = c[j]  PROVE i = j
  <2>1. i - 1 \in 0 .. r /\ j - 1 \in 0 .. r /\ w[i - 1] = w[j - 1] /\ i \in Int /\ j \in Int
    BY <1>2, <1>15, <1>20
  <2>2. ~(i - 1 < j - 1) /\ ~(j - 1 < i - 1)
    BY <1>17, <2>1
  <2> QED  BY <2>1, <2>2
<1> QED  BY <1>18, <1>19, <1>20 DEF Escalates, c

\* A decision is routed to an owner of a mandate.
LEMMA RoutedToOwner ==
  ASSUME NEW ms, IsFiniteSet(ms), NEW ref, NEW type, NEW f, EffectiveOwner(ms, ref, type, f) # NoOne
  PROVE  EffectiveOwner(ms, ref, type, f) \in OwnersOf(ms)
<1> DEFINE best == Best(ms, ref, type, f)
<1>1. best \subseteq ms
  BY DEF Best
<1>2. IsFiniteSet(best)
  <2> HIDE DEF best
  <2> QED  BY <1>1, FS_Subset
<1>3. Cardinality(best) = 1 /\ EffectiveOwner(ms, ref, type, f) = (CHOOSE m \in best : TRUE).owner
  BY DEF EffectiveOwner
<1> HIDE DEF best
<1>4. PICK m : best = {m}
  BY <1>2, <1>3, FS_Singleton
<1>5. (CHOOSE x \in best : TRUE) \in best
  BY <1>4
<1> QED  BY <1>1, <1>3, <1>5 DEF OwnersOf

\* No act that is accepted leaves a cycle, a second root or a handle without a mandate above
\* anyone a decision is routed to: the file is walked as a whole before it is in force, and
\* no walk is longer than the file (parse.rs validate, lookup.rs escalation_chain).
THEOREM DecisionsAreRouted ==
  MandatesSpec => []Routable
<1>1. ASSUME MapInForce  PROVE Routable
  <2>1. ASSUME NEW ref \in NodeRefs, NEW type \in DecisionTypes, NEW f \in Facets,
               EffectiveOwner(mandates, ref, type, f) # NoOne
        PROVE  Escalates(mandates, EffectiveOwner(mandates, ref, type, f))
    BY <1>1, <2>1, RoutedToOwner, ChainsEscalate DEF MapInForce
  <2> QED  BY <2>1 DEF Routable, Escalates
<1>2. MapInForce /\ [MandatesNext]_mandatesVars => MapInForce'
  BY NextMap
<1> QED  BY <1>1, <1>2, FirstMap, PTL DEF MandatesSpec

-----------------------------------------------------------------------------
(* Translations.                                                           *)

Lines == [kind : LineKinds, text : Nat, translated : {FALSE}]

Scans == [fence : BOOLEAN, machine : BOOLEAN]

\* What is known after a line, from what was known before it.
AfterLine(line, before) ==
    [fence |-> IF line.kind = "fence" THEN ~before.fence ELSE before.fence,
     machine |-> IF ~before.fence /\ BeginsSection(line.kind) THEN line.kind = "check"
                 ELSE before.machine]

\* The heading of the commands begins a section of the machine, outside of a fence.
LEMMA CheckBegins ==
  ASSUME NEW line, line.kind = "check", NEW before, ~before.fence
  PROVE  AfterLine(line, before).machine
<1>1. BeginsSection(line.kind)
  BY DEF BeginsSection
<1>2. AfterLine(line, before).machine = IF ~before.fence /\ BeginsSection(line.kind)
                                        THEN line.kind = "check" ELSE before.machine
  BY DEF AfterLine
<1>3. AfterLine(line, before).machine = (line.kind = "check")
  BY <1>1, <1>2
<1> QED  BY <1>3, Zenon

LEMMA ScannedSteps ==
  ASSUME NEW lines \in Seq(Lines)
  PROVE  /\ \A k \in 0 .. Len(lines) : Scanned(lines)[k] \in Scans
         /\ \A k \in 1 .. Len(lines) : Scanned(lines)[k] = AfterLine(lines[k], Scanned(lines)[k - 1])
<1> DEFINE L == Len(lines)
           x == [fence |-> FALSE, machine |-> FALSE]
           D(g) == [k \in 0 .. L |->
                      IF k = 0 THEN x
                      ELSE LET before == g[k - 1]
                               kind == lines[k].kind
                           IN  [fence |-> IF kind = "fence" THEN ~before.fence ELSE before.fence,
                                machine |-> IF ~before.fence /\ BeginsSection(kind) THEN kind = "check"
                                            ELSE before.machine]]
           E(g) == [k \in 0 .. L |-> IF k = 0 THEN x ELSE AfterLine(lines[k], g[k - 1])]
           F == [p \in Nat \X Scans |-> AfterLine(lines[p[1] + 1], p[2])]
           at == CHOOSE g : g = D(g)
<1>1. L \in Nat /\ x \in Scans
  BY DEF Scans
<1>2. \A line, before : before \in Scans => AfterLine(line, before) \in Scans
  BY DEF AfterLine, Scans
<1>3. F \in [Nat \X Scans -> Scans]
  BY <1>2
<1>4. PICK f \in [Nat -> Scans] : Stepped(F, x, f)
  <2> HIDE DEF F, x
  <2> QED  BY <1>1, <1>3, Steps
<1> DEFINE g == [k \in 0 .. L |-> f[k]]
<1>5. \A h : D(h) = E(h)
  BY DEF AfterLine
<1>6. g = E(g)
  <2>1. ASSUME NEW k \in 0 .. L  PROVE f[k] = IF k = 0 THEN x ELSE AfterLine(lines[k], g[k - 1])
    <3>1. CASE k = 0
      <4> HIDE DEF x
      <4> QED  BY <1>4, <3>1 DEF Stepped
    <3>2. CASE k # 0
      <4>1. k - 1 \in Nat /\ k - 1 \in 0 .. L /\ k = (k - 1) + 1
        BY <1>1, <3>2
      <4>2. f[(k - 1) + 1] = F[<<k - 1, f[k - 1]>>]
        <5> HIDE DEF F, x
        <5> QED  BY <1>4, <4>1 DEF Stepped
      <4>3. F[<<k - 1, f[k - 1]>>] = AfterLine(lines[(k - 1) + 1], f[k - 1])
        BY <1>4, <4>1
      <4> HIDE DEF F
      <4> QED  BY <3>2, <4>1, <4>2, <4>3
    <3> QED  BY <3>1, <3>2
  <2> HIDE DEF x
  <2> QED  BY <2>1
<1>7. at = D(at)
  <2>1. g = D(g)
    <3> HIDE DEF D, E, g
    <3> QED  BY <1>5, <1>6
  <2> HIDE DEF D, g
  <2> QED  BY <2>1
<1>8. Scanned(lines) = at
  BY DEF Scanned
<1> HIDE DEF at
<1>9. at = E(at)
  <2> HIDE DEF D, E
  <2> QED  BY <1>5, <1>7
<1>10. /\ at[0] = x
       /\ \A k \in 1 .. L : at[k] = AfterLine(lines[k], at[k - 1])
  <2> HIDE DEF x
  <2>1. \A k \in 0 .. L : at[k] = IF k = 0 THEN x ELSE AfterLine(lines[k], at[k - 1])
    BY <1>9
  <2> QED  BY <1>1, <2>1
<1> DEFINE Known == {k \in Nat : k <= L => at[k] \in Scans}
<1>11. Nat \subseteq Known
  <2> HIDE DEF x
  <2>1. 0 \in Known
    BY <1>1, <1>10
  <2>2. ASSUME NEW k \in Nat, k \in Known  PROVE k + 1 \in Known
    <3> SUFFICES ASSUME k + 1 <= L PROVE at[k + 1] \in Scans
      OBVIOUS
    <3>1. k + 1 \in 1 .. L /\ (k + 1) - 1 = k /\ at[k] \in Scans
      BY <1>1, <2>2
    <3>2. at[k + 1] = AfterLine(lines[k + 1], at[k])
      BY <1>10, <3>1
    <3> QED  BY <1>2, <3>1, <3>2
  <2> HIDE DEF Known
  <2> QED  BY <2>1, <2>2, AllNumbers
<1>12. \A k \in 0 .. L : at[k] \in Scans
  BY <1>1, <1>11
<1> HIDE DEF D, E, F, x, g
<1> QED  BY <1>8, <1>10, <1>12

\* From the heading of the commands to the next section, everything is of the machine.
LEMMA CommandsAreMachine ==
  ASSUME NEW lines \in Seq(Lines), HeadingsOutside(lines),
         NEW i \in 1 .. Len(lines), lines[i].kind = "check",
         NEW j \in i .. Len(lines), \A h \in (i + 1) .. j : lines[h].kind # "section"
  PROVE  Scanned(lines)[j].machine
<1> DEFINE L == Len(lines)
           Machine == {d \in Nat : i + d <= j => Scanned(lines)[i + d].machine}
<1>1. L \in Nat /\ i \in Nat /\ j \in Nat /\ j <= L /\ i <= j /\ 1 <= i
  OBVIOUS
<1>2. ASSUME NEW k \in 1 .. L, lines[k].kind = "check"  PROVE Scanned(lines)[k].machine
  <2>1. k \in DOMAIN lines /\ k - 1 \in 0 .. L /\ k \in 0 .. L
    OBVIOUS
  <2>2. ~Scanned(lines)[k].fence
    BY <1>2, <2>1 DEF HeadingsOutside, BeginsSection
  <2>3. Scanned(lines)[k] = AfterLine(lines[k], Scanned(lines)[k - 1])
    BY ScannedSteps
  <2>4. ~Scanned(lines)[k - 1].fence
    BY <1>2, <2>2, <2>3 DEF AfterLine
  <2> QED  BY <1>2, <2>3, <2>4, CheckBegins
<1>3. 0 \in Machine
  <2>1. i + 0 = i
    BY <1>1
  <2> QED  BY <1>2, <2>1
<1>4. ASSUME NEW d \in Nat, d \in Machine  PROVE d + 1 \in Machine
  <2> SUFFICES ASSUME i + (d + 1) <= j PROVE Scanned(lines)[i + (d + 1)].machine
    OBVIOUS
  <2> DEFINE k == i + (d + 1)
  <2>1. k \in 1 .. L /\ k \in (i + 1) .. j /\ k - 1 = i + d /\ i + d <= j
    BY <1>1
  <2>2. Scanned(lines)[k - 1].machine /\ lines[k].kind # "section"
    BY <1>4, <2>1
  <2>3. Scanned(lines)[k] = AfterLine(lines[k], Scanned(lines)[k - 1])
    BY <2>1, ScannedSteps
  <2> HIDE DEF k
  <2>4. Scanned(lines)[k].machine
    <3>1. CASE lines[k].kind = "check"
      BY <1>2, <2>1, <3>1
    <3>2. CASE lines[k].kind # "check"
      BY <2>2, <2>3, <3>2 DEF AfterLine, BeginsSection
    <3> QED  BY <3>1, <3>2
  <2> QED  BY <2>4 DEF k
<1>5. j - i \in Machine
  <2>1. j - i \in Nat
    BY <1>1
  <2> HIDE DEF Machine
  <2> QED  BY <1>3, <1>4, <2>1, AllNumbers
<1>6. i + (j - i) = j
  BY <1>1
<1> QED  BY <1>1, <1>5, <1>6

LEMMA TranslatedLines ==
  ASSUME NEW lines \in Seq(Lines)
  PROVE  /\ DOMAIN Translated(lines) = 1 .. Len(lines) /\ DOMAIN lines = 1 .. Len(lines)
         /\ \A k \in 1 .. Len(lines) :
              /\ Translated(lines)[k].kind = lines[k].kind
              /\ k \notin Translatable(lines) => Translated(lines)[k] = lines[k]
              /\ k \in Translatable(lines) => Translated(lines)[k].translated
<1>1. DOMAIN lines = 1 .. Len(lines) /\ \A k \in 1 .. Len(lines) : lines[k] \in Lines
  OBVIOUS
<1>2. ASSUME NEW k \in 1 .. Len(lines)
      PROVE  Translated(lines)[k] = IF k \in Translatable(lines)
                                    THEN [lines[k] EXCEPT !.translated = TRUE] ELSE lines[k]
  BY <1>1 DEF Translated
<1>3. DOMAIN Translated(lines) = 1 .. Len(lines)
  BY <1>1 DEF Translated
<1>4. ASSUME NEW k \in 1 .. Len(lines)
      PROVE  /\ Translated(lines)[k].kind = lines[k].kind
             /\ k \notin Translatable(lines) => Translated(lines)[k] = lines[k]
             /\ k \in Translatable(lines) => Translated(lines)[k].translated
  <2>1. lines[k] \in Lines
    BY <1>1
  <2> QED  BY <1>2, <2>1 DEF Lines
<1> QED  BY <1>1, <1>3, <1>4

LEMMA CommandsStay ==
  ASSUME NEW lines \in Seq(Lines), HeadingsOutside(lines)
  PROVE  CheckCommands(Translated(lines)) = CheckCommands(lines)
<1> DEFINE Commanded(u) == {j \in DOMAIN u :
                              /\ u[j].kind \in {"text", "fence"}
                              /\ \E i \in 1 .. (j - 1) :
                                   /\ u[i].kind = "check"
                                   /\ \A h \in (i + 1) .. j : u[h].kind # "section"}
           L == Len(lines)
           t == Translated(lines)
<1>1. /\ DOMAIN t = 1 .. L /\ DOMAIN lines = 1 .. L /\ L \in Nat
      /\ \A k \in 1 .. L : t[k].kind = lines[k].kind
      /\ \A k \in 1 .. L : k \notin Translatable(lines) => t[k] = lines[k]
  BY TranslatedLines
<1> HIDE DEF t
<1>2. ASSUME NEW j \in 1 .. L, NEW i \in 1 .. (j - 1)
      PROVE  /\ i \in 1 .. L /\ j \in i .. L
             /\ \A h \in (i + 1) .. j : h \in 1 .. L
  BY <1>1
<1>3. Commanded(t) = Commanded(lines)
  <2>1. ASSUME NEW j \in 1 .. L, NEW i \in 1 .. (j - 1)
        PROVE  (t[i].kind = "check" /\ \A h \in (i + 1) .. j : t[h].kind # "section")
                 <=> (lines[i].kind = "check" /\ \A h \in (i + 1) .. j : lines[h].kind # "section")
    BY <1>1, <1>2
  <2>2. ASSUME NEW j \in 1 .. L  PROVE j \in Commanded(t) <=> j \in Commanded(lines)
    <3> DEFINE Heads(of, i) == /\ of[i].kind = "check"
                               /\ \A h \in (i + 1) .. j : of[h].kind # "section"
    <3>1. \A i \in 1 .. (j - 1) : Heads(t, i) <=> Heads(lines, i)
      BY <2>1
    <3>2. j \in DOMAIN t /\ j \in DOMAIN lines /\ t[j].kind = lines[j].kind
      BY <1>1
    <3>3. /\ j \in Commanded(t)
               <=> /\ j \in DOMAIN t /\ t[j].kind \in {"text", "fence"}
                   /\ \E i \in 1 .. (j - 1) : Heads(t, i)
          /\ j \in Commanded(lines)
               <=> /\ j \in DOMAIN lines /\ lines[j].kind \in {"text", "fence"}
                   /\ \E i \in 1 .. (j - 1) : Heads(lines, i)
      OBVIOUS
    <3> HIDE DEF Heads, Commanded
    <3> QED  BY <3>1, <3>2, <3>3
  <2>3. Commanded(t) \subseteq 1 .. L /\ Commanded(lines) \subseteq 1 .. L
    BY <1>1
  <2> HIDE DEF Commanded
  <2> QED  BY <2>2, <2>3
<1>4. ASSUME NEW j \in Commanded(lines)  PROVE t[j] = lines[j]
  <2>1. j \in 1 .. L
    BY <1>1
  <2>2. PICK i \in 1 .. (j - 1) : /\ lines[i].kind = "check"
                                  /\ \A h \in (i + 1) .. j : lines[h].kind # "section"
    OBVIOUS
  <2>3. i \in 1 .. L /\ j \in i .. L
    BY <1>2, <2>1
  <2>4. Scanned(lines)[j].machine
    BY <2>2, <2>3, CommandsAreMachine
  <2>5. j \notin Translatable(lines)
    BY <2>4 DEF Translatable
  <2> QED  BY <1>1, <2>1, <2>5
<1>5. CheckCommands(t) = {t[k] : k \in Commanded(t)} /\ CheckCommands(lines) = {lines[k] : k \in Commanded(lines)}
  BY DEF CheckCommands
<1> HIDE DEF Commanded
<1> QED  BY <1>3, <1>4, <1>5 DEF t

\* A translation shown is that of the text in the base language as it is.
TextsInv ==
    /\ base \in Seq(Lines) /\ made \in Seq(Lines)
    /\ shown \in {base, Translated(base)}

LEMMA TextsStep == TextsInv /\ [TextsNext]_textsVars => TextsInv'
<1> SUFFICES ASSUME TextsInv, [TextsNext]_textsVars PROVE TextsInv'
  OBVIOUS
<1>1. CASE WriteLine
  <2>1. PICK kind \in LineKinds : base' = Append(base, Line(kind, Len(base) + 1))
    BY <1>1 DEF WriteLine
  <2>2. Line(kind, Len(base) + 1) \in Lines
    BY DEF TextsInv, Line, Lines
  <2>3. base' \in Seq(Lines)
    BY <2>1, <2>2, AppendProperties DEF TextsInv
  <2> QED  BY <1>1, <2>3 DEF WriteLine, TextsInv
<1>2. CASE Translate
  <2>1. Translated(base)' = Translated(base)
    BY <1>2 DEF Translate, Translated, Translatable, Scanned
  <2> QED  BY <1>2, <2>1 DEF Translate, TextsInv
<1>3. CASE Materialize
  <2>1. made = shown /\ shown' = Translated(made) /\ UNCHANGED <<schema, base, made>>
    BY <1>3 DEF Materialize, Fresh
  <2>2. made = base
    <3>1. CASE shown = Translated(base)
      <4>1. base \in Seq(Lines) /\ made \in Seq(Lines) /\ DOMAIN made = DOMAIN base
            /\ Len(made) = Len(base)
        BY <2>1, <3>1, TranslatedLines DEF TextsInv
      <4>2. ASSUME NEW k \in 1 .. Len(base)  PROVE ~made[k].translated
        <5>1. made[k] \in Lines
          BY <4>1
        <5>2. made[k].translated = FALSE
          BY <5>1 DEF Lines
        <5> QED  BY <5>2
      <4>3. \A k \in 1 .. Len(base) : k \notin Translatable(base)
        BY <2>1, <3>1, <4>1, <4>2, TranslatedLines
      <4>4. \A k \in 1 .. Len(base) : made[k] = base[k]
        BY <2>1, <3>1, <4>1, <4>3, TranslatedLines
      <4> QED  BY <4>1, <4>4
    <3>2. CASE shown = base
      BY <2>1, <3>2
    <3> QED  BY <3>1, <3>2 DEF TextsInv
  <2>3. Translated(base)' = Translated(base)
    BY <2>1 DEF Translated, Translatable, Scanned
  <2> QED  BY <2>1, <2>2, <2>3 DEF TextsInv
<1>4. CASE UNCHANGED textsVars
  <2>1. Translated(base)' = Translated(base)
    BY <1>4 DEF textsVars, Translated, Translatable, Scanned
  <2> QED  BY <1>4, <2>1 DEF textsVars, TextsInv
<1> QED  BY <1>1, <1>2, <1>3, <1>4 DEF TextsNext

\* A translation touches nothing that check_commands reads, and is put over the version it
\* was made from only (i18n.rs segment, materialize; signal.rs check_commands): for files of
\* any length and any order of edits, translations and materializations.
THEOREM ChecksReadAsBase ==
  TextsInit /\ [][TextsNext]_textsVars => []CheckReadAsBase
<1>1. TextsInit => TextsInv
  <2>1. <<>> \in Seq(Lines)
    OBVIOUS
  <2> QED  BY <2>1 DEF TextsInit, TextsInv
<1>2. TextsInv => CheckReadAsBase
  BY CommandsStay DEF TextsInv, CheckReadAsBase
<1> QED  BY <1>1, <1>2, TextsStep, PTL

-----------------------------------------------------------------------------
(* Masked output.                                                          *)

\* The values of a set of places, longest first: each of them once, none before a longer one.
LEMMA LongestFirstOrders ==
  ASSUME NEW S, NEW places, places \subseteq Nat, IsFiniteSet(places),
         NEW values \in [places -> Seq(S)]
  PROVE  LET sorted == LongestFirst(values)
             n == Cardinality(places)
         IN  /\ n \in Nat
             /\ DOMAIN sorted = 1 .. n
             /\ \A r \in 1 .. n : \E i \in places : sorted[r] = values[i]
             /\ \A i \in places : \E r \in 1 .. n : sorted[r] = values[i]
             /\ \A r, s \in 1 .. n : r <= s => Len(sorted[s]) <= Len(sorted[r])
<1> DEFINE n == Cardinality(places)
           Before(i, j) == \/ Len(values[i]) > Len(values[j])
                           \/ Len(values[i]) = Len(values[j]) /\ i < j
           Ahead(i) == {j \in places : Before(j, i)}
           rank(i) == Cardinality(Ahead(i)) + 1
           place(r) == CHOOSE i \in places : rank(i) = r
           sorted == [r \in 1 .. n |-> values[place(r)]]
<1>1. n \in Nat /\ \A i \in places : i \in Nat /\ Len(values[i]) \in Nat
  BY FS_CardinalityType, LenProperties
<1>2. \A i, j, k \in places : /\ ~Before(i, i)
                              /\ i # j => Before(i, j) \/ Before(j, i)
                              /\ Before(i, j) /\ Before(j, k) => Before(i, k)
                              /\ ~Before(i, j) => Len(values[i]) <= Len(values[j])
  BY <1>1
<1> HIDE DEF Before
<1>3. ASSUME NEW i \in places
      PROVE  /\ IsFiniteSet(Ahead(i)) /\ Cardinality(Ahead(i)) \in Nat
             /\ rank(i) \in 1 .. n
  <2>1. IsFiniteSet(places \ {i}) /\ Cardinality(places \ {i}) = n - 1
    BY FS_RemoveElement
  <2>2. Ahead(i) \subseteq places \ {i}
    BY <1>2
  <2>3. /\ IsFiniteSet(Ahead(i)) /\ Cardinality(Ahead(i)) <= n - 1
        /\ Cardinality(Ahead(i)) \in Nat
    <3> HIDE DEF Ahead
    <3> QED  BY <2>1, <2>2, FS_Subset, FS_CardinalityType
  <2> HIDE DEF n, Ahead
  <2> QED  BY <1>1, <2>3
<1>4. ASSUME NEW i \in places, NEW j \in places, Before(i, j)  PROVE rank(i) < rank(j)
  <2>1. Ahead(i) \cup {i} \subseteq Ahead(j) /\ i \notin Ahead(i)
    BY <1>2, <1>4
  <2> HIDE DEF Ahead
  <2>2. Cardinality(Ahead(i) \cup {i}) = Cardinality(Ahead(i)) + 1
    BY <1>3, <2>1, FS_AddElement
  <2>3. Cardinality(Ahead(i) \cup {i}) <= Cardinality(Ahead(j))
    BY <1>3, <2>1, FS_Subset
  <2> QED  BY <1>3, <2>2, <2>3
<1> HIDE DEF rank
<1>5. ASSUME NEW i \in places, NEW j \in places, rank(i) = rank(j)  PROVE i = j
  <2>1. rank(i) \in Nat /\ rank(j) \in Nat
    <3>1. rank(i) \in 1 .. n /\ rank(j) \in 1 .. n
      BY <1>3
    <3> HIDE DEF n
    <3> QED  BY <1>1, <3>1
  <2> QED  BY <1>2, <1>4, <1>5, <2>1
<1>6. \A r \in 1 .. n : \E i \in places : rank(i) = r
  <2> DEFINE f == [i \in places |-> rank(i)]
  <2>1. f \in Injection(places, 1 .. n)
    BY <1>3, <1>5 DEF Injection, IsInjective
  <2>2. IsFiniteSet(1 .. n) /\ Cardinality(1 .. n) = n
    <3> HIDE DEF n
    <3> QED  BY <1>1, FS_Interval
  <2>3. f \in Surjection(places, 1 .. n)
    <3> HIDE DEF f
    <3> QED  BY <2>1, <2>2, FS_Injection
  <2> QED  BY <2>3 DEF Surjection
<1>7. \A r \in 1 .. n : place(r) \in places /\ rank(place(r)) = r
  BY <1>6
<1> HIDE DEF place
<1>8. DOMAIN sorted = 1 .. n /\ \A r \in 1 .. n : sorted[r] = values[place(r)]
  OBVIOUS
<1>9. ASSUME NEW i \in places  PROVE \E r \in 1 .. n : sorted[r] = values[i]
  <2>1. rank(i) \in 1 .. n /\ place(rank(i)) = i
    BY <1>3, <1>5, <1>7
  <2> QED  BY <1>8, <2>1
<1>10. ASSUME NEW r \in 1 .. n, NEW s \in 1 .. n, r <= s
       PROVE  Len(sorted[s]) <= Len(sorted[r])
  <2>1. CASE place(s) = place(r)
    BY <1>1, <1>7, <1>8, <2>1
  <2>2. CASE ~Before(place(s), place(r))
    BY <1>2, <1>7, <1>8, <2>2
  <2>3. CASE Before(place(s), place(r))
    <3>1. s < r
      BY <1>4, <1>7, <2>3
    <3> QED  BY <1>1, <1>10, <3>1
  <2> QED  BY <2>1, <2>2, <2>3
<1>11. LongestFirst(values) = sorted
  <2> DEFINE ranks == [i \in places |-> rank(i)]
  <2>1. DOMAIN values = places /\ \A i \in places : ranks[i] = rank(i)
    OBVIOUS
  <2>2. LongestFirst(values) = InOrder(values, ranks)
    BY <2>1 DEF LongestFirst, rank, Ahead, Before
  <2> HIDE DEF ranks
  <2>3. \A r : (CHOOSE i \in places : ranks[i] = r) = place(r)
    BY <2>1 DEF place
  <2> QED  BY <2>1, <2>2, <2>3 DEF InOrder, sorted, n
<1> HIDE DEF sorted
<1> QED  BY <1>1, <1>7, <1>8, <1>9, <1>10, <1>11

\* Texts with marks, and the values that are looked for in them.
Marked == Seq(Letters \cup {Mask})
Secret == Seq(Letters) \ {<<>>}

\* What str::replace leaves of a text from each place on.
Leaves(value, text, from) ==
  /\ DOMAIN from = 1 .. Len(text) + 1
  /\ from[Len(text) + 1] = <<>>
  /\ \A k \in 1 .. Len(text) :
       from[k] = IF OccursAt(value, text, k) THEN <<Mask>> \o from[k + Len(value)]
                 ELSE <<text[k]>> \o from[k + 1]

LEMMA ReplacedFromEnd ==
  ASSUME NEW value \in Secret, NEW text \in Marked
  PROVE  \E from : Leaves(value, text, from) /\ Replaced(value, text) = from[1]
<1> DEFINE L == Len(text)
           V == Len(value)
           D(g) == [k \in 1 .. L + 1 |->
                      IF k > L THEN <<>>
                      ELSE IF OccursAt(value, text, k) THEN <<Mask>> \o g[k + V]
                      ELSE <<text[k]>> \o g[k + 1]]
           From(a, g) == /\ g[L + 1] = <<>>
                         /\ \A k \in a .. L :
                              g[k] = IF OccursAt(value, text, k) THEN <<Mask>> \o g[k + V]
                                     ELSE <<text[k]>> \o g[k + 1]
           Reached(d) == d <= L => \E g \in [L + 1 - d .. L + 1 -> Marked] : From(L + 1 - d, g)
           Some == {d \in Nat : Reached(d)}
<1>1. L \in Nat /\ V \in Nat /\ V >= 1 /\ \A k \in 1 .. L : text[k] \in Letters \cup {Mask}
  BY EmptySeq, LenProperties, ElementOfSeq DEF Marked, Secret
<1>2. \A k \in 1 .. L : OccursAt(value, text, k) => k + V <= L + 1
  BY <1>1 DEF OccursAt
<1>3. 0 \in Some
  <2> DEFINE g == [k \in L + 1 .. L + 1 |-> <<>>]
  <2>1. g \in [L + 1 - 0 .. L + 1 -> Marked] /\ From(L + 1 - 0, g)
    BY <1>1 DEF Marked
  <2> QED  BY <2>1
<1>4. ASSUME NEW d \in Nat, d \in Some  PROVE d + 1 \in Some
  <2>1. d + 1 \in Nat /\ Reached(d)
    <3> HIDE DEF Reached
    <3> QED  BY <1>4
  <2>2. ASSUME d + 1 <= L
        PROVE  \E g \in [L + 1 - (d + 1) .. L + 1 -> Marked] : From(L + 1 - (d + 1), g)
    <3> DEFINE a == L + 1 - d
               b == L + 1 - (d + 1)
    <3>1. /\ a \in 2 .. L + 1 /\ b \in 1 .. L /\ b + 1 = a /\ b .. L + 1 = {b} \cup (a .. L + 1)
          /\ b \notin a .. L + 1 /\ b .. L = {b} \cup (a .. L)
      BY <1>1, <2>2
    <3>2. PICK g \in [a .. L + 1 -> Marked] : From(a, g)
      BY <1>1, <2>1, <2>2
    <3> DEFINE head == IF OccursAt(value, text, b) THEN <<Mask>> \o g[b + V] ELSE <<text[b]>> \o g[b + 1]
               h == [k \in b .. L + 1 |-> IF k = b THEN head ELSE g[k]]
    <3> HIDE DEF a, b
    <3>3. head \in Marked
      <4>1. OccursAt(value, text, b) => b + V \in a .. L + 1
        BY <1>1, <1>2, <3>1
      <4>2. b + 1 \in a .. L + 1
        BY <1>1, <3>1
      <4>3. <<Mask>> \in Marked /\ <<text[b]>> \in Marked
        BY <1>1, <3>1 DEF Marked
      <4>4. CASE OccursAt(value, text, b)
        BY <3>2, <4>1, <4>3, <4>4, ConcatProperties DEF Marked
      <4>5. CASE ~OccursAt(value, text, b)
        BY <3>2, <4>2, <4>3, <4>5, ConcatProperties DEF Marked
      <4> QED  BY <4>4, <4>5
    <3> HIDE DEF head
    <3>4. h \in [b .. L + 1 -> Marked]
      BY <3>1, <3>2, <3>3
    <3>5. h[L + 1] = <<>>
      <4>1. L + 1 \in b .. L + 1 /\ L + 1 # b
        BY <1>1, <3>1
      <4> QED  BY <3>2, <4>1
    <3>6. ASSUME NEW k \in b .. L
          PROVE  h[k] = IF OccursAt(value, text, k) THEN <<Mask>> \o h[k + V]
                        ELSE <<text[k]>> \o h[k + 1]
      <4>1. /\ k \in 1 .. L /\ k + 1 \in b .. L + 1 /\ k + 1 # b /\ k \in b .. L + 1
            /\ OccursAt(value, text, k) => k + V \in b .. L + 1 /\ k + V # b
        BY <1>1, <1>2, <3>1
      <4>2. /\ h[k + 1] = g[k + 1]
            /\ OccursAt(value, text, k) => h[k + V] = g[k + V]
        BY <4>1
      <4>3. h[k] = IF k = b THEN head ELSE g[k]
        BY <4>1
      <4> HIDE DEF h
      <4>4. CASE k = b
        BY <4>2, <4>3, <4>4 DEF head
      <4>5. CASE k # b
        <5>1. k \in a .. L
          BY <3>1, <4>5
        <5> QED  BY <3>2, <4>2, <4>3, <4>5, <5>1
      <4> QED  BY <4>4, <4>5
    <3> HIDE DEF h
    <3>7. From(b, h)
      BY <3>5, <3>6
    <3> QED  BY <3>4, <3>7 DEF b
  <2> HIDE DEF From
  <2> QED  BY <2>1, <2>2
<1>5. PICK g \in [1 .. L + 1 -> Marked] : From(1, g)
  <2>1. L \in Some
    <3> HIDE DEF Some
    <3> QED  BY <1>1, <1>3, <1>4, AllNumbers
  <2>2. L + 1 - L = 1
    BY <1>1
  <2> HIDE DEF From
  <2> QED  BY <1>1, <2>1, <2>2
<1>6. g = D(g)
  <2>1. ASSUME NEW k \in 1 .. L + 1  PROVE g[k] = D(g)[k]
    <3>1. CASE k = L + 1
      BY <1>1, <1>5, <3>1
    <3>2. CASE k # L + 1
      <4>1. k \in 1 .. L /\ ~(k > L)
        BY <1>1, <3>2
      <4> QED  BY <1>5, <4>1
    <3> QED  BY <3>1, <3>2
  <2> QED  BY <1>5, <2>1
<1> DEFINE from == CHOOSE f : f = D(f)
<1>7. from = D(from)
  <2> HIDE DEF D
  <2> QED  BY <1>6
<1>8. Replaced(value, text) = from[1]
  BY DEF Replaced
<1> HIDE DEF from
<1>9. Leaves(value, text, from)
  <2>1. DOMAIN from = 1 .. L + 1
    BY <1>7
  <2>2. from[L + 1] = <<>>
    BY <1>1, <1>7
  <2>3. \A k \in 1 .. L : /\ k \in 1 .. L + 1 /\ ~(k > L)
    BY <1>1
  <2>4. \A k \in 1 .. L : from[k] = D(from)[k]
    BY <1>7
  <2> QED  BY <2>1, <2>2, <2>3, <2>4 DEF Leaves
<1> QED  BY <1>8, <1>9

LEMMA OccursMeans ==
  ASSUME NEW value \in Secret, NEW text \in Marked, NEW k \in Nat, k >= 1
  PROVE  OccursAt(value, text, k)
           <=> /\ k + Len(value) - 1 <= Len(text)
               /\ \A i \in 0 .. Len(value) - 1 : text[k + i] = value[1 + i]
<1> DEFINE n == Len(value)
           part == SubSeq(text, k, k + n - 1)
<1>1. /\ n \in Nat /\ n >= 1 /\ Len(text) \in Nat
      /\ value \in Marked
  BY EmptySeq, LenProperties, SeqMonotonic DEF Marked, Secret
<1> SUFFICES ASSUME k + n - 1 <= Len(text)
             PROVE  part = value <=> \A i \in 0 .. n - 1 : text[k + i] = value[1 + i]
  BY DEF OccursAt
<1>2. k \in Int /\ k + n - 1 \in Int /\ k <= k + n - 1 /\ (k + n - 1) - k + 1 = n
  BY <1>1
<1>3. \A i \in k .. k + n - 1 : text[i] \in Letters \cup {Mask}
  <2>1. \A i \in k .. k + n - 1 : i \in 1 .. Len(text)
    BY <1>1
  <2> QED  BY <2>1, ElementOfSeq DEF Marked
<1>4. part \in Marked /\ Len(part) = n /\ \A i \in 1 .. n : part[i] = text[k + i - 1]
  <2> HIDE DEF n
  <2> QED  BY <1>2, <1>3, SubSeqProperties DEF Marked
<1> HIDE DEF part, n
<1>5. ASSUME part = value, NEW i \in 0 .. n - 1  PROVE text[k + i] = value[1 + i]
  <2>1. 1 + i \in 1 .. n /\ k + (1 + i) - 1 = k + i
    BY <1>1, <1>5
  <2>2. part[1 + i] = text[k + (1 + i) - 1]
    BY <1>4, <2>1
  <2> QED  BY <1>5, <2>1, <2>2
<1>6. ASSUME \A i \in 0 .. n - 1 : text[k + i] = value[1 + i]  PROVE part = value
  <2>1. ASSUME NEW i \in 1 .. n  PROVE part[i] = value[i]
    <3>1. i - 1 \in 0 .. n - 1 /\ k + (i - 1) = k + i - 1 /\ 1 + (i - 1) = i
      BY <1>1, <2>1
    <3>2. text[k + (i - 1)] = value[1 + (i - 1)]
      BY <1>6, <3>1
    <3> QED  BY <1>4, <2>1, <3>1, <3>2
  <2> QED  BY <1>1, <1>4, <2>1, SeqEqual DEF n, Marked
<1> QED  BY <1>5, <1>6

\* What s has from j on up to a mark, text has from m on.
Quotes(s, j, text, m) ==
  \A n \in Nat :
    (j + n - 1 <= Len(s) /\ \A i \in 0 .. n - 1 : s[j + i] # Mask)
      => m + n - 1 <= Len(text) /\ \A i \in 0 .. n - 1 : text[m + i] = s[j + i]

LEMMA QuotesBehind ==
  ASSUME NEW e \in Letters \cup {Mask}, NEW t \in Marked, NEW text \in Marked,
         NEW j \in 1 .. Len(t), NEW m \in Nat, Quotes(t, j, text, m)
  PROVE  Quotes(<<e>> \o t, j + 1, text, m)
<1> DEFINE s == <<e>> \o t
<1>1. Len(t) \in Nat /\ <<e>> \in Marked /\ Len(<<e>>) = 1
  BY LenProperties DEF Marked
<1>2. Len(s) = Len(t) + 1 /\ \A i \in 1 .. Len(t) : s[i + 1] = t[i]
  <2>1. /\ Len(s) = 1 + Len(t)
        /\ \A i \in 1 .. 1 + Len(t) : s[i] = IF i <= 1 THEN <<e>>[i] ELSE t[i - 1]
    BY <1>1, ConcatProperties DEF Marked
  <2> HIDE DEF s
  <2>2. ASSUME NEW i \in 1 .. Len(t)  PROVE s[i + 1] = t[i]
    <3>1. i + 1 \in 1 .. 1 + Len(t) /\ ~(i + 1 <= 1) /\ (i + 1) - 1 = i
      BY <1>1
    <3> QED  BY <2>1, <3>1
  <2> QED  BY <1>1, <2>1, <2>2
<1> HIDE DEF s
<1> SUFFICES ASSUME NEW n \in Nat, (j + 1) + n - 1 <= Len(s),
                    \A i \in 0 .. n - 1 : s[(j + 1) + i] # Mask
             PROVE  m + n - 1 <= Len(text) /\ \A i \in 0 .. n - 1 : text[m + i] = s[(j + 1) + i]
  BY DEF Quotes, s
<1>3. \A i \in 0 .. n - 1 : j + i \in 1 .. Len(t) /\ (j + 1) + i = (j + i) + 1
  BY <1>1, <1>2
<1>4. \A i \in 0 .. n - 1 : s[(j + 1) + i] = t[j + i]
  BY <1>2, <1>3
<1>5. j + n - 1 <= Len(t)
  BY <1>1, <1>2
<1> QED  BY <1>4, <1>5 DEF Quotes

\* What is left of a text from a place on.
LEMMA LeftOver ==
  ASSUME NEW value \in Secret, NEW text \in Marked,
         NEW from, Leaves(value, text, from)
  PROVE  /\ from[1] \in Marked
         /\ \A j \in 1 .. Len(from[1]) :
              from[1][j] # Mask => \E m \in 1 .. Len(text) : /\ ~OccursAt(value, text, m)
                                                             /\ Quotes(from[1], j, text, m)
<1> DEFINE L == Len(text)
           V == Len(value)
           Copied(k, j) == from[k][j] # Mask =>
                             \E m \in k .. L : ~OccursAt(value, text, m) /\ Quotes(from[k], j, text, m)
           Good(k) == /\ from[k] \in Marked
                      /\ Quotes(from[k], 1, text, k)
                      /\ \A j \in 1 .. Len(from[k]) : Copied(k, j)
           Reached(d) == \A c \in 0 .. d : c <= L => Good(L + 1 - c)
           Some == {d \in Nat : Reached(d)}
<1>1. /\ L \in Nat /\ V \in Nat /\ V >= 1
      /\ \A k \in 1 .. L : text[k] \in Letters \cup {Mask}
  BY EmptySeq, LenProperties, ElementOfSeq DEF Marked, Secret
<1>2. \A k \in 1 .. L : OccursAt(value, text, k) => k + V <= L + 1
  BY <1>1 DEF OccursAt
<1>3. Good(L + 1)
  <2>1. from[L + 1] = <<>>
    BY DEF Leaves
  <2>2. <<>> \in Marked /\ Len(<<>>) = 0
    BY EmptySeq DEF Marked
  <2>3. Quotes(<<>>, 1, text, L + 1)
    <3> SUFFICES ASSUME NEW n \in Nat, 1 + n - 1 <= 0
                 PROVE  (L + 1) + n - 1 <= L /\ \A i \in 0 .. n - 1 : FALSE
      BY <2>2 DEF Quotes
    <3> QED  BY <1>1
  <2> QED  BY <2>1, <2>2, <2>3
<1>4. ASSUME NEW k \in 1 .. L, \A b \in k + 1 .. L + 1 : Good(b)  PROVE Good(k)
  <2>1. PICK e \in Letters \cup {Mask}, b \in k + 1 .. L + 1 :
           /\ from[k] = <<e>> \o from[b]
           /\ \/ e = Mask
              \/ e = text[k] /\ b = k + 1 /\ ~OccursAt(value, text, k)
    <3>1. CASE OccursAt(value, text, k)
      <4>1. k + V \in k + 1 .. L + 1
        BY <1>1, <1>2, <3>1
      <4>2. from[k] = <<Mask>> \o from[k + V]
        BY <3>1 DEF Leaves
      <4> QED  BY <4>1, <4>2
    <3>2. CASE ~OccursAt(value, text, k)
      <4>1. k + 1 \in k + 1 .. L + 1
        BY <1>1
      <4>2. from[k] = <<text[k]>> \o from[k + 1]
        BY <3>2 DEF Leaves
      <4> QED  BY <1>1, <3>2, <4>1, <4>2
    <3> QED  BY <3>1, <3>2
  <2> DEFINE s == from[k]
             t == from[b]
  <2>2. t \in Marked /\ Good(b)
    BY <1>4
  <2>3. Len(t) \in Nat /\ <<e>> \in Marked /\ Len(<<e>>) = 1 /\ <<e>>[1] = e
    BY <2>2, LenProperties DEF Marked
  <2>4. /\ s \in Marked /\ Len(s) = 1 + Len(t) /\ s[1] = e
        /\ \A j \in 1 .. Len(t) : s[j + 1] = t[j]
    <3>1. /\ s \in Marked /\ Len(s) = 1 + Len(t)
          /\ \A i \in 1 .. 1 + Len(t) : s[i] = IF i <= 1 THEN <<e>>[i] ELSE t[i - 1]
      <4> HIDE DEF t
      <4> QED  BY <2>1, <2>2, <2>3, ConcatProperties DEF Marked, t
    <3> HIDE DEF s, t
    <3>2. ASSUME NEW i \in 1 .. Len(t)  PROVE s[i + 1] = t[i]
      <4>1. i + 1 \in 1 .. 1 + Len(t) /\ ~(i + 1 <= 1) /\ (i + 1) - 1 = i
        BY <2>3
      <4> QED  BY <3>1, <4>1
    <3>3. 1 \in 1 .. 1 + Len(t)
      BY <2>3
    <3>4. s[1] = <<e>>[1]
      BY <3>1, <3>3
    <3> QED  BY <2>3, <3>1, <3>2, <3>4
  <2>5. Quotes(s, 1, text, k)
    <3> SUFFICES ASSUME NEW n \in Nat, 1 + n - 1 <= Len(s), \A i \in 0 .. n - 1 : s[1 + i] # Mask
                 PROVE  k + n - 1 <= L /\ \A i \in 0 .. n - 1 : text[k + i] = s[1 + i]
      BY DEF Quotes
    <3>1. CASE n = 0
      BY <1>1, <3>1
    <3>2. CASE n >= 1
      <4>1. e = text[k] /\ b = k + 1
        <5>1. 0 \in 0 .. n - 1 /\ 1 + 0 = 1
          BY <3>2
        <5> QED  BY <2>1, <2>4, <5>1
      <4>2. /\ n - 1 \in Nat /\ 1 + (n - 1) - 1 <= Len(t)
            /\ \A i \in 0 .. (n - 1) - 1 : t[1 + i] # Mask
        <5> HIDE DEF s, t
        <5>1. n - 1 \in Nat /\ 1 + (n - 1) - 1 <= Len(t)
          BY <2>3, <2>4, <3>2
        <5>2. ASSUME NEW i \in 0 .. (n - 1) - 1  PROVE t[1 + i] # Mask
          <6>1. 1 + i \in 1 .. Len(t) /\ 1 + i \in 0 .. n - 1 /\ 1 + (1 + i) = (1 + i) + 1
            BY <2>3, <5>1
          <6> QED  BY <2>4, <6>1
        <5> QED  BY <5>1, <5>2
      <4>3. /\ (k + 1) + (n - 1) - 1 <= L
            /\ \A i \in 0 .. (n - 1) - 1 : text[(k + 1) + i] = t[1 + i]
        <5>1. Quotes(t, 1, text, k + 1)
          BY <2>2, <4>1
        <5> HIDE DEF t
        <5> QED  BY <4>2, <5>1 DEF Quotes
      <4> HIDE DEF s, t
      <4>4. ASSUME NEW i \in 0 .. n - 1  PROVE text[k + i] = s[1 + i]
        <5>1. CASE i = 0
          BY <2>4, <4>1, <5>1
        <5>2. CASE i # 0
          <6>1. /\ i - 1 \in 0 .. (n - 1) - 1 /\ (k + 1) + (i - 1) = k + i /\ 1 + (i - 1) = i
                /\ i \in 1 .. Len(t) /\ i + 1 = 1 + i
            BY <1>1, <2>3, <4>2, <5>2
          <6>2. text[(k + 1) + (i - 1)] = t[1 + (i - 1)]
            BY <4>3, <6>1
          <6> QED  BY <2>4, <6>1, <6>2
        <5> QED  BY <5>1, <5>2
      <4> QED  BY <1>1, <4>3, <4>4
    <3> QED  BY <3>1, <3>2
  <2>6. ASSUME NEW j \in 1 .. Len(s), s[j] # Mask
        PROVE  \E m \in k .. L : ~OccursAt(value, text, m) /\ Quotes(s, j, text, m)
    <3>1. CASE j = 1
      <4>1. ~OccursAt(value, text, k)
        BY <2>1, <2>4, <2>6, <3>1
      <4>2. k \in k .. L
        BY <1>1
      <4> HIDE DEF s
      <4> QED  BY <2>5, <3>1, <4>1, <4>2
    <3>2. CASE j # 1
      <4> DEFINE i == j - 1
      <4>1. i \in 1 .. Len(t) /\ i + 1 = j
        <5> HIDE DEF s, t
        <5> QED  BY <2>3, <2>4, <2>6, <3>2
      <4> HIDE DEF i
      <4>2. t[i] # Mask
        BY <2>4, <2>6, <4>1
      <4>3. PICK m \in b .. L : ~OccursAt(value, text, m) /\ Quotes(t, i, text, m)
        BY <2>2, <4>1, <4>2
      <4>4. m \in k .. L /\ m \in Nat
        BY <1>1, <4>3
      <4>5. Quotes(s, i + 1, text, m)
        <5> HIDE DEF t
        <5>1. Quotes(<<e>> \o t, i + 1, text, m)
          BY <2>2, <4>1, <4>3, <4>4, QuotesBehind
        <5> QED  BY <2>1, <5>1 DEF t
      <4> HIDE DEF s
      <4> QED  BY <4>1, <4>3, <4>4, <4>5
    <3> QED  BY <3>1, <3>2
  <2> QED  BY <2>4, <2>5, <2>6
<1> HIDE DEF Good
<1>5. 0 \in Some
  <2>1. \A c \in 0 .. 0 : L + 1 - c = L + 1
    BY <1>1
  <2> QED  BY <1>3, <2>1
<1>6. ASSUME NEW d \in Nat, d \in Some  PROVE d + 1 \in Some
  <2>1. ASSUME NEW c \in 0 .. d + 1, c <= L  PROVE Good(L + 1 - c)
    <3>1. CASE c \in 0 .. d
      BY <1>6, <2>1, <3>1
    <3>2. CASE c \notin 0 .. d
      <4>1. c = d + 1 /\ L + 1 - c \in 1 .. L
        BY <1>1, <2>1, <3>2
      <4>2. ASSUME NEW b \in (L + 1 - c) + 1 .. L + 1  PROVE Good(b)
        <5>1. L + 1 - b \in 0 .. d /\ L + 1 - b <= L /\ L + 1 - (L + 1 - b) = b
          BY <1>1, <2>1, <4>1
        <5>2. Good(L + 1 - (L + 1 - b))
          BY <1>6, <5>1
        <5> QED  BY <5>1, <5>2
      <4> QED  BY <1>4, <4>1, <4>2
    <3> QED  BY <3>1, <3>2
  <2> QED  BY <2>1
<1>7. Good(1)
  <2>1. L \in Some
    <3> HIDE DEF Some
    <3> QED  BY <1>1, <1>5, <1>6, AllNumbers
  <2>2. L \in 0 .. L /\ L + 1 - L = 1
    BY <1>1
  <2>3. Good(L + 1 - L)
    BY <1>1, <2>1, <2>2
  <2> QED  BY <2>2, <2>3
<1> QED  BY <1>7 DEF Good

LEMMA SecretTexts == Secret \subseteq Marked
<1> SUFFICES ASSUME NEW value \in Secret PROVE value \in Marked
  OBVIOUS
<1>1. value \in Seq(Letters)
  BY DEF Secret
<1> QED  BY <1>1, SeqMonotonic DEF Marked

\* A value that is in the text after the replacement was in it before, and is another one.
LEMMA ReplacedText ==
  ASSUME NEW value \in Secret, NEW text \in Marked
  PROVE  LET new == Replaced(value, text)
         IN  /\ new \in Marked
             /\ \A w \in Secret, j \in 1 .. Len(new) :
                  OccursAt(w, new, j) =>
                    w # value /\ \E m \in 1 .. Len(text) : OccursAt(w, text, m)
<1>1. PICK from : Leaves(value, text, from) /\ Replaced(value, text) = from[1]
  BY ReplacedFromEnd
<1> DEFINE new == from[1]
<1>2. new \in Marked
  BY <1>1, LeftOver
<1>3. ASSUME NEW w \in Secret, NEW j \in 1 .. Len(new), OccursAt(w, new, j)
      PROVE  w # value /\ \E m \in 1 .. Len(text) : OccursAt(w, text, m)
  <2> DEFINE n == Len(w)
  <2>1. n \in Nat /\ n >= 1 /\ Len(new) \in Nat /\ w \in Seq(Letters)
    BY <1>2, EmptySeq, LenProperties DEF Secret, Marked
  <2>2. j + n - 1 <= Len(new) /\ \A i \in 0 .. n - 1 : new[j + i] = w[1 + i]
    <3> HIDE DEF new
    <3> QED  BY <1>2, <1>3, <2>1, OccursMeans
  <2>3. \A i \in 0 .. n - 1 : new[j + i] # Mask
    <3> SUFFICES ASSUME NEW i \in 0 .. n - 1 PROVE new[j + i] # Mask
      OBVIOUS
    <3>1. 1 + i \in 1 .. n
      BY <2>1
    <3>2. w[1 + i] \in Letters
      BY <2>1, <3>1, ElementOfSeq
    <3> QED  BY <2>2, <3>2, MaskingAssumption DEF MaskingAssumption
  <2>4. new[j] # Mask
    <3>1. 0 \in 0 .. n - 1 /\ j + 0 = j
      BY <2>1
    <3> QED  BY <2>3, <3>1
  <2>5. PICK m \in 1 .. Len(text) : ~OccursAt(value, text, m) /\ Quotes(new, j, text, m)
    BY <1>1, <2>4, LeftOver
  <2>6. m + n - 1 <= Len(text) /\ \A i \in 0 .. n - 1 : text[m + i] = new[j + i]
    <3> HIDE DEF new
    <3> QED  BY <2>1, <2>2, <2>3, <2>5 DEF Quotes
  <2>7. OccursAt(w, text, m)
    <3>1. \A i \in 0 .. n - 1 : text[m + i] = w[1 + i]
      BY <2>2, <2>6
    <3>2. m \in Nat /\ m >= 1
      BY <2>1
    <3> QED  BY <2>6, <3>1, <3>2, OccursMeans
  <2> QED  BY <2>5, <2>7
<1> HIDE DEF new
<1>4. Replaced(value, text) = new
  BY <1>1 DEF new
<1> QED  BY <1>2, <1>3, <1>4

\* A value that is not in a text leaves it as it is.
LEMMA ReplacedNothing ==
  ASSUME NEW value \in Secret, NEW text \in Marked,
         \A m \in 1 .. Len(text) : ~OccursAt(value, text, m)
  PROVE  Replaced(value, text) = text
<1>1. PICK from : Leaves(value, text, from) /\ Replaced(value, text) = from[1]
  BY ReplacedFromEnd
<1> DEFINE L == Len(text)
           Some == {d \in Nat : d <= L => from[L + 1 - d] = SubSeq(text, L + 1 - d, L)}
<1>2. L \in Nat
  BY LenProperties DEF Marked
<1>3. 0 \in Some
  <2>1. from[L + 1] = <<>>
    BY <1>1 DEF Leaves
  <2>2. SubSeq(text, L + 1, L) = <<>> /\ L + 1 - 0 = L + 1
    <3>1. L + 1 \in Int /\ L \in Int /\ L < L + 1
      BY <1>2
    <3> HIDE DEF L
    <3> QED  BY <3>1, SubSeqEmpty
  <2> QED  BY <2>1, <2>2
<1>4. ASSUME NEW d \in Nat, d \in Some  PROVE d + 1 \in Some
  <2>1. ASSUME d + 1 <= L  PROVE from[L + 1 - (d + 1)] = SubSeq(text, L + 1 - (d + 1), L)
    <3> DEFINE k == L + 1 - (d + 1)
    <3>1. k \in 1 .. L /\ k + 1 = L + 1 - d /\ L \in k .. L /\ d <= L
      BY <1>2, <2>1
    <3>2. from[k + 1] = SubSeq(text, k + 1, L)
      BY <1>4, <3>1
    <3> HIDE DEF k
    <3>3. from[k] = <<text[k]>> \o from[k + 1]
      BY <1>1, <3>1 DEF Leaves
    <3>4. SubSeq(text, k, L) = <<text[k]>> \o SubSeq(text, k + 1, L)
      BY <3>1, SubSeqRecursiveFirst DEF Marked
    <3> QED  BY <3>2, <3>3, <3>4 DEF k
  <2> QED  BY <2>1
<1>5. L \in Some
  <2> HIDE DEF Some
  <2> QED  BY <1>2, <1>3, <1>4, AllNumbers
<1>6. from[1] = SubSeq(text, 1, L)
  <2>1. L + 1 - L = 1 /\ L <= L
    BY <1>2
  <2> QED  BY <1>5, <2>1
<1> QED  BY <1>1, <1>6, SubSeqFull DEF Marked

LEMMA ReplacedAll ==
  ASSUME NEW value \in Secret
  PROVE  Replaced(value, value) = <<Mask>>
<1>1. PICK from : Leaves(value, value, from) /\ Replaced(value, value) = from[1]
  BY ReplacedFromEnd, SecretTexts
<1>2. value \in Seq(Letters) /\ Len(value) \in Nat /\ Len(value) >= 1
  BY EmptySeq DEF Secret
<1>3. OccursAt(value, value, 1)
  <2>1. 1 + Len(value) - 1 = Len(value)
    BY <1>2
  <2>2. SubSeq(value, 1, Len(value)) = value
    BY <1>2, SubSeqFull
  <2> QED  BY <1>2, <2>1, <2>2 DEF OccursAt
<1>4. from[1] = <<Mask>> \o from[1 + Len(value)] /\ from[Len(value) + 1] = <<>>
  <2>1. 1 \in 1 .. Len(value)
    BY <1>2
  <2> QED  BY <1>1, <1>3, <2>1 DEF Leaves
<1>5. 1 + Len(value) = Len(value) + 1
  BY <1>2
<1>6. <<Mask>> \in Marked
  BY DEF Marked
<1> QED  BY <1>1, <1>4, <1>5, <1>6, ConcatEmptySeq DEF Marked

\* The text after each of the values in turn.
Applied(values, text, after) ==
  /\ after[0] = text
  /\ \A k \in 1 .. Len(values) : after[k] = Replaced(values[k], after[k - 1])

LEMMA MaskedSteps ==
  ASSUME NEW text \in Marked, MaskedValues \in Seq(Secret)
  PROVE  \E after : /\ Applied(MaskedValues, text, after)
                    /\ \A k \in 0 .. Len(MaskedValues) : after[k] \in Marked
                    /\ Masked(text) = after[Len(MaskedValues)]
<1> DEFINE values == MaskedValues
           n == Len(values)
           D(g) == [k \in 0 .. n |-> IF k = 0 THEN text ELSE Replaced(values[k], g[k - 1])]
           F == [p \in Nat \X Marked |->
                   IF p[1] + 1 \in 1 .. n THEN Replaced(values[p[1] + 1], p[2]) ELSE p[2]]
<1>1. n \in Nat /\ \A k \in 1 .. n : values[k] \in Secret
  BY LenProperties, ElementOfSeq
<1>2. F \in [Nat \X Marked -> Marked]
  <2>1. ASSUME NEW p \in Nat \X Marked  PROVE F[p] \in Marked
    <3>1. p[2] \in Marked
      BY <2>1
    <3>2. p[1] + 1 \in 1 .. n => Replaced(values[p[1] + 1], p[2]) \in Marked
      BY <1>1, <3>1, ReplacedText
    <3>3. F[p] = IF p[1] + 1 \in 1 .. n THEN Replaced(values[p[1] + 1], p[2]) ELSE p[2]
      BY <2>1
    <3> QED  BY <3>1, <3>2, <3>3
  <2>2. DOMAIN F = Nat \X Marked /\ F = [p \in Nat \X Marked |-> F[p]]
    OBVIOUS
  <2> HIDE DEF F
  <2> QED  BY <2>1, <2>2
<1>3. PICK f \in [Nat -> Marked] : Stepped(F, text, f)
  <2> HIDE DEF F
  <2> QED  BY <1>2, Steps
<1>4. ASSUME NEW k \in 1 .. n  PROVE f[k] = Replaced(values[k], f[k - 1])
  <2>1. k - 1 \in Nat /\ (k - 1) + 1 = k
    BY <1>1
  <2>2. f[(k - 1) + 1] = F[<<k - 1, f[k - 1]>>]
    <3> HIDE DEF F
    <3> QED  BY <1>3, <2>1 DEF Stepped
  <2>3. <<k - 1, f[k - 1]>> \in Nat \X Marked
    BY <1>3, <2>1
  <2> HIDE DEF values, n
  <2>4. F[<<k - 1, f[k - 1]>>] = Replaced(values[k], f[k - 1])
    BY <2>1, <2>3
  <2> QED  BY <2>1, <2>2, <2>4
<1> DEFINE g == [k \in 0 .. n |-> f[k]]
<1>5. g = D(g)
  <2>1. ASSUME NEW k \in 0 .. n
        PROVE  g[k] = IF k = 0 THEN text ELSE Replaced(values[k], g[k - 1])
    <3>1. CASE k = 0
      BY <1>3, <3>1 DEF Stepped
    <3>2. CASE k # 0
      <4>1. k \in 1 .. n /\ k - 1 \in 0 .. n
        BY <1>1, <3>2
      <4>2. g[k] = f[k] /\ g[k - 1] = f[k - 1]
        BY <4>1
      <4> HIDE DEF values, n, g
      <4> QED  BY <1>4, <3>2, <4>1, <4>2
    <3> QED  BY <3>1, <3>2
  <2> HIDE DEF values, n
  <2> QED  BY <2>1, Zenon
<1> DEFINE after == CHOOSE h : h = D(h)
<1>6. after = D(after)
  <2> HIDE DEF D, g
  <2> QED  BY <1>5
<1>7. Masked(text) = after[n]
  BY DEF Masked
<1> HIDE DEF after, values, n
<1>8. after[0] = text /\ \A k \in 1 .. n : after[k] = Replaced(values[k], after[k - 1])
  <2>1. 0 \in 0 .. n /\ \A k \in 1 .. n : k \in 0 .. n /\ k # 0
    BY <1>1
  <2> DEFINE E == D(after)
  <2>2. after = E /\ \A k \in 0 .. n : E[k] = IF k = 0 THEN text ELSE Replaced(values[k], after[k - 1])
    BY <1>6
  <2> HIDE DEF E
  <2> QED  BY <2>1, <2>2
<1> DEFINE Reached == {k \in Nat : k <= n => after[k] \in Marked}
<1>9. 0 \in Reached
  BY <1>8
<1>10. ASSUME NEW k \in Nat, k \in Reached  PROVE k + 1 \in Reached
  <2>1. ASSUME k + 1 <= n  PROVE after[k + 1] \in Marked
    <3>1. k + 1 \in 1 .. n /\ (k + 1) - 1 = k /\ k <= n
      BY <1>1, <2>1
    <3>2. after[k] \in Marked /\ after[k + 1] = Replaced(values[k + 1], after[k])
      BY <1>8, <1>10, <3>1
    <3> QED  BY <1>1, <3>1, <3>2, ReplacedText
  <2> QED  BY <2>1
<1>11. \A k \in 0 .. n : after[k] \in Marked
  <2>1. Nat \subseteq Reached
    <3> HIDE DEF Reached
    <3> QED  BY <1>9, <1>10, AllNumbers
  <2> QED  BY <1>1, <2>1
<1> QED  BY <1>7, <1>8, <1>11 DEF Applied, values, n

\* None of the values is in the text after all of them.
LEMMA NoneApplied ==
  ASSUME NEW text \in Marked, NEW values \in Seq(Secret),
         NEW after, Applied(values, text, after),
         \A k \in 0 .. Len(values) : after[k] \in Marked
  PROVE  \A r \in 1 .. Len(values) : LET final == after[Len(values)] IN
           \A j \in 1 .. Len(final) : ~OccursAt(values[r], final, j)
<1> DEFINE n == Len(values)
           Gone(k) == \A r \in 1 .. k : \A j \in 1 .. Len(after[k]) : ~OccursAt(values[r], after[k], j)
           Reached == {k \in Nat : k <= n => Gone(k)}
<1>1. n \in Nat /\ \A r \in 1 .. n : values[r] \in Secret
  BY LenProperties, ElementOfSeq
<1>2. 0 \in Reached
  OBVIOUS
<1>3. ASSUME NEW k \in Nat, k \in Reached  PROVE k + 1 \in Reached
  <2>1. ASSUME k + 1 <= n, NEW r \in 1 .. (k + 1), NEW j \in 1 .. Len(after[k + 1]),
               OccursAt(values[r], after[k + 1], j)
        PROVE  FALSE
    <3>1. /\ k + 1 \in 1 .. n /\ (k + 1) - 1 = k /\ k \in 0 .. n /\ k <= n
          /\ r \in 1 .. n /\ (r = k + 1 \/ r \in 1 .. k)
      BY <1>1, <2>1
    <3>2. after[k + 1] = Replaced(values[k + 1], after[k])
      BY <3>1 DEF Applied
    <3>3. values[r] \in Secret /\ values[k + 1] \in Secret /\ after[k] \in Marked
      BY <1>1, <3>1
    <3>4. values[r] # values[k + 1] /\ \E m \in 1 .. Len(after[k]) : OccursAt(values[r], after[k], m)
      BY <2>1, <3>2, <3>3, ReplacedText
    <3>5. r \in 1 .. k
      BY <3>1, <3>4
    <3>6. Gone(k)
      BY <1>3, <3>1
    <3> QED  BY <3>4, <3>5, <3>6
  <2>2. k + 1 <= n => Gone(k + 1)
    BY <2>1
  <2> QED  BY <2>2
<1>4. n \in Reached
  <2> HIDE DEF Reached
  <2> QED  BY <1>1, <1>2, <1>3, AllNumbers
<1> QED  BY <1>1, <1>4

\* A text that is one of the values becomes one mark: no longer value is in it, and none is in
\* the mark.
LEMMA WholeMasked ==
  ASSUME NEW values \in Seq(Secret), NEW text \in Secret,
         \E r \in 1 .. Len(values) : values[r] = text,
         \A r, s \in 1 .. Len(values) : r <= s => Len(values[s]) <= Len(values[r]),
         NEW after, Applied(values, text, after)
  PROVE  after[Len(values)] = <<Mask>>
<1> DEFINE n == Len(values)
           Whole(k) == \/ after[k] = text /\ \A r \in 1 .. k : values[r] # text
                       \/ after[k] = <<Mask>>
           Reached == {k \in Nat : k <= n => Whole(k)}
<1>1. /\ n \in Nat /\ \A r \in 1 .. n : values[r] \in Secret /\ Len(values[r]) \in Nat \ {0}
      /\ Len(text) \in Nat \ {0}
  BY LenProperties, ElementOfSeq, EmptySeq DEF Secret
<1>2. 0 \in Reached
  BY DEF Applied
<1>3. ASSUME NEW value \in Secret, Len(value) >= Len(text), value # text,
             NEW m \in 1 .. Len(text), OccursAt(value, text, m)
      PROVE  FALSE
  <2>1. Len(value) \in Nat \ {0}
    BY EmptySeq DEF Secret
  <2>2. m = 1 /\ m + Len(value) - 1 = Len(text)
    BY <1>1, <1>3, <2>1 DEF OccursAt
  <2>3. SubSeq(text, 1, Len(text)) = value
    BY <1>3, <2>2 DEF OccursAt
  <2> QED  BY <1>3, <2>3, SubSeqFull DEF Secret
<1>4. ASSUME NEW value \in Secret, NEW m \in 1 .. Len(<<Mask>>), OccursAt(value, <<Mask>>, m)
      PROVE  FALSE
  <2>1. /\ Len(value) \in Nat \ {0} /\ value \in Seq(Letters)
        /\ <<Mask>> \in Marked /\ Len(<<Mask>>) = 1 /\ <<Mask>>[1] = Mask
    BY EmptySeq DEF Secret, Marked
  <2>2. m = 1
    BY <1>4, <2>1
  <2>3. 0 \in 0 .. Len(value) - 1 /\ 1 + 0 = 1 /\ 1 \in 1 .. Len(value)
    BY <2>1
  <2>4. <<Mask>>[1 + 0] = value[1 + 0]
    <3> DEFINE mark == <<Mask>>
    <3>1. mark \in Marked /\ OccursAt(value, mark, 1) /\ 1 \in Nat /\ 1 >= 1
      BY <1>4, <2>1, <2>2
    <3> HIDE DEF mark
    <3>2. \A i \in 0 .. Len(value) - 1 : mark[1 + i] = value[1 + i]
      BY <3>1, OccursMeans
    <3> QED  BY <2>3, <3>2 DEF mark
  <2>5. value[1] \in Letters
    BY <2>1, <2>3, ElementOfSeq
  <2> QED  BY <2>1, <2>3, <2>4, <2>5, MaskingAssumption DEF MaskingAssumption
<1>5. ASSUME NEW k \in Nat, k \in Reached  PROVE k + 1 \in Reached
  <2>1. ASSUME k + 1 <= n  PROVE Whole(k + 1)
    <3>1. k + 1 \in 1 .. n /\ (k + 1) - 1 = k /\ k <= n /\ Whole(k)
      BY <1>1, <1>5, <2>1
    <3> DEFINE value == values[k + 1]
    <3>2. after[k + 1] = Replaced(value, after[k]) /\ value \in Secret
      BY <1>1, <3>1 DEF Applied
    <3>3. CASE after[k] = <<Mask>>
      <4>1. <<Mask>> \in Marked
        BY DEF Marked
      <4>2. Replaced(value, <<Mask>>) = <<Mask>>
        BY <1>4, <3>2, <4>1, ReplacedNothing
      <4> QED  BY <3>2, <3>3, <4>2
    <3>4. CASE after[k] = text /\ value = text
      <4>1. Replaced(value, text) = <<Mask>>
        BY <3>4, ReplacedAll
      <4> QED  BY <3>2, <3>4, <4>1
    <3>5. CASE after[k] = text /\ value # text /\ \A r \in 1 .. k : values[r] # text
      <4>1. PICK r \in 1 .. n : values[r] = text
        OBVIOUS
      <4>2. r \notin 1 .. k /\ r # k + 1
        BY <3>5, <4>1
      <4>3. k + 1 <= r
        BY <1>1, <4>1, <4>2
      <4>4. Len(value) >= Len(text)
        BY <3>1, <4>1, <4>3
      <4>5. Replaced(value, text) = text
        <5> HIDE DEF value
        <5> QED  BY <1>3, <3>2, <3>5, <4>4, SecretTexts, ReplacedNothing
      <4>6. \A s \in 1 .. k + 1 : s \in 1 .. k \/ s = k + 1
        OBVIOUS
      <4> QED  BY <3>2, <3>5, <4>5, <4>6
    <3> QED  BY <3>1, <3>3, <3>4, <3>5
  <2> QED  BY <2>1
<1>6. n \in Reached
  <2> HIDE DEF Reached
  <2> QED  BY <1>1, <1>2, <1>5, AllNumbers
<1>7. Whole(n)
  BY <1>1, <1>6
<1> QED  BY <1>7

MaskingTypes ==
  /\ store \in UNION {[has -> Values] : has \in SUBSET Keys}
  /\ asks \in [1 .. Cardinality(Keys) -> Keys]
  /\ output \in Seq(Letters)

\* The values that are masked are those of the environment but the empty one, longest first.
LEMMA ValuesMasked ==
  ASSUME MaskingTypes
  PROVE  /\ MaskedValues \in Seq(Secret)
         /\ \A i \in DOMAIN Environment : Environment[i] # <<>> =>
              /\ Environment[i] \in Secret
              /\ \E r \in 1 .. Len(MaskedValues) : MaskedValues[r] = Environment[i]
         /\ \A r, s \in 1 .. Len(MaskedValues) :
              r <= s => Len(MaskedValues[s]) <= Len(MaskedValues[r])
<1> DEFINE places == {i \in DOMAIN Environment : Environment[i] # <<>>}
           values == [i \in places |-> Environment[i]]
           n == Cardinality(places)
<1>1. /\ DOMAIN Environment \subseteq DOMAIN asks
      /\ \A i \in DOMAIN Environment : Environment[i] \in Seq(Letters)
  <2>1. ASSUME NEW k \in DOMAIN store  PROVE store[k] \in Seq(Letters)
    BY <2>1, MaskingAssumption DEF MaskingTypes, MaskingAssumption
  <2> QED  BY <2>1 DEF Environment
<1>2. Cardinality(Keys) \in Nat /\ DOMAIN asks = 1 .. Cardinality(Keys)
  BY FS_CardinalityType, MaskingAssumption DEF MaskingAssumption, MaskingTypes
<1>3. places \subseteq Nat /\ IsFiniteSet(places)
  <2>1. IsFiniteSet(DOMAIN asks)
    BY <1>2, FS_Interval
  <2>2. places \subseteq DOMAIN asks
    BY <1>1
  <2> HIDE DEF places
  <2> QED  BY <1>2, <2>1, <2>2, FS_Subset
<1>4. values \in [places -> Seq(Letters)] /\ \A i \in places : values[i] = Environment[i]
  BY <1>1
<1>5. MaskedValues = LongestFirst(values)
  BY DEF MaskedValues
<1>6. /\ n \in Nat
      /\ DOMAIN MaskedValues = 1 .. n
      /\ \A r \in 1 .. n : \E i \in places : MaskedValues[r] = values[i]
      /\ \A i \in places : \E r \in 1 .. n : MaskedValues[r] = values[i]
      /\ \A r, s \in 1 .. n : r <= s => Len(MaskedValues[s]) <= Len(MaskedValues[r])
  <2> HIDE DEF places, values
  <2>1. LET sorted == LongestFirst(values)
        IN  /\ Cardinality(places) \in Nat
            /\ DOMAIN sorted = 1 .. Cardinality(places)
            /\ \A r \in 1 .. Cardinality(places) : \E i \in places : sorted[r] = values[i]
            /\ \A i \in places : \E r \in 1 .. Cardinality(places) : sorted[r] = values[i]
            /\ \A r, s \in 1 .. Cardinality(places) : r <= s => Len(sorted[s]) <= Len(sorted[r])
    BY <1>3, <1>4, LongestFirstOrders
  <2> QED  BY <1>5, <2>1 DEF n
<1>7. \A i \in places : values[i] \in Secret
  BY <1>4 DEF Secret
<1> HIDE DEF places, values, n
<1>8. MaskedValues \in Seq(Secret) /\ Len(MaskedValues) = n
  <2>1. \A r \in 1 .. n : MaskedValues[r] \in Secret
    BY <1>6, <1>7
  <2>2. MaskedValues = [r \in 1 .. n |-> MaskedValues[r]]
    BY <1>5, <1>6 DEF LongestFirst, InOrder
  <2>3. MaskedValues \in [1 .. n -> Secret]
    BY <2>1, <2>2
  <2> QED  BY <1>6, <2>3
<1>9. \A i \in DOMAIN Environment :
        Environment[i] # <<>> => i \in places /\ values[i] = Environment[i]
  BY <1>4 DEF places
<1> QED  BY <1>6, <1>7, <1>8, <1>9

MaskingSpec == MaskingInit /\ [][MaskingNext]_maskingVars

\* No secret is left in what a run file keeps of the output, whatever the agent prints, also
\* when secrets overlap or one is a part of another; the replacements are shown from the
\* recursive definitions of str::replace and Masker::apply (secrets.rs Masker).
THEOREM SecretsAreMasked ==
  MaskingSpec => []NothingLeft
<1>1. MaskingInit => MaskingTypes
  BY EmptySeq DEF MaskingInit, MaskingTypes
<1>2. MaskingTypes /\ [MaskingNext]_maskingVars => MaskingTypes'
  <2> SUFFICES ASSUME MaskingTypes, [MaskingNext]_maskingVars PROVE MaskingTypes'
    OBVIOUS
  <2>1. store' = store /\ asks' = asks
    BY DEF MaskingNext, Prints, maskingVars
  <2>2. output' \in Seq(Letters)
    <3>1. output \in Seq(Letters)
      BY DEF MaskingTypes
    <3> QED  BY <3>1, AppendProperties DEF MaskingNext, Prints, maskingVars
  <2> QED  BY <2>1, <2>2 DEF MaskingTypes
<1>3. MaskingTypes => NothingLeft
  <2> SUFFICES ASSUME MaskingTypes, NEW i \in DOMAIN Environment, Environment[i] # <<>>
               PROVE  /\ \A k \in 1 .. Len(Masked(output)) :
                           ~OccursAt(Environment[i], Masked(output), k)
                      /\ output = Environment[i] => Masked(output) = <<Mask>>
    BY DEF NothingLeft
  <2> DEFINE values == MaskedValues
  <2>1. /\ values \in Seq(Secret) /\ Environment[i] \in Secret
        /\ \E r \in 1 .. Len(values) : values[r] = Environment[i]
        /\ \A r, s \in 1 .. Len(values) : r <= s => Len(values[s]) <= Len(values[r])
    BY ValuesMasked
  <2>2. output \in Marked
    BY SeqMonotonic DEF MaskingTypes, Marked
  <2>3. PICK after : /\ Applied(values, output, after)
                     /\ \A k \in 0 .. Len(values) : after[k] \in Marked
                     /\ Masked(output) = after[Len(values)]
    BY <2>1, <2>2, MaskedSteps
  <2> HIDE DEF values
  <2>4. \A r \in 1 .. Len(values) : \A j \in 1 .. Len(Masked(output)) :
          ~OccursAt(values[r], Masked(output), j)
    BY <2>1, <2>2, <2>3, NoneApplied
  <2>5. ASSUME output = Environment[i]  PROVE Masked(output) = <<Mask>>
    BY <2>1, <2>3, <2>5, WholeMasked
  <2> QED  BY <2>1, <2>4, <2>5
<1> QED  BY <1>1, <1>2, <1>3, PTL DEF MaskingSpec

-----------------------------------------------------------------------------
(* The executor of a node.                                                 *)

LEMMA Inserted ==
  ASSUME NEW S, NEW s \in Seq(S), NEW i \in 1 .. Len(s) + 1, NEW e \in S
  PROVE  LET t == InsertAt(s, i, e)
         IN  /\ t \in Seq(S) /\ Len(t) = Len(s) + 1
             /\ \A k \in 1 .. i - 1 : t[k] = s[k]
             /\ t[i] = e
             /\ \A k \in i .. Len(s) : t[k + 1] = s[k]
<1> DEFINE L == Len(s)
           before == SubSeq(s, 1, i - 1)
           rest == SubSeq(s, i, L)
           front == before \o <<e>>
           t == front \o rest
<1>1. L \in Nat /\ i \in Nat /\ i >= 1 /\ i <= L + 1
  BY LenProperties
<1>2. \A k \in 1 .. L : s[k] \in S
  BY ElementOfSeq
<1>3. before \in Seq(S) /\ Len(before) = i - 1 /\ \A k \in 1 .. i - 1 : before[k] = s[k]
  <2>1. 1 \in Int /\ i - 1 \in Int /\ \A k \in 1 .. i - 1 : s[k] \in S
    BY <1>1, <1>2
  <2>2. /\ before \in Seq(S) /\ Len(before) = IF 1 <= i - 1 THEN (i - 1) - 1 + 1 ELSE 0
        /\ \A k \in 1 .. (i - 1) - 1 + 1 : before[k] = s[1 + k - 1]
    BY <2>1, SubSeqProperties
  <2> HIDE DEF before
  <2>3. (i - 1) - 1 + 1 = i - 1 /\ \A k \in 1 .. i - 1 : 1 + k - 1 = k
    BY <1>1
  <2> QED  BY <1>1, <2>2, <2>3
<1>4. rest \in Seq(S) /\ Len(rest) = L + 1 - i /\ \A k \in 1 .. L + 1 - i : rest[k] = s[i + k - 1]
  <2>1. L \in Int /\ i \in Int /\ \A k \in i .. L : s[k] \in S
    BY <1>1, <1>2
  <2>2. /\ rest \in Seq(S) /\ Len(rest) = IF i <= L THEN L - i + 1 ELSE 0
        /\ \A k \in 1 .. L - i + 1 : rest[k] = s[i + k - 1]
    <3> HIDE DEF L
    <3> QED  BY <2>1, SubSeqProperties
  <2> HIDE DEF rest, L
  <2>3. L - i + 1 = L + 1 - i
    BY <1>1
  <2> QED  BY <1>1, <2>2, <2>3
<1>5. <<e>> \in Seq(S) /\ Len(<<e>>) = 1 /\ <<e>>[1] = e
  OBVIOUS
<1> HIDE DEF before, rest
<1>6. /\ front \in Seq(S) /\ Len(front) = i
      /\ \A k \in 1 .. i - 1 : front[k] = s[k]
      /\ front[i] = e
  <2>1. /\ front \in Seq(S) /\ Len(front) = (i - 1) + 1
        /\ \A k \in 1 .. (i - 1) + 1 : front[k] = IF k <= i - 1 THEN before[k] ELSE <<e>>[k - (i - 1)]
    <3>1. PICK p \in Nat, o \in Nat, last \in Seq(S) : p = i - 1 /\ o = 1 /\ last = <<e>>
      <4>1. i - 1 \in Nat /\ 1 \in Nat
        BY <1>1
      <4> QED  BY <1>5, <4>1
    <3>2. /\ before \in Seq(S) /\ Len(before) = p
          /\ last \in Seq(S) /\ Len(last) = o
      BY <1>3, <1>5, <3>1
    <3>3. /\ before \o last \in Seq(S) /\ Len(before \o last) = p + o
          /\ \A k \in 1 .. p + o : (before \o last)[k] = IF k <= p THEN before[k] ELSE last[k - p]
      BY <3>2, ConcatProperties
    <3> QED  BY <3>1, <3>3
  <2> HIDE DEF front
  <2>2. (i - 1) + 1 = i /\ i - (i - 1) = 1 /\ ~(i <= i - 1) /\ i \in 1 .. i
    BY <1>1
  <2>3. front[i] = e
    BY <1>5, <2>1, <2>2
  <2>4. \A k \in 1 .. i - 1 : k \in 1 .. i /\ k <= i - 1
    BY <1>1
  <2> QED  BY <1>3, <2>1, <2>2, <2>3, <2>4
<1> HIDE DEF front
<1>7. /\ t \in Seq(S) /\ Len(t) = i + (L + 1 - i)
      /\ \A k \in 1 .. i + (L + 1 - i) : t[k] = IF k <= i THEN front[k] ELSE rest[k - i]
  BY <1>4, <1>6, ConcatProperties
<1> HIDE DEF t
<1>8. Len(t) = L + 1 /\ \A k \in 1 .. L + 1 : t[k] = IF k <= i THEN front[k] ELSE rest[k - i]
  <2> HIDE DEF L
  <2>1. i + (L + 1 - i) = L + 1
    BY <1>1
  <2> QED  BY <1>7, <2>1
<1>9. ASSUME NEW k \in i .. L  PROVE t[k + 1] = s[k]
  <2> HIDE DEF L
  <2>1. /\ k + 1 \in 1 .. L + 1 /\ ~(k + 1 <= i) /\ (k + 1) - i \in 1 .. L + 1 - i
        /\ i + ((k + 1) - i) - 1 = k
    BY <1>1
  <2> QED  BY <1>4, <1>8, <2>1
<1>10. ASSUME NEW k \in 1 .. i - 1  PROVE t[k] = s[k]
  <2> HIDE DEF L
  <2>1. k \in 1 .. L + 1 /\ k <= i
    BY <1>1
  <2> QED  BY <1>6, <1>8, <2>1
<1>11. t[i] = e
  <2> HIDE DEF L
  <2>1. i \in 1 .. L + 1 /\ i <= i
    BY <1>1
  <2> QED  BY <1>6, <1>8, <2>1
<1>12. InsertAt(s, i, e) = t
  BY DEF InsertAt, t, front, before, rest
<1> QED  BY <1>7, <1>8, <1>9, <1>10, <1>11, <1>12

-----------------------------------------------------------------------------
FlagTexts == Plain \cup Special \cup Typed \cup {NoText, "false"}
FlagKinds == {"entry", "item", "blank", "comment"}
FlagKeys == {"model_tier", "skills", "interactive", "none"}
FlagLines == [kind : FlagKinds, indent : Nat, key : FlagKeys, text : FlagTexts, quoted : BOOLEAN]
SkillLists == Seq(Plain \cup Special)

LEMMA LineTyped ==
  ASSUME NEW kind \in FlagKinds, NEW indent \in Nat, NEW key \in FlagKeys, NEW text \in FlagTexts,
         NEW quoted \in BOOLEAN
  PROVE  FlagLine(kind, indent, key, text, quoted) \in FlagLines
BY DEF FlagLine, FlagLines

LEMMA QuotedTyped == \A text : Quoted(text) \in BOOLEAN
BY DEF Quoted

SkillsEntry == FlagLine("entry", 0, "skills", NoText, FALSE)
SkillItem(indent, skill) == FlagLine("item", indent, "none", skill, Quoted(skill))

\* What a.md has for a tier and skills, whatever people did to it: the three entries in order,
\* the items without a gap behind theirs, and notes elsewhere.
Lies(s, tier, skills, a, b, c, indent) ==
  /\ {a, b, c} \subseteq DOMAIN s /\ a < b /\ b + Len(skills) < c
  /\ s[a] = Field("model_tier", tier)
  /\ s[b] = SkillsEntry
  /\ s[c] = Field("interactive", "false")
  /\ \A j \in 1 .. Len(skills) : s[b + j] = SkillItem(indent, skills[j])
  /\ \A i \in DOMAIN s : \/ i \in {a, b, c}
                         \/ \E j \in 1 .. Len(skills) : i = b + j
                         \/ s[i] \in {BlankLine, Comment}

FlagKept(s, tier, skills) ==
  \E a, b, c \in DOMAIN s, indent \in {1, 2, 4} : Lies(s, tier, skills, a, b, c, indent)

LEMMA AgentFieldsKept ==
  ASSUME NEW tier \in Tiers, NEW skills \in SkillLists
  PROVE  AgentFields(tier, skills) \in Seq(FlagLines) /\ FlagKept(AgentFields(tier, skills), tier, skills)
<1> DEFINE m == Len(skills)
           items == [i \in DOMAIN skills |-> FlagLine("item", 2, "none", skills[i], Quoted(skills[i]))]
           list == <<SkillsEntry>> \o items
           first == <<Field("model_tier", tier)>>
           last == <<Field("interactive", "false")>>
           front == first \o list
           s == front \o last
<1>1. m \in Nat /\ DOMAIN skills = 1 .. m /\ \A i \in 1 .. m : skills[i] \in Plain \cup Special
  BY LenProperties, ElementOfSeq DEF SkillLists
<1>2. \A i \in 1 .. m : SkillItem(2, skills[i]) \in FlagLines
  <2> TAKE i \in 1 .. m
  <2>1. skills[i] \in FlagTexts
    BY <1>1 DEF FlagTexts
  <2>2. Quoted(skills[i]) \in BOOLEAN /\ 2 \in Nat /\ "item" \in FlagKinds /\ "none" \in FlagKeys
    BY QuotedTyped DEF FlagKinds, FlagKeys
  <2> QED  BY <2>1, <2>2, LineTyped DEF SkillItem
<1>3. items \in Seq(FlagLines) /\ Len(items) = m /\ \A i \in 1 .. m : items[i] = SkillItem(2, skills[i])
  BY <1>1, <1>2 DEF SkillItem
<1>4. /\ SkillsEntry \in FlagLines /\ Field("model_tier", tier) \in FlagLines
      /\ Field("interactive", "false") \in FlagLines
  <2>1. tier \in FlagTexts /\ NoText \in FlagTexts /\ "false" \in FlagTexts
    BY FlagsAssumption DEF FlagsAssumption, FlagTexts
  <2>2. /\ Quoted(tier) \in BOOLEAN /\ Quoted("false") \in BOOLEAN /\ FALSE \in BOOLEAN
        /\ 0 \in Nat /\ "entry" \in FlagKinds /\ "skills" \in FlagKeys /\ "model_tier" \in FlagKeys
        /\ "interactive" \in FlagKeys
    BY QuotedTyped DEF FlagKinds, FlagKeys
  <2>3. SkillsEntry \in FlagLines
    BY <2>1, <2>2, LineTyped DEF SkillsEntry
  <2>4. Field("model_tier", tier) \in FlagLines
    BY <2>1, <2>2, LineTyped DEF Field
  <2>5. Field("interactive", "false") \in FlagLines
    BY <2>1, <2>2, LineTyped DEF Field
  <2> QED  BY <2>3, <2>4, <2>5
<1>5. /\ <<SkillsEntry>> \in Seq(FlagLines) /\ Len(<<SkillsEntry>>) = 1 /\ <<SkillsEntry>>[1] = SkillsEntry
      /\ first \in Seq(FlagLines) /\ Len(first) = 1 /\ first[1] = Field("model_tier", tier)
      /\ last \in Seq(FlagLines) /\ Len(last) = 1 /\ last[1] = Field("interactive", "false")
  BY <1>4
<1> HIDE DEF items, first, last, m
<1>6. /\ list \in Seq(FlagLines) /\ Len(list) = 1 + m
      /\ \A k \in 1 .. 1 + m : list[k] = IF k <= 1 THEN <<SkillsEntry>>[k] ELSE items[k - 1]
  BY <1>3, <1>5, ConcatProperties
<1> HIDE DEF list
<1>7. /\ front \in Seq(FlagLines) /\ Len(front) = 1 + (1 + m)
      /\ \A k \in 1 .. 1 + (1 + m) : front[k] = IF k <= 1 THEN first[k] ELSE list[k - 1]
  <2>1. PICK n \in Nat, o \in Nat : n = 1 + m /\ o = 1
    BY <1>1
  <2>2. /\ list \in Seq(FlagLines) /\ Len(list) = n
        /\ first \in Seq(FlagLines) /\ Len(first) = o
    BY <1>5, <1>6, <2>1
  <2>3. /\ front \in Seq(FlagLines) /\ Len(front) = o + n
        /\ \A k \in 1 .. o + n : front[k] = IF k <= o THEN first[k] ELSE list[k - o]
    BY <2>2, ConcatProperties
  <2> QED  BY <2>1, <2>3
<1> HIDE DEF front
<1>8. /\ s \in Seq(FlagLines) /\ Len(s) = (1 + (1 + m)) + 1
      /\ \A k \in 1 .. (1 + (1 + m)) + 1 :
           s[k] = IF k <= 1 + (1 + m) THEN front[k] ELSE last[k - (1 + (1 + m))]
  <2>1. PICK n \in Nat, o \in Nat : n = 1 + (1 + m) /\ o = 1
    BY <1>1
  <2>2. /\ front \in Seq(FlagLines) /\ Len(front) = n
        /\ last \in Seq(FlagLines) /\ Len(last) = o
    BY <1>5, <1>7, <2>1
  <2>3. /\ s \in Seq(FlagLines) /\ Len(s) = n + o
        /\ \A k \in 1 .. n + o : s[k] = IF k <= n THEN front[k] ELSE last[k - n]
    BY <2>2, ConcatProperties
  <2> QED  BY <2>1, <2>3
<1> HIDE DEF s
<1>9. DOMAIN s = 1 .. m + 3 /\ m + 3 = (1 + (1 + m)) + 1
  BY <1>1, <1>8, LenProperties
<1>10. s[1] = Field("model_tier", tier)
  <2>1. 1 \in 1 .. (1 + (1 + m)) + 1 /\ 1 <= 1 + (1 + m) /\ 1 \in 1 .. 1 + (1 + m)
    BY <1>1
  <2> QED  BY <1>5, <1>7, <1>8, <2>1
<1>11. s[2] = SkillsEntry
  <2>1. /\ 2 \in 1 .. (1 + (1 + m)) + 1 /\ 2 <= 1 + (1 + m) /\ 2 \in 1 .. 1 + (1 + m)
        /\ ~(2 <= 1) /\ 2 - 1 = 1 /\ 1 \in 1 .. 1 + m
    BY <1>1
  <2> QED  BY <1>5, <1>6, <1>7, <1>8, <2>1
<1>12. s[m + 3] = Field("interactive", "false")
  <2>1. m + 3 \in 1 .. (1 + (1 + m)) + 1 /\ ~(m + 3 <= 1 + (1 + m)) /\ (m + 3) - (1 + (1 + m)) = 1
    BY <1>1
  <2> QED  BY <1>5, <1>8, <2>1
<1>13. ASSUME NEW j \in 1 .. m  PROVE s[2 + j] = SkillItem(2, skills[j])
  <2>1. /\ 2 + j \in 1 .. (1 + (1 + m)) + 1 /\ 2 + j <= 1 + (1 + m) /\ 2 + j \in 1 .. 1 + (1 + m)
        /\ ~(2 + j <= 1) /\ (2 + j) - 1 = 1 + j /\ 1 + j \in 1 .. 1 + m /\ ~(1 + j <= 1)
        /\ (1 + j) - 1 = j
    BY <1>1
  <2> QED  BY <1>3, <1>6, <1>7, <1>8, <2>1
<1>14. ASSUME NEW i \in 1 .. m + 3  PROVE i \in {1, 2, m + 3} \/ \E j \in 1 .. m : i = 2 + j
  <2>1. CASE i \notin {1, 2, m + 3}
    <3>1. i - 2 \in 1 .. m /\ i = 2 + (i - 2)
      BY <1>1, <2>1
    <3> QED  BY <3>1
  <2> QED  BY <2>1
<1>15. Lies(s, tier, skills, 1, 2, m + 3, 2)
  <2>1. {1, 2, m + 3} \subseteq DOMAIN s /\ 1 < 2 /\ 2 + m < m + 3
    BY <1>1, <1>9
  <2> QED  BY <1>9, <1>10, <1>11, <1>12, <1>13, <1>14, <2>1 DEF Lies, m
<1>16. AgentFields(tier, skills) = s
  <2>1. ListField("skills", skills) = list
    BY DEF ListField, list, items, SkillsEntry
  <2>2. AgentFields(tier, skills) = (first \o list) \o last
    BY <2>1 DEF AgentFields, first, last
  <2> QED  BY <2>2 DEF s, front
<1>17. FlagKept(s, tier, skills)
  <2>1. 1 \in DOMAIN s /\ 2 \in DOMAIN s /\ m + 3 \in DOMAIN s
    BY <1>1, <1>9
  <2> QED  BY <1>15, <2>1 DEF FlagKept
<1> QED  BY <1>8, <1>16, <1>17

LEMMA NotesKept ==
  ASSUME NEW tier, NEW skills \in SkillLists, NEW s \in Seq(FlagLines), FlagKept(s, tier, skills),
         NEW i \in 1 .. Len(s) + 1, i <= Len(s) => s[i].kind = "entry",
         NEW note \in {BlankLine, Comment}
  PROVE  InsertAt(s, i, note) \in Seq(FlagLines) /\ FlagKept(InsertAt(s, i, note), tier, skills)
<1> DEFINE t == InsertAt(s, i, note)
           L == Len(s)
           m == Len(skills)
           To(k) == IF k < i THEN k ELSE k + 1
<1>1. PICK a \in DOMAIN s, b \in DOMAIN s, c \in DOMAIN s, indent \in {1, 2, 4} :
         Lies(s, tier, skills, a, b, c, indent)
  BY DEF FlagKept
<1>2. L \in Nat /\ m \in Nat /\ DOMAIN s = 1 .. L
  BY LenProperties DEF SkillLists
<1>3. note \in FlagLines
  <2>1. NoText \in FlagTexts /\ FALSE \in BOOLEAN /\ 0 \in Nat /\ "none" \in FlagKeys
        /\ "blank" \in FlagKinds /\ "comment" \in FlagKinds
    BY DEF FlagTexts, FlagKinds, FlagKeys
  <2>2. BlankLine \in FlagLines /\ Comment \in FlagLines
    BY <2>1, LineTyped DEF BlankLine, Comment
  <2> QED  BY <2>2
<1>4. /\ t \in Seq(FlagLines) /\ Len(t) = L + 1
      /\ \A k \in 1 .. i - 1 : t[k] = s[k]
      /\ t[i] = note
      /\ \A k \in i .. L : t[k + 1] = s[k]
  BY <1>3, Inserted
<1> HIDE DEF t
<1>5. DOMAIN t = 1 .. L + 1
  BY <1>2, <1>4, LenProperties
<1>6. ASSUME NEW k \in 1 .. L  PROVE To(k) \in 1 .. L + 1 /\ t[To(k)] = s[k]
  <2> HIDE DEF L
  <2>1. CASE k < i
    <3>1. k \in 1 .. i - 1 /\ k \in 1 .. L + 1
      BY <1>2, <2>1
    <3> QED  BY <1>4, <2>1, <3>1
  <2>2. CASE ~(k < i)
    <3>1. k \in i .. L /\ k + 1 \in 1 .. L + 1
      BY <1>2, <2>2
    <3> QED  BY <1>4, <2>2, <3>1
  <2> QED  BY <2>1, <2>2
<1>7. ASSUME NEW k \in 1 .. L + 1  PROVE k = i \/ \E h \in 1 .. L : k = To(h)
  <2> HIDE DEF L
  <2>1. CASE k < i
    <3>1. k \in 1 .. L /\ k = To(k)
      BY <1>2, <2>1
    <3> QED  BY <3>1
  <2>2. CASE k > i
    <3>1. k - 1 \in 1 .. L /\ k = To(k - 1)
      BY <1>2, <2>2
    <3> QED  BY <3>1
  <2> QED  BY <1>2, <2>1, <2>2
<1>8. i \in {a, b, c} \/ i = L + 1
  <2> SUFFICES ASSUME i \in 1 .. L PROVE i \in {a, b, c}
    BY <1>2
  <2>1. s[i].kind = "entry"
    BY <1>2
  <2>2. s[i] \notin {BlankLine, Comment}
    BY <2>1 DEF BlankLine, Comment, FlagLine
  <2>3. ASSUME NEW j \in 1 .. m, i = b + j  PROVE FALSE
    <3>1. s[i] = SkillItem(indent, skills[j])
      BY <1>1, <2>3 DEF Lies
    <3> QED  BY <2>1, <3>1 DEF SkillItem, FlagLine
  <2> QED  BY <1>1, <1>2, <2>2, <2>3 DEF Lies
<1>9. /\ a \in 1 .. L /\ b \in 1 .. L /\ c \in 1 .. L /\ a < b /\ b + m < c
      /\ \A j \in 1 .. m : b + j \in 1 .. L
  <2>1. a \in 1 .. L /\ b \in 1 .. L /\ c \in 1 .. L /\ a < b /\ b + m < c
    BY <1>1, <1>2 DEF Lies
  <2> HIDE DEF L, m
  <2> QED  BY <1>2, <2>1
<1>10. \A j \in 1 .. m : To(b + j) = To(b) + j
  <2> HIDE DEF L, m
  <2> TAKE j \in 1 .. m
  <2>1. i \in Int /\ b \in Int /\ c \in Int /\ j \in Int /\ 1 <= j /\ j <= m /\ b + m < c /\ c <= L
    BY <1>2, <1>9
  <2>2. i <= b \/ b + j < i
    BY <1>2, <1>8, <1>9, <2>1
  <2>3. CASE i <= b
    <3>1. ~(b < i) /\ ~(b + j < i)
      BY <2>1, <2>3
    <3> QED  BY <2>1, <3>1
  <2>4. CASE b + j < i
    <3>1. b < i
      BY <2>1, <2>4
    <3> QED  BY <2>4, <3>1
  <2> QED  BY <2>2, <2>3, <2>4
<1>11. To(a) < To(b) /\ To(b) + m < To(c)
  <2> HIDE DEF L, m
  <2> QED  BY <1>2, <1>8, <1>9
<1> HIDE DEF To
<1>12. /\ t[To(a)] = Field("model_tier", tier) /\ t[To(b)] = SkillsEntry
       /\ t[To(c)] = Field("interactive", "false")
       /\ {To(a), To(b), To(c)} \subseteq DOMAIN t
  BY <1>1, <1>5, <1>6, <1>9 DEF Lies
<1>13. \A j \in 1 .. m : t[To(b) + j] = SkillItem(indent, skills[j])
  <2>1. \A j \in 1 .. m : t[To(b + j)] = s[b + j]
    BY <1>6, <1>9
  <2> QED  BY <1>1, <1>10, <2>1 DEF Lies
<1>14. ASSUME NEW k \in DOMAIN t
       PROVE  \/ k \in {To(a), To(b), To(c)}
              \/ \E j \in 1 .. m : k = To(b) + j
              \/ t[k] \in {BlankLine, Comment}
  <2>1. CASE k = i
    BY <1>4, <2>1
  <2>2. ASSUME NEW h \in 1 .. L, k = To(h)
        PROVE  \/ k \in {To(a), To(b), To(c)}
               \/ \E j \in 1 .. m : k = To(b) + j
               \/ t[k] \in {BlankLine, Comment}
    <3>1. h \in {a, b, c} \/ (\E j \in 1 .. m : h = b + j) \/ s[h] \in {BlankLine, Comment}
      BY <1>1, <1>2 DEF Lies
    <3>2. CASE \E j \in 1 .. m : h = b + j
      BY <1>10, <2>2, <3>2
    <3>3. CASE s[h] \in {BlankLine, Comment}
      BY <1>6, <2>2, <3>3
    <3> QED  BY <2>2, <3>1, <3>2, <3>3
  <2> QED  BY <1>5, <1>7, <2>1, <2>2
<1>15. Lies(t, tier, skills, To(a), To(b), To(c), indent)
  BY <1>11, <1>12, <1>13, <1>14 DEF Lies
<1>16. FlagKept(t, tier, skills)
  BY <1>12, <1>15 DEF FlagKept
<1> QED  BY <1>4, <1>16 DEF t
LEMMA IndentKept ==
  ASSUME NEW tier, NEW skills \in SkillLists, NEW s \in Seq(FlagLines), FlagKept(s, tier, skills),
         NEW indent \in {1, 4}
  PROVE  LET t == [i \in DOMAIN s |-> IF s[i].kind = "item" THEN [s[i] EXCEPT !.indent = indent] ELSE s[i]]
         IN  t \in Seq(FlagLines) /\ FlagKept(t, tier, skills)
<1> DEFINE moved(l) == IF l.kind = "item" THEN [l EXCEPT !.indent = indent] ELSE l
           t == [i \in DOMAIN s |-> moved(s[i])]
           L == Len(s)
           m == Len(skills)
<1>1. PICK a \in DOMAIN s, b \in DOMAIN s, c \in DOMAIN s, before \in {1, 2, 4} :
         Lies(s, tier, skills, a, b, c, before)
  BY DEF FlagKept
<1>2. L \in Nat /\ m \in Nat /\ DOMAIN s = 1 .. L
  BY LenProperties DEF SkillLists
<1>3. \A l \in FlagLines : moved(l) \in FlagLines
  <2> TAKE l \in FlagLines
  <2>1. indent \in Nat
    OBVIOUS
  <2>2. [l EXCEPT !.indent = indent] \in FlagLines
    BY <2>1 DEF FlagLines
  <2> QED  BY <2>2
<1>4. \A l : l.kind # "item" => moved(l) = l
  OBVIOUS
<1>5. \A skill : moved(SkillItem(before, skill)) = SkillItem(indent, skill)
  BY DEF SkillItem, FlagLine
<1> HIDE DEF moved
<1>6. \A i \in 1 .. L : moved(s[i]) \in FlagLines
  BY <1>2, <1>3, ElementOfSeq
<1>7. t \in Seq(FlagLines) /\ DOMAIN t = DOMAIN s /\ \A i \in DOMAIN s : t[i] = moved(s[i])
  <2> HIDE DEF L
  <2> QED  BY <1>2, <1>6
<1> HIDE DEF t
<1>8. /\ moved(Field("model_tier", tier)) = Field("model_tier", tier)
      /\ moved(SkillsEntry) = SkillsEntry
      /\ moved(Field("interactive", "false")) = Field("interactive", "false")
      /\ moved(BlankLine) = BlankLine /\ moved(Comment) = Comment
  <2>1. /\ Field("model_tier", tier).kind # "item" /\ SkillsEntry.kind # "item"
        /\ Field("interactive", "false").kind # "item"
        /\ BlankLine.kind # "item" /\ Comment.kind # "item"
    BY DEF Field, SkillsEntry, BlankLine, Comment, FlagLine
  <2> QED  BY <1>4, <2>1
<1>9. \A j \in 1 .. m : b + j \in DOMAIN s
  <2>1. a \in 1 .. L /\ b \in 1 .. L /\ c \in 1 .. L /\ a < b /\ b + m < c
    BY <1>1, <1>2 DEF Lies
  <2> HIDE DEF L, m
  <2> QED  BY <1>2, <2>1
<1>10. Lies(t, tier, skills, a, b, c, indent)
  <2>1. \A j \in 1 .. m : t[b + j] = SkillItem(indent, skills[j])
    BY <1>1, <1>5, <1>7, <1>9 DEF Lies
  <2>2. \A i \in DOMAIN t : \/ i \in {a, b, c}
                            \/ \E j \in 1 .. m : i = b + j
                            \/ t[i] \in {BlankLine, Comment}
    BY <1>1, <1>7, <1>8 DEF Lies
  <2>3. /\ t[a] = Field("model_tier", tier) /\ t[b] = SkillsEntry
        /\ t[c] = Field("interactive", "false")
    BY <1>1, <1>7, <1>8 DEF Lies
  <2>4. {a, b, c} \subseteq DOMAIN t /\ a < b /\ b + m < c
    BY <1>1, <1>7 DEF Lies
  <2> QED  BY <2>1, <2>2, <2>3, <2>4 DEF Lies
<1>11. FlagKept(t, tier, skills)
  BY <1>7, <1>10 DEF FlagKept
<1> QED  BY <1>7, <1>11 DEF t, moved

-----------------------------------------------------------------------------
\* What is quoted where it must be is read as the text it is.
LEMMA SkillIsText ==
  ASSUME NEW skill \in Plain \cup Special, NEW indent
  PROVE  Scalar(SkillItem(indent, skill)).type = "text" /\ SkillItem(indent, skill).text = skill
<1>1. SkillItem(indent, skill).text = skill /\ SkillItem(indent, skill).quoted = Quoted(skill)
  BY DEF SkillItem, FlagLine
<1>2. ~(~Quoted(skill) /\ Misread(skill))
  BY FlagsAssumption DEF FlagsAssumption, Quoted, Misread
<1> QED  BY <1>1, <1>2 DEF Scalar

LEMMA TierIsText ==
  ASSUME NEW tier \in Tiers
  PROVE  /\ Scalar(Field("model_tier", tier)) = [type |-> "text", texts |-> <<tier>>]
         /\ Field("model_tier", tier).text # NoText
<1>1. Field("model_tier", tier).text = tier /\ Field("model_tier", tier).quoted = Quoted(tier)
  BY DEF Field, FlagLine
<1>2. ~(~Quoted(tier) /\ Misread(tier)) /\ tier # NoText
  BY FlagsAssumption DEF FlagsAssumption, Quoted, Misread
<1> QED  BY <1>1, <1>2 DEF Scalar

\* Lines that are the items of skills and empty ones behind them.
SkillsListed(inner, n, skills, indent) ==
  /\ Len(skills) \in 1 .. n /\ DOMAIN inner = 1 .. n
  /\ \A j \in 1 .. Len(skills) : inner[j] = SkillItem(indent, skills[j])
  /\ \A j \in Len(skills) + 1 .. n : inner[j].kind = "blank"

LEMMA ItemsRead ==
  ASSUME NEW skills \in SkillLists, NEW indent \in {1, 2, 4}, NEW n \in Nat, NEW inner,
         SkillsListed(inner, n, skills, indent)
  PROVE  Items(inner).type = "list" /\ Items(inner).texts = skills
<1> DEFINE m == Len(skills)
           some == {i \in DOMAIN inner : inner[i].kind # "blank"}
           begins == {i \in some : /\ inner[i].kind = "item"
                                   /\ \A j \in some : \/ inner[i].indent <= inner[j].indent
                                                      \/ \E k \in some : k < j}
           alone == {i \in begins : \A j \in some \ begins :
                                      i < j => \E k \in begins : i < k /\ k < j}
           texts == {i \in alone : Scalar(inner[i]).type = "text"}
           place(k) == CHOOSE i \in texts : Cardinality({j \in texts : j <= i}) = k
<1>0. /\ m \in 1 .. n /\ DOMAIN inner = 1 .. n
      /\ \A j \in 1 .. m : inner[j] = SkillItem(indent, skills[j])
      /\ \A j \in m + 1 .. n : inner[j].kind = "blank"
  BY DEF SkillsListed
<1>1. m \in Nat /\ m <= n /\ m >= 1 /\ DOMAIN skills = 1 .. m
      /\ \A i \in 1 .. m : skills[i] \in Plain \cup Special
  BY <1>0, LenProperties, ElementOfSeq DEF SkillLists
<1>2. \A j \in 1 .. m : /\ inner[j].kind = "item" /\ inner[j].indent = indent
                        /\ inner[j].text = skills[j] /\ Scalar(inner[j]).type = "text"
  <2> TAKE j \in 1 .. m
  <2>1. inner[j] = SkillItem(indent, skills[j]) /\ skills[j] \in Plain \cup Special
    BY <1>0, <1>1
  <2>2. SkillItem(indent, skills[j]).kind = "item" /\ SkillItem(indent, skills[j]).indent = indent
    BY DEF SkillItem, FlagLine
  <2> QED  BY <2>1, <2>2, SkillIsText
<1>3. some = 1 .. m
  <2>1. \A j \in 1 .. n : j \in 1 .. m \/ j \in m + 1 .. n
    BY <1>1
  <2>2. \A j \in 1 .. m : j \in 1 .. n
    BY <1>1
  <2>3. \A j \in 1 .. m : inner[j].kind # "blank"
    BY <1>2
  <2> HIDE DEF m
  <2> QED  BY <1>0, <2>1, <2>2, <2>3
<1> HIDE DEF some, m
<1>4. begins = 1 .. m
  <2>1. indent <= indent
    OBVIOUS
  <2> QED  BY <1>2, <1>3, <2>1
<1> HIDE DEF begins
<1>5. alone = 1 .. m
  BY <1>3, <1>4
<1> HIDE DEF alone
<1>6. texts = 1 .. m
  BY <1>2, <1>5
<1> HIDE DEF texts
<1>7. \A i \in 1 .. m : Cardinality({j \in texts : j <= i}) = i
  <2> TAKE i \in 1 .. m
  <2>1. {j \in texts : j <= i} = 1 .. i
    BY <1>1, <1>6
  <2>2. Cardinality(1 .. i) = i
    <3>1. i \in Int /\ 1 \in Int /\ ~(1 > i) /\ i - 1 + 1 = i
      BY <1>1
    <3> QED  BY <3>1, FS_Interval
  <2> QED  BY <2>1, <2>2
<1>8. Cardinality(texts) = m
  <2>1. m \in Int /\ 1 \in Int /\ ~(1 > m) /\ m - 1 + 1 = m
    BY <1>1
  <2> QED  BY <1>6, <2>1, FS_Interval
<1>9. \A k \in 1 .. m : place(k) = k
  BY <1>6, <1>7
<1> HIDE DEF place
<1>10. Items(inner) = [type |-> "list", texts |-> [k \in 1 .. Cardinality(texts) |-> inner[place(k)].text]]
  BY DEF Items, place, texts, alone, begins, some
<1>11. [k \in 1 .. Cardinality(texts) |-> inner[place(k)].text] = [k \in 1 .. m |-> skills[k]]
  BY <1>2, <1>8, <1>9
<1>12. skills = [k \in 1 .. m |-> skills[k]]
  BY <1>1 DEF SkillLists
<1> QED  BY <1>10, <1>11, <1>12

\* A line that is no line of the list or map before it, and what is read of lines with one.
Outer(line) == line.kind # "blank" /\ line.indent = 0
ReadUpTo(s, n) ==
  /\ DOMAIN Inner(s) = 1 .. n
  /\ \A i \in 1 .. n : Inner(s)[i] = s[i] /\ ~Outer(s[i])
  /\ Outer(s[n + 1])

LEMMA InnerRead ==
  ASSUME NEW s \in Seq(FlagLines), NEW e \in 1 .. Len(s), Outer(s[e])
  PROVE  \E n \in Nat : n < e /\ ReadUpTo(s, n)
<1> DEFINE ends == {i \in DOMAIN s : Outer(s[i])}
           end == CHOOSE i \in ends : \A j \in ends : i <= j
<1>1. Len(s) \in Nat /\ DOMAIN s = 1 .. Len(s) /\ e \in ends
  BY LenProperties
<1>2. end \in ends /\ \A j \in ends : end <= j
  <2>1. \E i \in ends : \A j \in ends : i <= j
    <3>1. ends \subseteq Nat /\ ends # {}
      BY <1>1
    <3> QED  BY <3>1, LeastNumber
  <2> QED  BY <2>1
<1>3. end \in 1 .. Len(s) /\ Outer(s[end])
  BY <1>1, <1>2
<1>4. end <= e /\ end \in Nat
  <2>1. end \in Nat
    <3> HIDE DEF end
    <3> QED  BY <1>1, <1>3
  <2>2. end <= e
    <3> HIDE DEF end, ends
    <3> QED  BY <1>1, <1>2
  <2> QED  BY <2>1, <2>2
<1>5. \A i \in 1 .. end - 1 : ~Outer(s[i])
  <2> SUFFICES ASSUME NEW i \in 1 .. end - 1, Outer(s[i])
               PROVE  FALSE
    OBVIOUS
  <2>1. i \in DOMAIN s /\ ~(end <= i)
    BY <1>1, <1>3
  <2>2. i \in ends
    BY <2>1
  <2> HIDE DEF ends, end
  <2> QED  BY <1>2, <2>1, <2>2
<1>6. Inner(s) = SubSeq(s, 1, end - 1)
  BY <1>1 DEF Inner, Outer
<1> HIDE DEF end, ends
<1>7. \A i \in 1 .. end - 1 : s[i] \in FlagLines
  BY <1>1, <1>3, ElementOfSeq
<1>8. /\ Inner(s) \in Seq(FlagLines) /\ Len(Inner(s)) = end - 1
      /\ \A i \in 1 .. end - 1 : Inner(s)[i] = s[i]
  <2>1. 1 \in Int /\ end - 1 \in Int
    BY <1>4
  <2> DEFINE inner == SubSeq(s, 1, end - 1)
  <2>2. /\ inner \in Seq(FlagLines) /\ Len(inner) = IF 1 <= end - 1 THEN (end - 1) - 1 + 1 ELSE 0
        /\ \A k \in 1 .. (end - 1) - 1 + 1 : inner[k] = s[1 + k - 1]
    BY <1>7, <2>1, SubSeqProperties
  <2> HIDE DEF inner
  <2>3. (end - 1) - 1 + 1 = end - 1 /\ \A k \in 1 .. end - 1 : 1 + k - 1 = k
    BY <1>3, <1>4
  <2>4. ~(1 <= end - 1) => end - 1 = 0
    BY <1>1, <1>3
  <2>5. Inner(s) = inner
    BY <1>6 DEF inner
  <2> QED  BY <2>2, <2>3, <2>4, <2>5
<1>9. DOMAIN Inner(s) = 1 .. end - 1
  BY <1>8, LenProperties
<1>10. end - 1 \in Nat /\ end - 1 < e /\ (end - 1) + 1 = end
  BY <1>1, <1>3, <1>4
<1>11. ReadUpTo(s, end - 1)
  BY <1>3, <1>5, <1>8, <1>9, <1>10 DEF ReadUpTo
<1> QED  BY <1>10, <1>11

LEMMA ReadBack ==
  ASSUME NEW tier \in Tiers, NEW skills \in SkillLists, NEW s \in Seq(FlagLines), FlagKept(s, tier, skills)
  PROVE  LET fields == ParseBlock(s)
         IN  /\ "model_tier" \in DOMAIN fields /\ "skills" \in DOMAIN fields
             /\ fields["model_tier"] = [type |-> "text", texts |-> <<tier>>]
             /\ IF fields["skills"].type = "list" THEN fields["skills"].texts = skills ELSE skills = <<>>
<1> DEFINE heads == {i \in DOMAIN s : s[i].kind = "entry" /\ s[i].indent = 0}
           keys == {s[i].key : i \in heads}
           after(i) == SubSeq(s, i + 1, Len(s))
           value(i) ==
             IF s[i].text # NoText THEN Scalar(s[i])
             ELSE IF after(i) = <<>> THEN Nothing
             ELSE IF after(i)[1].kind = "blank" \/ after(i)[1].indent = 0 THEN Nothing
             ELSE IF after(i)[1].kind = "item" THEN Items(Inner(after(i)))
             ELSE [type |-> "map", texts |-> <<>>]
           last(key) == CHOOSE i \in heads :
                          s[i].key = key /\ \A j \in heads : s[j].key = key => j <= i
           L == Len(s)
           m == Len(skills)
<1>1. PICK a \in DOMAIN s, b \in DOMAIN s, c \in DOMAIN s, indent \in {1, 2, 4} :
         Lies(s, tier, skills, a, b, c, indent)
  BY DEF FlagKept
<1>2. L \in Nat /\ m \in Nat /\ DOMAIN s = 1 .. L
  BY LenProperties DEF SkillLists
<1>3. a \in 1 .. L /\ b \in 1 .. L /\ c \in 1 .. L /\ a < b /\ b + m < c
  BY <1>1, <1>2 DEF Lies
<1>4. /\ s[a].kind = "entry" /\ s[a].indent = 0 /\ s[a].key = "model_tier"
      /\ s[b].kind = "entry" /\ s[b].indent = 0 /\ s[b].key = "skills" /\ s[b].text = NoText
      /\ s[c].kind = "entry" /\ s[c].indent = 0 /\ s[c].key = "interactive"
  BY <1>1 DEF Lies, Field, SkillsEntry, FlagLine
<1>5. \A j \in 1 .. m : s[b + j].kind = "item" /\ s[b + j].indent = indent
  <2>1. \A j \in 1 .. m : s[b + j] = SkillItem(indent, skills[j])
    BY <1>1 DEF Lies
  <2>2. \A skill : SkillItem(indent, skill).kind = "item" /\ SkillItem(indent, skill).indent = indent
    BY DEF SkillItem, FlagLine
  <2> QED  BY <2>1, <2>2
<1>6. \A i \in DOMAIN s : \/ i \in {a, b, c}
                          \/ \E j \in 1 .. m : i = b + j
                          \/ s[i].kind = "blank" \/ (s[i].kind = "comment" /\ s[i].indent = 0)
  BY <1>1 DEF Lies, BlankLine, Comment, FlagLine
<1>7. heads = {a, b, c}
  BY <1>4, <1>5, <1>6
<1>8. ParseBlock(s) = [key \in keys |-> value(last(key))]
  BY DEF ParseBlock
<1> HIDE DEF value
<1>9. "model_tier" \in keys /\ "skills" \in keys
  BY <1>4, <1>7
<1>10. last("model_tier") = a /\ last("skills") = b
  <2>1. a <= a /\ b <= b
    <3> HIDE DEF L
    <3> QED  BY <1>2, <1>3
  <2> HIDE DEF heads
  <2> QED  BY <1>4, <1>7, <2>1
<1> HIDE DEF last, keys, heads
<1>11. /\ "model_tier" \in DOMAIN ParseBlock(s) /\ "skills" \in DOMAIN ParseBlock(s)
       /\ ParseBlock(s)["model_tier"] = value(a) /\ ParseBlock(s)["skills"] = value(b)
  BY <1>8, <1>9, <1>10
<1>12. value(a) = [type |-> "text", texts |-> <<tier>>]
  BY <1>1, TierIsText DEF Lies, value
<1>13. /\ after(b) \in Seq(FlagLines) /\ Len(after(b)) = L - b
       /\ \A k \in 1 .. L - b : after(b)[k] = s[b + k]
  <2>1. \A k \in b + 1 .. L : s[k] \in FlagLines
    <3>1. \A k \in b + 1 .. L : k \in 1 .. L
      BY <1>2, <1>3
    <3> QED  BY <3>1, ElementOfSeq
  <2>2. L \in Int /\ b + 1 \in Int
    BY <1>2, <1>3
  <2> DEFINE next == SubSeq(s, b + 1, L)
  <2>3. /\ next \in Seq(FlagLines) /\ Len(next) = IF b + 1 <= L THEN L - (b + 1) + 1 ELSE 0
        /\ \A k \in 1 .. L - (b + 1) + 1 : next[k] = s[(b + 1) + k - 1]
    <3> HIDE DEF L
    <3>1. PICK p : p = b + 1
      OBVIOUS
    <3>2. /\ SubSeq(s, p, L) \in Seq(FlagLines)
          /\ Len(SubSeq(s, p, L)) = IF p <= L THEN L - p + 1 ELSE 0
          /\ \A k \in 1 .. L - p + 1 : SubSeq(s, p, L)[k] = s[p + k - 1]
      BY <2>1, <2>2, <3>1, SubSeqProperties
    <3> QED  BY <3>1, <3>2
  <2> HIDE DEF next
  <2>4. L - (b + 1) + 1 = L - b /\ (~(b + 1 <= L) => L - b = 0)
        /\ \A k \in 1 .. L - b : (b + 1) + k - 1 = b + k
    <3> HIDE DEF L
    <3> QED  BY <1>2, <1>3
  <2>5. after(b) = next
    BY DEF next
  <2> HIDE DEF L, after
  <2> QED  BY <2>3, <2>4, <2>5
<1>14. after(b) # <<>> /\ 1 \in 1 .. L - b /\ after(b)[1] = s[b + 1]
  <2>1. 1 \in 1 .. L - b
    <3> HIDE DEF L, m
    <3> QED  BY <1>2, <1>3
  <2>2. Len(after(b)) # 0
    <3> HIDE DEF L, after
    <3> QED  BY <1>13, <2>1
  <2>3. after(b) # <<>>
    <3> HIDE DEF after
    <3> QED  BY <2>2
  <2> HIDE DEF L, after
  <2> QED  BY <1>13, <2>1, <2>3
<1>15. CASE m = 0
  <2>1. s[b + 1].kind = "blank" \/ s[b + 1].indent = 0
    <3>1. b + 1 \in DOMAIN s
      <4> HIDE DEF L, m
      <4> QED  BY <1>2, <1>3
    <3>2. ~\E j \in 1 .. m : b + 1 = b + j
      <4> HIDE DEF m
      <4> QED  BY <1>15
    <3> QED  BY <1>4, <1>6, <3>1, <3>2
  <2>2. value(b) = Nothing
    <3> HIDE DEF after
    <3> QED  BY <1>4, <1>14, <2>1 DEF value
  <2>3. skills = <<>>
    BY <1>15 DEF SkillLists
  <2>4. value(b).type # "list"
    BY <2>2 DEF Nothing
  <2> HIDE DEF after
  <2> QED  BY <1>11, <1>12, <2>3, <2>4
<1>16. CASE m # 0
  <2>1. 1 \in 1 .. m
    <3> HIDE DEF m
    <3> QED  BY <1>2, <1>16
  <2>2. after(b)[1].kind = "item" /\ after(b)[1].indent = indent /\ indent # 0
    <3> HIDE DEF after, m
    <3> QED  BY <1>5, <1>14, <2>1
  <2>3. value(b) = Items(Inner(after(b)))
    <3> HIDE DEF after
    <3> QED  BY <1>4, <1>14, <2>2 DEF value
  <2>4. c - b \in 1 .. L - b /\ after(b)[c - b] = s[c]
    <3>1. c - b \in 1 .. L - b /\ b + (c - b) = c
      <4> HIDE DEF L, m
      <4> QED  BY <1>2, <1>3
    <3> HIDE DEF after, L
    <3> QED  BY <1>13, <3>1
  <2> HIDE DEF after
  <2>5. c - b \in 1 .. Len(after(b)) /\ after(b)[c - b].kind # "blank" /\ after(b)[c - b].indent = 0
    BY <1>4, <1>13, <2>4
  <2>6. PICK n \in Nat : n < c - b /\ ReadUpTo(after(b), n)
    <3>1. PICK next, d : next = after(b) /\ d = c - b
      OBVIOUS
    <3>2. next \in Seq(FlagLines) /\ d \in 1 .. Len(next) /\ Outer(next[d])
      <4> HIDE DEF L
      <4> QED  BY <1>13, <2>5, <3>1 DEF Outer
    <3>3. \E n \in Nat : n < d /\ ReadUpTo(next, n)
      BY <3>2, InnerRead
    <3> QED  BY <3>1, <3>3
  <2>7. \A k \in 1 .. n + 1 : k \in 1 .. L - b
    BY <1>2, <1>3, <2>6
  <2>8. \A k \in 1 .. n + 1 : after(b)[k] = s[b + k]
    BY <1>13, <2>7
  <2>9. m \in 1 .. n
    <3> SUFFICES ASSUME ~(m <= n)  PROVE FALSE
      BY <1>2, <2>1
    <3>1. n + 1 \in 1 .. m /\ n + 1 \in 1 .. n + 1
      BY <1>2
    <3>2. s[b + (n + 1)].indent = 0
      BY <2>6, <2>8, <3>1 DEF ReadUpTo, Outer
    <3> QED  BY <1>5, <3>1, <3>2
  <2>10. \A j \in 1 .. m : Inner(after(b))[j] = SkillItem(indent, skills[j])
    <3> TAKE j \in 1 .. m
    <3>1. j \in 1 .. n /\ j \in 1 .. n + 1
      BY <1>2, <2>9
    <3>2. s[b + j] = SkillItem(indent, skills[j])
      BY <1>1 DEF Lies, m
    <3> QED  BY <2>6, <2>8, <3>1, <3>2 DEF ReadUpTo, Outer
  <2>11. \A j \in m + 1 .. n : Inner(after(b))[j].kind = "blank"
    <3> TAKE j \in m + 1 .. n
    <3>1. /\ j \in 1 .. n /\ j \in 1 .. n + 1 /\ b + j \in 1 .. L
          /\ b + j # a /\ b + j # b /\ b + j # c /\ \A i \in 1 .. m : b + j # b + i
      <4>1. /\ a \in Int /\ b \in Int /\ c \in Int /\ j \in Int /\ L \in Int
            /\ 1 <= b /\ c <= L /\ a < b /\ 1 <= m /\ m < j /\ j <= n /\ n < c - b
        BY <1>2, <1>3, <2>6, <2>9
      <4>2. j \in 1 .. n /\ j \in 1 .. n + 1 /\ b + j \in 1 .. L
        BY <1>2, <4>1
      <4>3. b + j # a /\ b + j # b /\ b + j # c
        BY <4>1
      <4>4. \A i \in 1 .. m : b + j # b + i
        BY <1>2, <4>1
      <4> QED  BY <4>2, <4>3, <4>4
    <3>2. s[b + j].kind = "blank" \/ s[b + j].indent = 0
      BY <1>2, <1>6, <3>1
    <3> QED  BY <2>6, <2>8, <3>1, <3>2 DEF ReadUpTo, Outer
  <2>12. Items(Inner(after(b))).type = "list" /\ Items(Inner(after(b))).texts = skills
    <3>1. PICK inner : inner = Inner(after(b))
      OBVIOUS
    <3>2. SkillsListed(inner, n, skills, indent)
      BY <2>6, <2>9, <2>10, <2>11, <3>1 DEF SkillsListed, ReadUpTo, m
    <3> QED  BY <3>1, <3>2, ItemsRead
  <2> QED  BY <1>11, <1>12, <2>3, <2>12
<1> HIDE DEF value
<1> QED  BY <1>15, <1>16

-----------------------------------------------------------------------------
\* The flag a command wrote is kept by what people do to it, and one that came to its end left
\* the flag of its mode alone.
FlagsInv ==
  /\ given.mode \in {"agent", "human", "unassigned"}
  /\ given.mode = "agent" => /\ given.tier \in Tiers /\ given.skills \in SkillLists
                             /\ agentFlag \in Seq(FlagLines)
                             /\ FlagKept(agentFlag, given.tier, given.skills)
                             /\ ~torn => humanFlag = NoFile
  /\ given.mode = "human" => humanFlag # NoFile /\ (~torn => agentFlag = NoFile)
  /\ given.mode = "unassigned" => ~torn /\ agentFlag = NoFile /\ humanFlag = NoFile

LEMMA KeptIsThere ==
  ASSUME NEW tier, NEW skills, FlagKept(NoFile, tier, skills)
  PROVE  FALSE
<1>1. DOMAIN NoFile = {}
  BY DEF NoFile
<1> QED  BY <1>1 DEF FlagKept

LEMMA FlagsInvInit == FlagsInit => FlagsInv
BY DEF FlagsInit, FlagsInv

LEMMA FlagsInvNext == FlagsInv /\ [FlagsNext]_flagsVars => FlagsInv'
<1> SUFFICES ASSUME FlagsInv, [FlagsNext]_flagsVars PROVE FlagsInv'
  OBVIOUS
<1>1. CASE WriteFlag
  <2>1. ASSUME NEW tier \in Tiers, NEW skills \in SeqOf(Plain \cup Special, MaxSkills),
               agentFlag' = AgentFields(tier, skills), torn' = TRUE,
               given' = [mode |-> "agent", tier |-> tier, skills |-> skills]
        PROVE  FlagsInv'
    <3>1. skills \in SkillLists
      BY DEF SeqOf, SkillLists
    <3>2. agentFlag' \in Seq(FlagLines) /\ FlagKept(agentFlag', tier, skills)
      BY <2>1, <3>1, AgentFieldsKept
    <3>3. given'.mode = "agent" /\ given'.tier = tier /\ given'.skills = skills
      BY <2>1
    <3> QED  BY <2>1, <3>1, <3>2, <3>3 DEF FlagsInv
  <2>2. ASSUME NEW qualification, humanFlag' = HumanFields(qualification), torn' = TRUE,
               given' = [mode |-> "human", tier |-> NoText, skills |-> <<>>]
        PROVE  FlagsInv'
    <3>1. HumanFields(qualification) # NoFile
      BY DEF HumanFields, NoFile
    <3>2. given'.mode = "human"
      BY <2>2
    <3> QED  BY <2>2, <3>1, <3>2 DEF FlagsInv
  <2> QED  BY <1>1, <2>1, <2>2 DEF WriteFlag
<1>2. CASE RemoveOther
  <2>1. CASE given.mode = "agent"
    BY <1>2, <2>1 DEF RemoveOther, FlagsInv
  <2>2. CASE given.mode # "agent"
    <3>1. given.mode = "human" /\ agentFlag' = NoFile /\ humanFlag' = humanFlag /\ given' = given
      BY <1>2, <2>2 DEF RemoveOther, FlagsInv
    <3> QED  BY <3>1 DEF FlagsInv
  <2> QED  BY <2>1, <2>2
<1>3. CASE EditFlag
  <2>1. humanFlag' = humanFlag /\ given' = given /\ torn' = torn /\ agentFlag # NoFile
    BY <1>3 DEF EditFlag
  <2>2. CASE given.mode # "agent"
    BY <2>1, <2>2 DEF FlagsInv
  <2>3. CASE given.mode = "agent"
    <3>1. /\ given.tier \in Tiers /\ given.skills \in SkillLists /\ agentFlag \in Seq(FlagLines)
          /\ FlagKept(agentFlag, given.tier, given.skills) /\ (~torn => humanFlag = NoFile)
      BY <2>3 DEF FlagsInv
    <3>2. agentFlag' \in Seq(FlagLines) /\ FlagKept(agentFlag', given.tier, given.skills)
      <4>1. ASSUME NEW i \in 1 .. Len(agentFlag) + 1, NEW note \in {BlankLine, Comment},
                   i <= Len(agentFlag) => agentFlag[i].kind = "entry",
                   agentFlag' = InsertAt(agentFlag, i, note)
            PROVE  agentFlag' \in Seq(FlagLines) /\ FlagKept(agentFlag', given.tier, given.skills)
        BY <3>1, <4>1, NotesKept
      <4>2. ASSUME NEW indent \in {1, 4},
                   agentFlag' = [i \in DOMAIN agentFlag |->
                                   IF agentFlag[i].kind = "item"
                                   THEN [agentFlag[i] EXCEPT !.indent = indent]
                                   ELSE agentFlag[i]]
            PROVE  agentFlag' \in Seq(FlagLines) /\ FlagKept(agentFlag', given.tier, given.skills)
        BY <3>1, <4>2, IndentKept
      <4> QED  BY <1>3, <4>1, <4>2 DEF EditFlag
    <3> QED  BY <2>1, <2>3, <3>1, <3>2 DEF FlagsInv
  <2> QED  BY <2>2, <2>3
<1>4. CASE UNCHANGED flagsVars
  BY <1>4 DEF FlagsInv, flagsVars
<1> QED  BY <1>1, <1>2, <1>3, <1>4 DEF FlagsNext

LEMMA FlagsInvReads == FlagsInv => FlagReadBack
<1> SUFFICES ASSUME FlagsInv PROVE FlagReadBack
  OBVIOUS
<1>1. ASSUME given.mode = "agent"
      PROVE  TierRead = <<given.tier>> /\ SkillsRead = given.skills /\ agentFlag # NoFile
  <2> DEFINE fields == ParseBlock(agentFlag)
  <2>1. /\ given.tier \in Tiers /\ given.skills \in SkillLists /\ agentFlag \in Seq(FlagLines)
        /\ FlagKept(agentFlag, given.tier, given.skills)
    BY <1>1 DEF FlagsInv
  <2>2. /\ "model_tier" \in DOMAIN fields /\ "skills" \in DOMAIN fields
        /\ fields["model_tier"] = [type |-> "text", texts |-> <<given.tier>>]
        /\ IF fields["skills"].type = "list" THEN fields["skills"].texts = given.skills
           ELSE given.skills = <<>>
    BY <2>1, ReadBack
  <2>3. TierRead = <<given.tier>>
    <3> HIDE DEF fields
    <3>1. TierRead = IF "model_tier" \in DOMAIN fields /\ fields["model_tier"].type = "text"
                     THEN fields["model_tier"].texts ELSE <<>>
      BY DEF TierRead, fields
    <3> QED  BY <2>2, <3>1
  <2>4. SkillsRead = given.skills
    <3> HIDE DEF fields
    <3>1. SkillsRead = IF "skills" \in DOMAIN fields /\ fields["skills"].type = "list"
                       THEN fields["skills"].texts ELSE <<>>
      BY DEF SkillsRead, fields
    <3> QED  BY <2>2, <3>1
  <2>5. agentFlag # NoFile
    BY <2>1, KeptIsThere
  <2> QED  BY <2>3, <2>4, <2>5
<1>2. ASSUME ~torn  PROVE Mode = given.mode /\ (agentFlag = NoFile \/ humanFlag = NoFile)
  BY <1>1, <1>2 DEF FlagsInv, Mode
<1> QED  BY <1>1, <1>2 DEF FlagReadBack

FlagsSpec == FlagsInit /\ [][FlagsNext]_flagsVars

\* What set_executor wrote is read back: whatever the tier and the skills, quoted or not, and
\* whatever comments, empty lines and indentations people add to the flag, parse_yaml_block finds
\* the tier and the skills in order, and a command that came to its end leaves one flag, of its
\* mode (write_executor_flag, parse_yaml_block).
THEOREM ExecutorIsReadBack == FlagsSpec => []FlagReadBack
<1>1. FlagsInit => FlagsInv
  BY FlagsInvInit
<1>2. FlagsInv /\ [FlagsNext]_flagsVars => FlagsInv'
  BY FlagsInvNext
<1>3. FlagsInv => FlagReadBack
  BY FlagsInvReads
<1> QED  BY <1>1, <1>2, <1>3, PTL DEF FlagsSpec
=============================================================================
