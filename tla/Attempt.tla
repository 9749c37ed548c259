------------------------------ MODULE Attempt ------------------------------
(***************************************************************************)
(* The processes of one attempt on a node: at most three phases, planning, *)
(* execution and, after failures, a summary of them.  Each is a cascade of *)
(* agent CLIs that passes to the next one when a subscription has run out, *)
(* each process under a watchdog with a hard budget and a timeout for      *)
(* progress (mt-core/runner.rs run_node_env_as, spawn_watched).            *)
(*                                                                         *)
(* Time passes in seconds.  The watchdog polls twice a second, so it looks *)
(* at least once in each; progress is a newer mtime in the directory of    *)
(* the node.  What a CLI does is a choice: it writes, exits, or hangs.     *)
(***************************************************************************)
EXTENDS Integers, Sequences, FiniteSets

CONSTANTS
    AgentCli, CloudClis,    \* agent_cli of the plan, cloud_agent_clis in order
    KnownClis,              \* those there is a command line for
    BudgetHard, ProgressTimeout

ASSUME AttemptAssumption ==
    /\ {BudgetHard, ProgressTimeout} \subseteq Nat
    /\ AgentCli \in KnownClis
    /\ KnownClis \subseteq STRING
    /\ CloudClis \in Seq(STRING)

VARIABLES
    isolation,      \* "off", "worktree", or "unsupported": asked for, but not on this system
    stage,          \* "planning", "execution", "summary", or how the attempt ended
    cascade,        \* CLIs left to try in this phase
    process,        \* "none", "running", or how it exited
    age, idle,      \* seconds since the spawn; since the watchdog saw progress
    touched,        \* files are newer than the watchdog has seen
    quiet,          \* seconds since the agent last wrote
    polled,         \* the watchdog has looked in this second
    killed,         \* why the last process was killed, or "no"
    wall            \* seconds the processes of this attempt took

attemptVars == <<isolation, stage, cascade, process, age, idle, touched, quiet, polled, killed, wall>>

\* Mutant: a CLI listed twice is tried twice.
CascadeWithRepeats == <<AgentCli>> \o CloudClis

\* cascade_order: the chosen one, then the others, each once.
CascadeOrder ==
    LET order[k \in 0 .. Len(CloudClis)] ==
            IF k = 0 THEN <<AgentCli>>
            ELSE IF \E i \in DOMAIN order[k - 1] : order[k - 1][i] = CloudClis[k]
            THEN order[k - 1]
            ELSE Append(order[k - 1], CloudClis[k])
    IN  order[Len(CloudClis)]

Phases == {"planning", "execution", "summary"}

AttemptInit ==
    /\ isolation \in {"off", "worktree", "unsupported"}
    /\ stage \in {"planning", "execution"}      \* needs_planning
    /\ cascade = CascadeOrder
    /\ process = "none"
    /\ age = 0 /\ idle = 0 /\ quiet = 0 /\ wall = 0
    /\ touched = FALSE
    /\ polled = FALSE
    /\ killed = "no"

\* The phase is over, however it ended: after planning comes execution, unless the plan is
\* composite; a summary comes last, if the failures in a row are many and none is there.
PhaseEnds ==
    /\ \/ stage = "planning" /\ stage' = "execution" /\ cascade' = CascadeOrder
       \/ stage # "summary" /\ stage' = "summary" /\ cascade' = CascadeOrder
       \/ stage' = "finished" /\ cascade' = <<>>
    /\ process' = "none"

\* isolation::wrap: the command under the isolation the project asks for, or none.
Wrapped == isolation # "unsupported"

\* The next CLI of the cascade is spawned; a name without a command line is passed over,
\* a spawn or an isolation that fails ends the attempt, of a summary only the summary.
Spawn ==
    /\ stage \in Phases
    /\ process = "none"
    /\ cascade # <<>>
    /\ IF Head(cascade) \notin KnownClis
       THEN /\ cascade' = Tail(cascade)
            /\ UNCHANGED <<stage, process, age, idle, touched, quiet, polled, killed>>
       ELSE \/ /\ Wrapped
               /\ process' = "running"
               /\ cascade' = Tail(cascade)
               /\ age' = 0 /\ idle' = 0 /\ quiet' = 0
               /\ touched' = FALSE
               /\ polled' = FALSE
               /\ killed' = "no"
               /\ UNCHANGED stage
            \/ /\ stage' = IF stage = "summary" THEN "finished" ELSE "refused"
               /\ UNCHANGED <<cascade, process, age, idle, touched, quiet, polled, killed>>
    /\ UNCHANGED <<isolation, wall>>

\* All subscriptions have run out.
CascadeEnds ==
    /\ stage \in Phases
    /\ process = "none"
    /\ cascade = <<>>
    /\ PhaseEnds
    /\ UNCHANGED <<isolation, age, idle, touched, quiet, polled, killed, wall>>

AgentWrites ==
    /\ process = "running"
    /\ touched' = TRUE
    /\ quiet' = 0
    /\ UNCHANGED <<isolation, stage, cascade, process, age, idle, polled, killed, wall>>

AgentExits ==
    /\ process = "running"
    /\ process' \in {"rate-limited", "exited"}
    /\ UNCHANGED <<isolation, stage, cascade, age, idle, touched, quiet, polled, killed, wall>>

Second ==
    /\ process = "running"
    /\ polled
    /\ polled' = FALSE
    /\ age' = age + 1
    /\ idle' = idle + 1
    /\ quiet' = quiet + 1
    /\ wall' = wall + 1
    /\ UNCHANGED <<isolation, stage, cascade, process, touched, killed>>

\* Mutant: what was progress once stays so, but is counted from the spawn.
IdleKept(seconds) == seconds

\* Progress sets the baseline to now.
IdleAfterProgress(seconds) == 0

\* child.kill(): it ends the phase, no other CLI is tried.
KillChild(reason) ==
    /\ killed' = reason
    /\ PhaseEnds
    /\ UNCHANGED <<idle, touched>>

\* One round of the loop in spawn_watched, with what run_phase makes of its end.
Poll ==
    /\ process # "none"
    /\ polled' = TRUE
    /\ \/ /\ process = "exited"
          /\ PhaseEnds
          /\ UNCHANGED <<idle, touched, killed>>
       \/ /\ process = "rate-limited"
          /\ process' = "none"
          /\ UNCHANGED <<stage, cascade, idle, touched, killed>>
       \/ /\ process = "running"
          /\ age > BudgetHard
          /\ KillChild("budget-exceeded")
       \/ /\ process = "running"
          /\ age <= BudgetHard
          /\ touched
          /\ touched' = FALSE
          /\ idle' = IdleAfterProgress(idle)
          /\ UNCHANGED <<stage, cascade, process, killed>>
       \/ /\ process = "running"
          /\ age <= BudgetHard
          /\ ~touched
          /\ IF idle > ProgressTimeout
             THEN KillChild("progress-timeout")
             ELSE UNCHANGED <<stage, cascade, process, idle, touched, killed>>
    /\ UNCHANGED <<isolation, age, quiet, wall>>

AttemptNext ==
    \/ Spawn \/ CascadeEnds \/ AgentWrites \/ AgentExits \/ Second \/ Poll

AttemptSpec == AttemptInit /\ [][AttemptNext]_attemptVars

-----------------------------------------------------------------------------
(* Properties.                                                             *)

\* An attempt ends within its budgets: whatever the CLIs do, each known one has at most
\* the hard budget, and one second to be noticed, in each of the three phases (runner.rs
\* cascade_order, spawn_watched).
AttemptBounded ==
    LET clis == {AgentCli} \cup {CloudClis[i] : i \in DOMAIN CloudClis}
    IN  wall <= 3 * Cardinality(clis \cap KnownClis) * (BudgetHard + 1)

\* An agent is killed for a lack of progress only if it has written nothing for longer
\* than the timeout, counted from its last file and not from its start (spawn_watched).
KilledOnlyWhenIdle ==
    [][killed = "no" /\ killed' = "progress-timeout" => quiet > ProgressTimeout]_attemptVars
=============================================================================
