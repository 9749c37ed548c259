---------------------------- MODULE Orchestrator ----------------------------
(***************************************************************************)
(* The orchestrator role of a host: what wakes it, and what a wake does    *)
(* (agent-server orchestrator.rs), with the frames of the relay that wake  *)
(* it (relay_client.rs).                                                   *)
(*                                                                         *)
(* Wakes come from a flag that the relay bridge sets, from the mtime of    *)
(* .mt/wake, which the post-merge hook touches, and from a timer.  A wake  *)
(* runs everything that is ready, scans the graph, reports what became     *)
(* unresolvable and what changed, has open audits done, and prunes.  What  *)
(* a run or an audit makes of a node is a choice (NodeRuns, AuditCycle).   *)
(***************************************************************************)
EXTENDS Integers, Sequences

CONSTANTS
    Work,               \* nodes of the task graph
    ThisHost, OtherHost, Phone, Unknown,     \* device_id of an envelope
    MaxEvents           \* bound: changes that come from outside

ASSUME OrchestratorAssumption ==
    /\ ThisHost # OtherHost
    /\ MaxEvents \in Nat

WorkStates == {"waiting", "resolved", "pending-audit", "unresolvable"}

VARIABLES
    workState,          \* derived from the checkout
    signalled,          \* the flag
    mtime, lastSeen,    \* of .mt/wake; as of the last wake by file
    tick,               \* what is left to do in this wake, <<>> while waiting
    scanned,            \* the states that the last scan saw
    alerted,            \* nodes an alert went out for
    known,              \* device_id that hello brought, Unknown before
    news,               \* a change has come that no wake has begun after
    failedRuns,         \* nodes that dispatch left unresolvable in this wake, and still are
    events

orchestratorVars ==
    <<workState, signalled, mtime, lastSeen, tick, scanned, alerted, known, news,
      failedRuns, events>>

OrchestratorInit ==
    /\ workState \in [Work -> {"waiting", "resolved"}]
    /\ signalled = FALSE
    /\ mtime = 0 /\ lastSeen = 0
    /\ tick = <<>>
    /\ scanned = [n \in Work |-> "none"]
    /\ alerted = {}
    /\ known = Unknown
    /\ news = FALSE
    /\ failedRuns = {}
    /\ events = 0

-----------------------------------------------------------------------------
(* Frames of the relay.                                                    *)

\* handle_incoming: what hosts sent counts only if it is meant for hosts and not known to
\* be an echo of this host's own.
Taken(fromHost, hostToHost, origin) ==
    \/ ~fromHost
    \/ hostToHost /\ ~(origin # Unknown /\ origin = known)

\* A frame that is taken sets the flag, then has its handler run.  Frames that carry news
\* are those of people and of other hosts to hosts.
Frame ==
    /\ events < MaxEvents
    /\ events' = events + 1
    /\ \E fromHost, hostToHost \in BOOLEAN, origin \in {ThisHost, OtherHost, Phone, Unknown} :
         /\ fromHost <=> origin # Phone
         /\ hostToHost => fromHost
         \* an own event is stamped as soon as hello is answered
         /\ origin = Unknown => hostToHost /\ known = Unknown
         /\ signalled' = (signalled \/ Taken(fromHost, hostToHost, origin))
         /\ news' = (news \/ origin = Phone \/ (hostToHost /\ origin = OtherHost))
    /\ UNCHANGED <<workState, mtime, lastSeen, tick, scanned, alerted, known, failedRuns>>

\* The answer to hello; a new connection starts without it.
Hello ==
    /\ known' = IF known = Unknown THEN ThisHost ELSE Unknown
    /\ events < MaxEvents
    /\ events' = events + 1
    /\ UNCHANGED <<workState, signalled, mtime, lastSeen, tick, scanned, alerted, news,
                   failedRuns>>

\* git pull in the checkout brings other states, and its hook touches .mt/wake.
Merge ==
    /\ events < MaxEvents
    /\ events' = events + 1
    /\ \E n \in Work, s \in WorkStates :
         /\ workState' = [workState EXCEPT ![n] = s]
         /\ failedRuns' = IF s = "unresolvable" THEN failedRuns ELSE failedRuns \ {n}
    /\ mtime' = mtime + 1
    /\ news' = TRUE
    /\ UNCHANGED <<signalled, lastSeen, tick, scanned, alerted, known>>

-----------------------------------------------------------------------------
(* The loop.                                                               *)

\* Mutant: the reports are made before the runs.
ScanFirst == <<"scan", "dispatch", "audit", "prune">>

Tick == <<"dispatch", "scan", "audit", "prune">>

\* Mutant: the flag is taken down when the wake is over.
FlagTakenDown(flag) == FALSE

FlagAfterTick(flag) == flag

\* One reason is consumed, the flag before the file; without a reason the timer fires.
WakeUp ==
    /\ tick = <<>>
    /\ signalled' = FALSE
    /\ lastSeen' = IF signalled THEN lastSeen ELSE mtime
    /\ tick' = Tick
    /\ news' = FALSE
    /\ UNCHANGED <<workState, mtime, scanned, alerted, known, failedRuns, events>>

Step(name) == tick # <<>> /\ Head(tick) = name /\ tick' = Tail(tick)

\* run_auto: every node that is ready gets its attempt.
Dispatch ==
    /\ Step("dispatch")
    /\ workState' \in [Work -> WorkStates]
    /\ \A n \in Work : workState[n] # "waiting" => workState'[n] = workState[n]
    /\ failedRuns' = {n \in Work : workState[n] = "waiting" /\ workState'[n] = "unresolvable"}
    /\ UNCHANGED <<signalled, mtime, lastSeen, scanned, alerted, known, news, events>>

\* pending_alerts and state_changes; the queue of open audits is in what was scanned.
ScanStates ==
    /\ Step("scan")
    /\ scanned' = workState
    /\ alerted' = alerted \cup {n \in Work : workState[n] = "unresolvable"}
    /\ UNCHANGED <<workState, signalled, mtime, lastSeen, known, news, failedRuns, events>>

\* run_auditor for the whole queue; an audit may fail to come to a verdict.
Audits ==
    /\ Step("audit")
    /\ workState' \in [Work -> WorkStates]
    /\ \A n \in Work : IF scanned[n] = "pending-audit" /\ workState[n] = "pending-audit"
                       THEN workState'[n] \in {"resolved", "waiting", "pending-audit"}
                       ELSE workState'[n] = workState[n]
    /\ UNCHANGED <<signalled, mtime, lastSeen, scanned, alerted, known, news, failedRuns,
                   events>>

PruneWorktrees ==
    /\ Step("prune")
    /\ signalled' = FlagAfterTick(signalled)
    /\ failedRuns' = {}
    /\ UNCHANGED <<workState, mtime, lastSeen, scanned, alerted, known, news, events>>

OrchestratorNext ==
    \/ Frame \/ Hello \/ Merge
    \/ WakeUp \/ Dispatch \/ ScanStates \/ Audits \/ PruneWorktrees

OrchestratorSpec == OrchestratorInit /\ [][OrchestratorNext]_orchestratorVars

-----------------------------------------------------------------------------
(* Properties.                                                             *)

\* No wake is lost: after a change that no wake has begun after, there is a reason to wake
\* at once, also when it came in the middle of a wake (Wake::should_wake_now consumes its
\* reasons before the work, not after it).
NoWakeLost == news => signalled \/ mtime # lastSeen

\* Whoever is left unresolvable by the runs of a wake has its alert in the same wake, the
\* first time (Orchestrator::tick: alerts come after dispatch).
AlertedInSameWake == tick = <<"prune">> => failedRuns \subseteq alerted
=============================================================================
