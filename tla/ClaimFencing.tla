---------------------------- MODULE ClaimFencing ----------------------------
(***************************************************************************)
(* The claim and fenced-publish protocol of mt: runners and interactive    *)
(* sessions on several hosts coordinate through the refs of one git        *)
(* remote.  A run (identified by its fresh token) works on one node:       *)
(*                                                                         *)
(*   fetch main -> create-only CAS on the claim ref -> worktree + run ref  *)
(*   -> work -> fenced publish: fetch main, compare the claim, read the    *)
(*   tracking ref, rebase onto it, one atomic push of main, the claim      *)
(*   deletion and the run ref deletion, each with its own lease.           *)
(*                                                                         *)
(* A git ref points at a commit, and a commit determines its whole         *)
(* history: `main` and every copy of it are sequences of commits, compared *)
(* by value where git compares object ids.  A worktree HEAD is the base it *)
(* was cut from (or rebased onto) and the commits made on top of it.       *)
(* Lease clocks are not in this module: a claim may be taken over at any   *)
(* time when AllowTakeover is TRUE, which covers every clock.              *)
(***************************************************************************)
EXTENDS Integers, Sequences, SequencesExt

CONSTANTS
    Nodes,          \* task nodes, each with one claim ref
    Runs,           \* run tokens; a token is generated once and never reused
    Hosts,          \* clones: the runs of a host share its remote-tracking ref
    Runners,        \* the runs of `mt run`; the others are agent-server sessions
    NodeOf,         \* the node a run works on
    HostOf,         \* the host a run executes on
    RetryMax,       \* publish_retry_max
    AllowTakeover,  \* is renew_or_takeover_claim also called with a new token
    MaxFaults,      \* bound: failed or unanswered git calls, and crashes
    MaxOwn,         \* bound: commits one worktree makes on top of its base
    MaxRenew,       \* bound: renewals of one claim
    MaxLifecycle,   \* bound: lifecycle commits on main
    NoClaim, NoRef, NoRun, NoOp   \* model values: an absent ref, run, operation

ASSUME ConstantsAssumption ==
    /\ Runners \subseteq Runs
    /\ NodeOf \in [Runs -> Nodes]
    /\ HostOf \in [Runs -> Hosts]
    /\ RetryMax \in Nat
    /\ AllowTakeover \in BOOLEAN
    /\ {MaxFaults, MaxOwn, MaxRenew, MaxLifecycle} \subseteq Nat
    /\ NoRun \notin Runs
    /\ NoClaim \notin [tok : Runs, gen : Nat, ver : Nat]

Sessions == Runs \ Runners

Kinds == {"turn", "handoff", "result", "failure", "lifecycle"}

Commit == [tok : Runs \cup {NoRun}, node : Nodes, kind : Kinds]

History == Seq(Commit)

\* A worktree HEAD, and what a run ref points at.
Tip == [base : History, own : History]

\* The commit a claim ref points at: renewals of one token differ in `ver`.
ClaimCommit == [tok : Runs, gen : Nat, ver : Nat]

Publishing == {"fetchMain", "checkClaim", "readMain", "rebase", "push"}

\* How a run's call returned, or how its session left the map.
Ended == {"published", "conflict", "fenced", "lost", "error",
          "released", "handedOff", "crashed"}

Pcs == {"idle", "acquire", "prepare", "working", "handoff"} \cup Publishing \cup Ended

\* What a run knows about its work: the fields of InteractiveRun, the locals of
\* run_node_env_as.
RunState ==
    [wt    : Tip,                         \* HEAD of its worktree
     gen   : Nat,                         \* generation written into its claim
     from  : Runs \cup {NoRun},           \* the run whose handoff ticket it resumes
     sha   : ClaimCommit \cup {NoClaim},  \* claim_sha: the claim it believes it owns
     since : Nat]                         \* history variable: Len(main) at the acquire

\* The locals of one call of fenced_publish or publish_failure_run.
LoopState ==
    [mode  : {"result", "failure"},
     seen  : History,                     \* main_sha_before
     lease : Tip \cup {NoRef},            \* run_ref_sha_before
     tries : 0 .. RetryMax]

VARIABLES
    main,       \* refs/heads/main of the remote
    claims,     \* refs/mt/claims/<node>
    runRefs,    \* refs/mt/runs/<node>/<token>
    tracking,   \* refs/remotes/origin/main of each host
    pc,         \* where each run is
    run,        \* what each run knows
    loop,       \* the publish loop of each run
    tickets,    \* runs whose HandoffTicket has been handed out
    lifecycle,  \* main as fetched by the lifecycle publisher of each host, or NoOp
    faults      \* faults so far

remote == <<main, claims, runRefs>>

others == <<tracking, tickets, lifecycle>>

vars == <<remote, others, pc, run, loop, faults>>

TypeOK ==
    /\ main \in History
    /\ claims \in [Nodes -> ClaimCommit \cup {NoClaim}]
    /\ runRefs \in [Runs -> Tip \cup {NoRef}]
    /\ tracking \in [Hosts -> History]
    /\ pc \in [Runs -> Pcs]
    /\ run \in [Runs -> RunState]
    /\ loop \in [Runs -> LoopState]
    /\ tickets \subseteq Runs
    /\ lifecycle \in [Hosts -> History \cup {NoOp}]
    /\ faults \in Nat

IdleRun ==
    [wt |-> [base |-> <<>>, own |-> <<>>], gen |-> 1, from |-> NoRun,
     sha |-> NoClaim, since |-> 0]

NoLoop == [mode |-> "result", seen |-> <<>>, lease |-> NoRef, tries |-> 0]

Init ==
    /\ main = <<>>
    /\ claims = [n \in Nodes |-> NoClaim]
    /\ runRefs = [r \in Runs |-> NoRef]
    /\ tracking = [h \in Hosts |-> <<>>]
    /\ pc = [r \in Runs |-> "idle"]
    /\ run = [r \in Runs |-> IdleRun]
    /\ loop = [r \in Runs |-> NoLoop]
    /\ tickets = {}
    /\ lifecycle = [h \in Hosts |-> NoOp]
    /\ faults = 0

-----------------------------------------------------------------------------
(* Helpers.                                                                *)

CommitOf(r, kind) == [tok |-> r, node |-> NodeOf[r], kind |-> kind]

\* `git push HEAD:<run ref>` is not forced: the old target must be an ancestor.
FastForward(ref, head) ==
    ref # NoRef => IsPrefix(ref.base \o ref.own, head.base \o head.own)

\* The agent-server keeps its live sessions in one map behind one mutex: attach and
\* done hold it across all their git calls; handoff, release and resume do not.
MapLocked(h) ==
    \E x \in Sessions :
        /\ HostOf[x] = h
        /\ \/ pc[x] \in Publishing
           \/ pc[x] \in {"acquire", "prepare"} /\ run[x].from = NoRun

InMap(h, n) ==
    \E x \in Sessions : HostOf[x] = h /\ NodeOf[x] = n /\ pc[x] = "working"

Fault == faults < MaxFaults /\ faults' = faults + 1

NoFault == UNCHANGED faults

Go(r, label) == pc' = [pc EXCEPT ![r] = label]

\* The run's call returns, or its session leaves the map: its publish loop is gone.
Leave(r, label) ==
    /\ Go(r, label)
    /\ loop' = [loop EXCEPT ![r] = NoLoop]

-----------------------------------------------------------------------------
(* Acquiring a node: run_node_env_as and attach_impl up to the run ref.    *)

\* `mt run`, or the first user message for a node: base = fetched origin/main.
Attach(r) ==
    /\ pc[r] = "idle"
    /\ r \in Sessions => ~MapLocked(HostOf[r]) /\ ~InMap(HostOf[r], NodeOf[r])
    /\ Go(r, "acquire")
    /\ tracking' = [tracking EXCEPT ![HostOf[r]] = main]
    /\ run' = [run EXCEPT ![r].wt = [base |-> main, own |-> <<>>]]
    /\ UNCHANGED <<remote, loop, tickets, lifecycle, faults>>

\* attach_resume: the worktree starts from the run ref of the ticket.
AttachResume(r) ==
    /\ r \in Sessions
    /\ pc[r] = "idle"
    /\ tracking' = [tracking EXCEPT ![HostOf[r]] = main]
    /\ \E old \in tickets \ {r} :
         /\ NodeOf[old] = NodeOf[r]
         /\ IF runRefs[old] = NoRef
            THEN Go(r, "error") /\ UNCHANGED run
            ELSE /\ Go(r, "acquire")
                 /\ run' = [run EXCEPT ![r].wt = runRefs[old],
                                       ![r].gen = run[old].gen + 1,
                                       ![r].from = old]
    /\ UNCHANGED <<remote, loop, tickets, lifecycle, faults>>

\* The claim commit a run writes first.
FirstClaim(r, gen) == [tok |-> r, gen |-> gen, ver |-> 0]

\* The remote accepts r's first claim, and r is told so.
Claim(r, gen) ==
    /\ claims' = [claims EXCEPT ![NodeOf[r]] = FirstClaim(r, gen)]
    /\ run' = [run EXCEPT ![r].gen = gen, ![r].sha = FirstClaim(r, gen),
                          ![r].since = Len(main)]
    /\ Go(r, "prepare")

\* Mutant: the push overwrites the claim it finds.
AcquireAnyway(r) ==
    /\ pc[r] = "acquire"
    /\ Claim(r, run[r].gen)
    /\ UNCHANGED <<main, runRefs, others, loop, faults>>

\* acquire_claim: a create-only push.  An unanswered push may have been applied.
Acquire(r) ==
    /\ pc[r] = "acquire"
    /\ \/ claims[NodeOf[r]] = NoClaim /\ Claim(r, run[r].gen) /\ NoFault
       \/ /\ claims[NodeOf[r]] = NoClaim
          /\ claims' = [claims EXCEPT ![NodeOf[r]] = FirstClaim(r, run[r].gen)]
          /\ Go(r, "error") /\ UNCHANGED run /\ Fault
       \/ claims[NodeOf[r]] # NoClaim /\ Go(r, "lost") /\ UNCHANGED <<claims, run>> /\ NoFault
       \/ Go(r, "error") /\ UNCHANGED <<claims, run>> /\ Fault
    /\ UNCHANGED <<main, runRefs, others, loop>>

\* renew_or_takeover_claim with a new token: CAS from the claim it has read.
Takeover(r) ==
    /\ AllowTakeover
    /\ pc[r] = "acquire"
    /\ claims[NodeOf[r]] # NoClaim
    /\ Claim(r, claims[NodeOf[r]].gen + 1)
    /\ UNCHANGED <<main, runRefs, others, loop, faults>>

\* Inserting a resumed session into the map drops the session the map held.
Replaced(x, r) ==
    /\ {x, r} \subseteq Sessions
    /\ HostOf[x] = HostOf[r] /\ NodeOf[x] = NodeOf[r]
    /\ pc[x] = "working"

\* create_run_worktree and push_run_ref; an error of either leaves the claim behind.
Prepare(r) ==
    /\ pc[r] = "prepare"
    /\ \/ /\ run[r].from # NoRun => ~MapLocked(HostOf[r])
          /\ runRefs' = [runRefs EXCEPT ![r] = run[r].wt]
          /\ pc' = [x \in Runs |-> IF x = r THEN "working"
                                   ELSE IF Replaced(x, r) THEN "lost" ELSE pc[x]]
          /\ NoFault
       \/ Go(r, "error") /\ UNCHANGED runRefs /\ Fault
    /\ UNCHANGED <<main, claims, others, run, loop>>

-----------------------------------------------------------------------------
(* Work: the executor of `mt run`; turns, renewal, pause of a session.     *)

\* A session operation that takes the map.
InSession(r) ==
    /\ r \in Sessions
    /\ pc[r] = "working"
    /\ ~MapLocked(HostOf[r])

\* The worktree HEAD after one more commit.
Committed(r, kind) ==
    [base |-> run[r].wt.base, own |-> Append(run[r].wt.own, CommitOf(r, kind))]

\* The result is committed; the publish will expect the run ref at the HEAD before
\* it.  That is base_sha for a runner: its run ref is pushed once, by Prepare.
StartPublish(r) ==
    /\ Go(r, "fetchMain")
    /\ run' = [run EXCEPT ![r].wt = Committed(r, "result")]
    /\ loop' = [loop EXCEPT ![r] = [NoLoop EXCEPT !.lease = run[r].wt]]
    /\ UNCHANGED <<remote, others, faults>>

\* The executor has finished: run_NNN.md is written and everything is committed.
Execute(r) ==
    /\ r \in Runners
    /\ pc[r] = "working"
    /\ StartPublish(r)

\* InteractiveRun::done up to the publish: HEAD is read, then the artifacts are committed.
Done(r) ==
    /\ InSession(r)
    /\ Len(run[r].wt.own) < MaxOwn
    /\ StartPublish(r)

\* commit_turn: commit, then an unforced push of the run ref.
Turn(r) ==
    /\ InSession(r)
    /\ Len(run[r].wt.own) < MaxOwn
    /\ LET head == Committed(r, "turn") IN
         /\ run' = [run EXCEPT ![r].wt = head]
         /\ \/ /\ FastForward(runRefs[r], head)
               /\ runRefs' = [runRefs EXCEPT ![r] = head]
               /\ NoFault
            \/ ~FastForward(runRefs[r], head) /\ UNCHANGED runRefs /\ NoFault
            \/ UNCHANGED runRefs /\ Fault
    /\ UNCHANGED <<main, claims, others, pc, loop>>

\* The renewal task: CAS from the claim it owns; a rejection or an error ends the
\* session.  An unanswered push may have been applied.
Renew(r) ==
    /\ InSession(r)
    /\ run[r].sha.ver < MaxRenew
    /\ LET next == [tok |-> run[r].sha.tok, gen |-> run[r].sha.gen,
                    ver |-> run[r].sha.ver + 1] IN
         \/ /\ claims[NodeOf[r]] = run[r].sha
            /\ claims' = [claims EXCEPT ![NodeOf[r]] = next]
            /\ \/ run' = [run EXCEPT ![r].sha = next] /\ UNCHANGED pc /\ NoFault
               \/ Go(r, "error") /\ UNCHANGED run /\ Fault
         \/ /\ claims[NodeOf[r]] # run[r].sha
            /\ Go(r, "lost") /\ UNCHANGED <<claims, run>> /\ NoFault
         \/ Go(r, "error") /\ UNCHANGED <<claims, run>> /\ Fault
    /\ UNCHANGED <<main, runRefs, others, loop>>

\* release_claim: a CAS deletion.  A lost claim is not an error.
DeleteClaim(r) ==
    claims' = IF claims[NodeOf[r]] = run[r].sha
              THEN [claims EXCEPT ![NodeOf[r]] = NoClaim]
              ELSE claims

\* handle_release: the session leaves the map before the claim is deleted.
Release(r) ==
    /\ InSession(r)
    /\ \/ DeleteClaim(r) /\ Go(r, "released") /\ NoFault
       \/ (DeleteClaim(r) \/ UNCHANGED claims) /\ Go(r, "error") /\ Fault
    /\ UNCHANGED <<main, runRefs, others, run, loop>>

\* Mutant: the handoff commit stays local.
HandoffWithoutPush(r) ==
    /\ InSession(r)
    /\ run' = [run EXCEPT ![r].wt = Committed(r, "handoff")]
    /\ Go(r, "handoff")
    /\ UNCHANGED <<remote, others, loop, faults>>

\* handoff, first half: commit everything and push the run ref.  The session has
\* left the map: an error loses it and leaves the claim behind.
HandoffPush(r) ==
    /\ InSession(r)
    /\ LET head == Committed(r, "handoff") IN
         \/ /\ FastForward(runRefs[r], head)
            /\ runRefs' = [runRefs EXCEPT ![r] = head]
            /\ run' = [run EXCEPT ![r].wt = head]
            /\ Go(r, "handoff") /\ NoFault
         \/ /\ ~FastForward(runRefs[r], head)
            /\ Go(r, "error") /\ UNCHANGED <<runRefs, run>> /\ NoFault
         \/ Go(r, "error") /\ UNCHANGED <<runRefs, run>> /\ Fault
    /\ UNCHANGED <<main, claims, others, loop>>

\* handoff, second half: delete the claim, whoever holds it now, and give the ticket.
HandoffRelease(r) ==
    /\ pc[r] = "handoff"
    /\ \/ /\ DeleteClaim(r)
          /\ tickets' = tickets \cup {r}
          /\ Go(r, "handedOff") /\ NoFault
       \/ /\ DeleteClaim(r) \/ UNCHANGED claims
          /\ Go(r, "error") /\ UNCHANGED tickets /\ Fault
    /\ UNCHANGED <<main, runRefs, tracking, lifecycle, run, loop>>

-----------------------------------------------------------------------------
(* What the caller does with the outcome of a publish.                     *)

\* A git error other than a rebase conflict: `mt run` ends, a session stays alive.
PublishFails(r) == Leave(r, IF r \in Runners THEN "error" ELSE "working")

\* The claim is gone or belongs to another commit.
Fenced(r) == Leave(r, IF loop[r].mode = "result" THEN "fenced" ELSE "conflict")

\* A rebase conflict, or all attempts rejected: `mt run` goes on to publish a
\* merge-conflict run file, a session stays alive.
Unpublished(r) ==
    IF r \in Runners /\ loop[r].mode = "result"
    THEN /\ Go(r, "fetchMain")
         /\ loop' = [loop EXCEPT ![r] = [NoLoop EXCEPT !.mode = "failure"]]
    ELSE Leave(r, IF r \in Runners THEN "conflict" ELSE "working")

-----------------------------------------------------------------------------
(* fenced_publish, and publish_failure_run where it differs.               *)

FetchMain(r) ==
    /\ pc[r] = "fetchMain"
    /\ \/ /\ tracking' = [tracking EXCEPT ![HostOf[r]] = main]
          /\ Go(r, "checkClaim") /\ UNCHANGED loop /\ NoFault
       \/ PublishFails(r) /\ UNCHANGED tracking /\ Fault
    /\ UNCHANGED <<remote, tickets, lifecycle, run>>

\* The claim must still be the exact commit; any failure to fetch it counts as lost.
CheckClaim(r) ==
    /\ pc[r] = "checkClaim"
    /\ \/ /\ claims[NodeOf[r]] = run[r].sha
          /\ Go(r, "readMain") /\ UNCHANGED loop /\ NoFault
       \/ claims[NodeOf[r]] # run[r].sha /\ Fenced(r) /\ NoFault
       \/ Fenced(r) /\ Fault
    /\ UNCHANGED <<remote, others, run>>

\* main_sha_before is read from the tracking ref, which other runs of the host move.
ReadMain(r) ==
    /\ pc[r] = "readMain"
    /\ loop' = [loop EXCEPT ![r].seen = tracking[HostOf[r]]]
    /\ Go(r, IF loop[r].mode = "result" THEN "rebase" ELSE "push")
    /\ UNCHANGED <<remote, others, run, faults>>

\* rebase_onto "origin/main" by name.  With nothing new there is nothing to conflict;
\* otherwise the contents decide.
Rebase(r) ==
    /\ pc[r] = "rebase"
    /\ \/ /\ run' = [run EXCEPT ![r].wt = [base |-> tracking[HostOf[r]],
                                           own |-> run[r].wt.own]]
          /\ Go(r, "push") /\ UNCHANGED loop
       \/ tracking[HostOf[r]] # run[r].wt.base /\ Unpublished(r) /\ UNCHANGED run
    /\ UNCHANGED <<remote, others, faults>>

\* The history the push would give main: the rebased worktree, or one failure
\* commit made in a scratch worktree cut from main_sha_before.
Pushed(r) ==
    IF loop[r].mode = "result"
    THEN run[r].wt.base \o run[r].wt.own
    ELSE Append(loop[r].seen, CommitOf(r, "failure"))

\* Mutants: a push without the lease on main, or without the lease on the claim.
LeasesWithoutMain(r) ==
    /\ claims[NodeOf[r]] = run[r].sha
    /\ loop[r].mode = "result" => runRefs[r] = loop[r].lease

LeasesWithoutClaim(r) ==
    /\ main = loop[r].seen
    /\ loop[r].mode = "result" => runRefs[r] = loop[r].lease

\* The leases of the atomic push; the failure push leaves the run ref alone.
LeasesHold(r) ==
    /\ main = loop[r].seen
    /\ claims[NodeOf[r]] = run[r].sha
    /\ loop[r].mode = "result" => runRefs[r] = loop[r].lease

RunRefAfterPush(r) ==
    runRefs' = IF loop[r].mode = "result" THEN [runRefs EXCEPT ![r] = NoRef]
                                          ELSE runRefs

\* Mutants: the claim survives the push, or survives the push of a failure run.
PushKeepsClaim(r) ==
    /\ main' = Pushed(r)
    /\ UNCHANGED claims
    /\ RunRefAfterPush(r)

FailurePushKeepsClaim(r) ==
    /\ main' = Pushed(r)
    /\ claims' = IF loop[r].mode = "result"
                 THEN [claims EXCEPT ![NodeOf[r]] = NoClaim] ELSE claims
    /\ RunRefAfterPush(r)

\* All refs move or none does.
AtomicPush(r) ==
    /\ main' = Pushed(r)
    /\ claims' = [claims EXCEPT ![NodeOf[r]] = NoClaim]
    /\ RunRefAfterPush(r)

\* Mutant: the bound of the loop is tested on the wrong side of the increment.
AttemptTooMany(r) ==
    IF loop[r].tries <= RetryMax
    THEN /\ Go(r, "fetchMain")
         /\ loop' = [loop EXCEPT ![r].tries = @ + 1]
    ELSE Unpublished(r)

\* One more attempt, or the loop is exhausted.
AnotherAttempt(r) ==
    IF loop[r].tries + 1 < RetryMax
    THEN /\ Go(r, "fetchMain")
         /\ loop' = [loop EXCEPT ![r].tries = @ + 1]
    ELSE Unpublished(r)

Push(r) ==
    /\ pc[r] = "push"
    /\ \/ /\ LeasesHold(r) /\ AtomicPush(r)
          /\ Leave(r, IF loop[r].mode = "result" THEN "published" ELSE "conflict")
          /\ NoFault
       \/ LeasesHold(r) /\ AtomicPush(r) /\ PublishFails(r) /\ Fault
       \/ ~LeasesHold(r) /\ AnotherAttempt(r) /\ UNCHANGED remote /\ NoFault
       \/ PublishFails(r) /\ UNCHANGED remote /\ Fault
    /\ UNCHANGED <<others, run>>

-----------------------------------------------------------------------------
(* publish_lifecycle: spawn --approve, invalidate, kill.  Fences main only. *)

LifecycleCount == Len(SelectSeq(main, LAMBDA c : c.kind = "lifecycle"))

LifecycleFetch(h) ==
    /\ lifecycle[h] = NoOp
    /\ LifecycleCount < MaxLifecycle
    /\ tracking' = [tracking EXCEPT ![h] = main]
    /\ lifecycle' = [lifecycle EXCEPT ![h] = main]
    /\ UNCHANGED <<remote, tickets, pc, run, loop, faults>>

\* Rejected: the next attempt fetches again.
LifecyclePush(h) ==
    /\ lifecycle[h] # NoOp
    /\ IF main = lifecycle[h]
       THEN \E n \in Nodes :
              main' = Append(lifecycle[h],
                             [tok |-> NoRun, node |-> n, kind |-> "lifecycle"])
       ELSE UNCHANGED main
    /\ lifecycle' = [lifecycle EXCEPT ![h] = NoOp]
    /\ UNCHANGED <<claims, runRefs, tracking, tickets, pc, run, loop, faults>>

-----------------------------------------------------------------------------
(* Crashes.  The remote keeps its refs; the sessions map was in memory.    *)

Alive(r) == pc[r] \notin {"idle"} \cup Ended

Crash(crashed) ==
    /\ \E r \in crashed : Alive(r)
    /\ pc' = [r \in Runs |-> IF r \in crashed /\ Alive(r) THEN "crashed" ELSE pc[r]]
    /\ loop' = [r \in Runs |-> IF r \in crashed THEN NoLoop ELSE loop[r]]
    /\ Fault
    /\ UNCHANGED <<remote, others, run>>

CrashRunner(r) == r \in Runners /\ Crash({r})

CrashServer(h) == Crash({r \in Sessions : HostOf[r] = h})

-----------------------------------------------------------------------------
PublishStep(r) ==
    FetchMain(r) \/ CheckClaim(r) \/ ReadMain(r) \/ Rebase(r) \/ Push(r)

RunStep(r) ==
    \/ Attach(r) \/ AttachResume(r) \/ Acquire(r) \/ Takeover(r) \/ Prepare(r)
    \/ Execute(r) \/ Turn(r) \/ Renew(r) \/ Release(r)
    \/ HandoffPush(r) \/ HandoffRelease(r) \/ Done(r)
    \/ PublishStep(r)
    \/ CrashRunner(r)

Next ==
    \/ \E r \in Runs : RunStep(r)
    \/ \E h \in Hosts : LifecycleFetch(h) \/ LifecyclePush(h) \/ CrashServer(h)

Spec == Init /\ [][Next]_vars

\* A runner's process goes on with its next call as long as it is alive.
RunnerProgress(r) ==
    Acquire(r) \/ Prepare(r) \/ Execute(r) \/ PublishStep(r)

FairSpec == Spec /\ \A r \in Runners : WF_vars(RunnerProgress(r))

-----------------------------------------------------------------------------
(* Properties.                                                             *)

\* main only grows: no publish drops a commit somebody else published, although
\* the push is forced and the rebase follows a ref other threads move
\* (publish.rs fenced_publish, publish_failure_run, publish_lifecycle).
MainKeepsEveryCommit == [][IsPrefix(main, main')]_main

\* A publish of node n by r: no other run published for n since r took the claim
\* (the exclusive tenure the claim exists for; claims.rs, publish.rs).
PublishedBy(r) ==
    /\ main' # main
    /\ Last(main').tok = r

TenureUnbroken ==
    [][\A r \in Runs : PublishedBy(r) =>
         \A i \in run[r].since + 1 .. Len(main) :
            main[i].node = NodeOf[r] => main[i].tok = NoRun]_main

\* One run never publishes twice, whatever replies are lost and whatever is retried
\* (runner.rs: result, then perhaps merge-conflict; ws.rs: done may be repeated).
TokenPublishesOnce ==
    [][\A r \in Runs : PublishedBy(r) =>
         \A i \in 1 .. Len(main) :
            ~(main[i].tok = r /\ main[i].kind \in {"result", "failure"})]_main

\* A session resumed from a handoff ticket continues everything the old session
\* committed (graph.rs handoff pushes before it deletes the claim).
ResumeInheritsTurns ==
    \A r \in Runs : run[r].from # NoRun =>
        IsPrefix(run[run[r].from].wt.own, run[r].wt.own)

\* The protocol implements an exclusive ledger: the holder of a node is the token in
\* its claim commit, renewals are stuttering.
HolderOf(c) == IF c = NoClaim THEN NoRun ELSE c.tok

Holder == [n \in Nodes |-> HolderOf(claims[n])]

Ledger == INSTANCE ExclusiveLedger
    WITH Holders <- Runs, Nobody <- NoRun, MayTakeOver <- AllowTakeover,
         ledger <- main, holder <- Holder

ImplementsLedger == Ledger!Spec

\* Without faults the claim of an autonomous run is given back, conflict or not.
RunnerClaimReleased ==
    \A r \in Runners : run[r].sha # NoClaim ~> claims[NodeOf[r]] # run[r].sha

-----------------------------------------------------------------------------
(* The inductive invariant behind the proofs.                              *)

Active == {"prepare", "working", "handoff"} \cup Publishing

\* From the accepted push on, a run knows a claim commit of its own token.
ClaimOwned ==
    \A r \in Runs : pc[r] \in Active =>
        run[r].sha # NoClaim /\ run[r].sha.tok = r

\* A tracking ref lags behind main and never leaves its line.
TrackingBehind == \A h \in Hosts : IsPrefix(tracking[h], main)

\* Whatever the other runs of the host fetch in between, the base a result is
\* rebased onto is at least as new as main_sha_before, and on main's line.
RebaseOrdered ==
    \A r \in Runs :
        /\ pc[r] = "rebase" => /\ loop[r].mode = "result"
                               /\ IsPrefix(loop[r].seen, tracking[HostOf[r]])
        /\ (pc[r] = "push" /\ loop[r].mode = "result") =>
               /\ IsPrefix(loop[r].seen, run[r].wt.base)
               /\ IsPrefix(run[r].wt.base, main)

\* What a run publishes ends with its own result.
ResultLast ==
    \A r \in Runs : (pc[r] \in Publishing /\ loop[r].mode = "result") =>
        run[r].wt.own # <<>> /\ Last(run[r].wt.own) = CommitOf(r, "result")

ProtocolInv ==
    TypeOK /\ ClaimOwned /\ TrackingBehind /\ RebaseOrdered /\ ResultLast
=============================================================================
