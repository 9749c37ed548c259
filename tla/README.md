# A TLA+ model of mt

mt runs a graph of tasks kept as files in a git repository.  Each node is a
directory (`task.md`, `run_NNN.md`, `fact_NNN.md`, ...); runners on several
machines work on nodes in parallel, and people join a node interactively through
an agent server.  There is no database and no coordinator: hosts coordinate by
compare-and-swap on refs of one git remote, and sessions are relayed over
websockets.  This directory models the parts of it whose correctness depends on
an order of events that no single process sees, and the small decision procedures
(mandates, policies, texts, flags) on which they rely.

## Inventory

| component | source | state | operations | what is hard |
|---|---|---|---|---|
| claims, fenced publish | `mt-core/claims.rs`, `publish.rs`, `git/compat.rs` | `refs/mt/claims/<node>` (token, generation, lease), `main`, run refs, the remote-tracking ref shared by all runs of a clone | acquire, renew, takeover, release; `fenced_publish`, `publish_failure_run`, `publish_lifecycle` | lost answers, holders that die, `main` that moves, another thread that fetches |
| interactive runs | `agent-server/graph.rs`, `ws.rs`, `runner.rs` | map node -> run; rooms with their agents behind one mutex | attach, turn, renew, release, handoff, resume, done | a step fails after the run has left the map; a prompt holds all rooms |
| runner | `mt-core/runner.rs`, `worktree.rs` | one run: worktree, run file, attempt | preflight, acquire, phases, cascade, watchdog, signal, publish | partial failure between steps, stale checkout, budgets |
| session feed | `agent-server/session.rs`, `ws.rs` | journal, buffer, next seq per room; broadcast channel; clients | append, broadcast, replay, catch-up, seed after a handoff | overtaking, lag, restart, failed writes |
| node state, signals | `mt-core/lib.rs`, `signal.rs`, `nnn.rs` | the files of a node | success, fail, audit; propagation to the parent; derived state, failed streak, ladder | stale snapshots, numbering, children that finish together |
| audit cycle | `mt-core/audit.rs` | the artifacts of one cycle | submit, clarify, amend, verdict, expire | two hosts, publishes that fail after the file is written |
| lifecycle, spawn | `mt-core/lifecycle.rs`, `spawn.rs` | plans, archived chains, subtrees | approve, reject, invalidate with cascade, kill, set_executor | mutations computed from a local snapshot, published later |
| orchestration | `mt-core/orchestrate.rs`, `agent-server/orchestrator.rs`, `relay_client.rs` | the queue of one `run --auto`; wake file and flag; alerts | dispatch with backfill; tick, wake, report, audit, prune | termination, lost wakes, alerts of a stale scan |
| mandates | `mt-mandates` | the map of mandates, its generation | owner of a decision, chain, validate a signed change | authority that grows without its grantor |
| decisions | `mt-core/decision.rs` | two files of a request, two of an answer | escalate, decide | a command dies between its files; two at once |
| approvals gate | `agent-server/approvals_gate.rs` | pending requests, listed keys | request, resolve, set keys | an answer late, twice, for something else, or after the list changed |
| agent process | `agent-core/acp.rs` | one reader per adapter | prompt, permission, death | the reader waits for a person and reads nothing else |
| worktrees | `mt-core/worktree.rs` | git's worktree records and branches | create, remove, prune | what people and git do in between |
| texts, flags, front matter | `mt-core/i18n.rs`, `frontmatter.rs`, `lib.rs` | files of a node | segment, materialise; write and read a flag | two readers of one text that must agree |
| sandbox, isolation, secrets | `mt-core/sandbox.rs`, `isolation.rs`, `secrets.rs` | policy, environment | policy of a node, run, host; apply; mask | what "unknown" and "nothing configured" mean; order of masking |
| relay server, wire protocol, configuration, reports, command line | | none here, or that of one process | | nothing a model checker reaches, or another program |

Components interact through git refs (runner, sessions and lifecycle commands all
push to the same remote), through the files of a node (signals write what state
derivation and the orchestrator read), through the maps of one server (runs, rooms,
pending approvals), and through envelopes (sessions, relay, clients).

What makes each part correct:

* claims and publish: one holder publishes for a node; no commit of `main` is ever
  dropped; a run publishes at most once; a claim is given back;
* interactive runs: what a session committed is not lost by a handoff, a release or a
  failed `done`; every user message ends; nothing a turn wrote stays uncommitted;
* session feed: a connected client sees every journaled event, and a seq names one event;
* node state: an accepted result is not destroyed by a later or older run; retries end;
* composite nodes: a subgraph comes whole; a parent is completed by the results of its
  children and not left open; what was killed stays away;
* audit cycle: one verdict, one question, one answer in each cycle;
* orchestration: `run_auto` returns, a wake is not lost, a failure is reported;
* mandates and decisions: authority grows only with the signature of who granted it; a
  decision, once given, stands;
* approvals: an agent is permitted only what a person permitted;
* the rest: budgets bound an attempt, a translation runs the same checks, a policy stays
  below the host's, no secret is left in an output, a flag reads back as written.

## Modules

| module | what it is |
|---|---|
| `ClaimFencing` | claims, run refs, publish and interactive runs, with faults and crashes |
| `ExclusiveLedger` | what that protocol promises: an append-only ledger written only by holders |
| `SessionFeed` | journals, broadcast, clients, restart, rooms that move between hosts |
| `NodeFiles` | the files of a node, the state derived from them, and their rebase |
| `NodeRuns` | the runs of a node (extends `NodeFiles`): preflight, executor, signals, audit, publish; `run --auto` |
| `CompositeTree` | trees of nodes (extends `NodeFiles`): plans, approval, propagation, invalidate, kill |
| `HostTurns` | user messages, prompts, agents and approvals on one host |
| `Mandates` | maps of mandates, routing, signed changes |
| `Decisions` | forks and their answers as files, with commands that die |
| `Orchestrator` | the wakes of a host |
| `AuditCycle` | the artifacts of audit cycles on two hosts |
| `Attempt` | phases, cascades of CLIs and the watchdog of one attempt, isolation |
| `Worktrees` | worktrees and branches of one clone |
| `Texts` | segments of a file and freshness of its translation |
| `SandboxPolicy`, `Masking`, `ExecutorFlags` | policies from skills; masked output; flags and their front matter |
| `ClaimFencing_proofs`, `SessionFeed_proofs`, `NodeRuns_proofs`, `CompositeTree_proofs`, `HostTurns_proofs`, `Decisions_proofs` | theorems about these modules |
| `Services_proofs` | theorems about `Orchestrator`, `Attempt`, `AuditCycle`, `Worktrees`, `SandboxPolicy`, `Mandates`, `Texts` |
| `NumberLemmas` | sets of numbers, and functions given by a step |
| `MC*` | instances for TLC |

### ClaimFencing

A git ref is the value it points at.  `main` and its copies are sequences of
commits; a commit determines its history, so comparing sequences is comparing
object ids.  A worktree HEAD and a run ref are a base and the commits made on top
of it.  A claim commit is token, generation and a version that grows with every
renewal, because renewals of one token are different objects.

One run (`r \in Runs`) is one token, which is never reused.  `Runners` are runs of
`mt run`, the others are sessions of an agent server; both go through

    Attach -> Acquire -> Prepare -> working -> Execute | Done
           -> FetchMain -> CheckClaim -> ReadMain -> Rebase -> Push

and each of these is one git command or one read in the code, since other
processes and, within a clone, other threads run in between.  `tracking[h]` is
`refs/remotes/origin/main` of clone `h`: all runs of a host move it, and both the
read of `main_sha_before` and the rebase look at it by name.  A push either applies
all ref updates or none; `LeasesHold` lists its leases.  `loop[r]` is one call of
`fenced_publish` (`mode = "result"`) or `publish_failure_run` (`"failure"`).

Sessions add `Turn`, `Renew`, `Release`, `HandoffPush`/`HandoffRelease` and
`AttachResume`.  The server keeps its runs in one mutex-protected map; attach and
done hold the mutex over all their git calls (`MapLocked`), handoff, release and
resume do not.

Faults: each git call may fail, and a push may be applied although the caller is told
that it failed; a runner or a server may crash.  Lease clocks are absent: where
`AllowTakeover` is set, a claim may be replaced at any time, which includes every
reading of every clock.  The code path that would do so
(`renew_or_takeover_claim` with a new token) has no caller today, so the other
runs set it to FALSE.

### ExclusiveLedger

State: a ledger and the holder of each node.  A node is held by at most one run; the
holder may publish one entry, which ends its tenure, or give up; entries that belong
to nobody (lifecycle commits) may be appended at any time.  `ClaimFencing` implements it with
`ledger <- main` and the token of each claim as holder; renewals, fetches, rebases and
all local steps stutter.

### SessionFeed

`sessions[h][r]` is a `Session` (next seq and buffer), `disk[h][r]` its
`session.jsonl`.  `publish` is two steps, `Publish` (append under the session lock)
and `Broadcast`, because the lock is released in between.  `channel[h]` is
the tokio broadcast channel: it holds the last `ChannelSize` messages, and a
receiver that is further behind gets `Lagged` and moves to the oldest.  A client
subscribes, replays from one seq over all open rooms, then receives; `Lagged`
replays from the seq after the last one it was sent.

`holder`, `committed`, `pulling` and `acked` are the part of interactive runs the
feed depends on: `CommitTurn` commits the journal with the worktree, `Pull`
(a `HandoffPull` frame) opens the session and asks the holder, `ServeHandoff`
answers, `ResumeNode` seeds the journal where that is still possible.  Which event a
handler publishes is data: its publish calls are `Publish` steps.

### NodeFiles, NodeRuns

The files of a node are a function from names to contents: `<<"run", 2>>` is
`run_002.md`, its content the `result:`.  `NodeFiles` derives from them what the code
derives: the number of the next attempt, the failed streak, exhaustion of the ladder, the
accepted result.  It also has the one way in which files of one copy reach another,
the rebase.  In `NodeRuns` there are three kinds of copies: `main`, the
checkout `tree[h]` of each host (where preflight, the scan and people's commands look), and the
files a run starts from and leaves (`base`, `mine`).  The checkout is moved by the
fast-forward after a publish of its own host (`Synced`, which git refuses when the checkout is on
another branch, or an `untracked` file is in the way) or by a person (`Pull`).  That every
decision is taken on one copy and takes effect on another is what makes the code
hard.

    Preflight -> Fetch -> Acquire -> Work -> Publish

is one `run_node_env_as`.  Between these steps other runs and people act.  `Work` is the
executor, the gates and the run file: nothing else sees the worktree
meanwhile.  `Outcome` is what the executor does: whether it writes a plan (in the planning phase or
later), a fact, is killed, and leaves a tree whose check passes.  `Finished` then follows
the three branches of the code: decomposed; a fact and no kill, which is signalled with `done` or
`audit` (`Accepted`) and removed when refused; everything else.  `"failed"` stands for
`progress-timeout` and `budget-exceeded`, too.  `Publish` has the outcomes of
`fenced_publish` and `publish_failure_run`, whose steps are those of `ClaimFencing`; there
a claim is lost only to a takeover, which no caller asks for, so fencing is left
out here.

`AutoStart`, `Scan`, `Collect` are `run_auto`: a scan fills the free slots, then the
loop waits for one event.  `Verdict`, `Invalidate` and `RejectPlan` are commands of people, taken on the
files of their own checkout.

### CompositeTree

The same files for a whole tree.  A node exists where its `task.md` is; `Parent` says which
children the plan of a node lists.  `Start`, `Finish` and `PublishRun` are a run, shorter than in
`NodeRuns`; what matters is that `Finish` propagates to the parent in the run's own
worktree (`Propagated`, one step per level) and that a contract weakened by the executor is
refused.  `Approve` writes the children and publishes one commit, `Verdict`,
`Invalidate` (with the cascade over what is below) and `Kill` act on a checkout and on
`main` as one commit each; a publish that fails leaves the local files behind.  `Die` ends a run
without its release, and its claim stays.  A fact's content is the run that wrote it, so that a
result that is replaced can be seen.

### HostTurns

A user message is a task: `Attach`, then wait for the mutex over all rooms and `Prompt`, then
`Commit`.  The agent of a room edits, asks, dies, or ends the prompt as it likes;
its reader answers a permission request itself, which is `asked[n]`: while it is set nothing of that
agent is read.  `Resolve` is a verdict frame, signed or not, for any request, at any time;
`GiveUp` is the timeout after which the reader refuses although the gate still knows the
request.  `SetPubkeys` is a list of keys from the relay, after which verdicts need a signature of
a listed device over the request, its run and the verdict.

### Mandates, Decisions, AuditCycle

`Mandates` has the map as a set of records.  `Valid` is the check of a map,
`EffectiveOwner` and `EscalationChain` the routing, `ChangeAccepted` what
`validate_mandate_change` accepts of a signed change: `Change` finds the first difference,
which decides whose signature is asked for.  Patterns and refs are given by a match relation.

`Decisions` is the four files of a fork.  A command reads the directory, takes a number, then writes its
two files in two steps, between which it may die.  `AuditCycle` is `main` and two checkouts; a
command decides on its own checkout, writes there, and publishes, which may fail and leave the
file behind.

### Orchestrator, Attempt, Worktrees

`Orchestrator` follows one wake step by step: dispatch, scan, alerts, audits, prune.  `Frame`, `Hello`,
`Merge` and `Tick` are what comes from outside at any moment of it.  `Attempt` counts seconds:
`Second` is a second that passes and the polls in it; the process writes into its directory, exits
or hangs.  A phase ends when a CLI succeeds, when the watchdog kills, or when
the cascade is used up.  `Worktrees` has git's records, directories and branches; `Person` is everything
people do to them.

### Texts, SandboxPolicy, Masking, ExecutorFlags

Algorithms that two sides of the code must agree on.  Each module
builds its input step by step (a line, a declared skill, a printed letter, an edited flag), and its
property compares the result with a reference definition in every state:
the commands of the Check section with those of the translated copy, the policy with the
host's, the masked output with every value asked for, the parsed flag with the
written one.

## Runs

All configurations set `CHECK_DEADLOCK FALSE`: tokens, events, messages, forks and
attempts are used up in a bounded instance, and then the system stops.

| run | instance | shows |
|---|---|---|
| `ClaimFaults` | a runner and a session of one node in one clone, 2 attempts, 1 fault anywhere, 1 renewal, 3 own commits, 1 lifecycle commit | `ProtocolInv` (the inductive invariant of the proofs), `MainKeepsEveryCommit`, `TokenPublishesOnce`, `ImplementsLedger` |
| `ClaimHandoff` | 3 sessions of one node on two hosts, takeovers at any moment, 1 fault, 2 own commits | `ResumeInheritsTurns`, `TenureUnbroken` |
| `ClaimDrain` | 2 runners of two nodes in one clone, 2 lifecycle commits, 4 attempts, no faults, fairness | `RunnerClaimReleased` |
| `FeedCatchUp` | 1 room, 1 publisher at a time, 5 events, buffer 2, channel 2 | `FeedComplete`, `SeqIdentifiesEvent` |
| `FeedRestart` | 2 hosts, a room that moves, 4 events, 1 restart, 1 failed write | `JournalInv` |
| `NodeAuto` | `run --auto` with 2 slots, 2 nodes of which one needs the other, the first audited from another host, plans rejected, 2 rejected facts, 1 failed git call, 4 attempts, ladder of 2 | `InputsAccepted`, `LadderHolds`, `HistoryKept` |
| `NodeReturns` | `run --auto` with 2 slots, 2 nodes, audit and 1 invalidation from another host, 1 failed git call, 2 attempts, ladder of 1, fairness | `AutoReturns` |
| `NodeByHand` | agent and engineer on one node from 2 checkouts, plans rejected, 2 attempts | `RunsInv` |
| `TreeGrows` | three levels, four nodes, a laptop where people approve, audit, invalidate or kill (once) and a server with 2 runs at a time, 3 facts, 1 fault | `TreeTypeOK`, `SubgraphWhole`, `NoneLeftOpen`, `CompletedOnEvidence`, `ResultsKept`, `OnlyApprovalCreates` |
| `HostTurns` | 2 nodes, 2 user messages, 2 runs, 1 request, 2 devices, 1 list of keys, fairness | `HostInv`, `TurnsCommitted`, `VerdictsAreGiven`, `TurnsEnd` |
| `Services` | the ten components from `Mandates` to `ExecutorFlags` that share no state with the others; one moves in a behavior, `part` says which | `Routable`, `GrowthSigned`, `RootConsents`, `RequestStands`, `DecisionStands`, `NoWakeLost`, `AlertedInSameWake`, `CycleGrows`, `AttemptBounded`, `KilledOnlyWhenIdle`, `OnlyOwnRemoved`, `CheckReadAsBase`, `PolicyWithinCeiling`, `NothingLeft`, `FlagReadBack` |
| `NodeKilledFact` | violated: the fact of a killed executor is published without its check | finding |

Bounds of the claims and the feed.  A lost race needs two runs and a publish, a second lost race a third
publish (the lifecycle commits), the interesting fault is a single one (the first
failed call decides where the run ends), a handoff chain needs three sessions to
hand over twice.  `RetryMax = 2` makes the loop go round once and `4` makes it
outlast the competing publishes in `ClaimDrain`.  A deep replay needs one event more than
the buffer, a lag one more than the channel, a reused or skipped seq one ephemeral
event between two journaled ones: 3 to 5 events.

Bounds of the runs.  A streak crosses a rejected fact after a failure, the rejected success and another
failure (`MaxRejected = 2`, four numbers, a ladder of two).  A
number beyond `MaxNumber`, or a plan beyond it, blocks the run; in `NodeReturns` that would be a
violation of `AutoReturns`, so the bound is never met there.  Of the two people who may
revoke what others rely on, only the auditor acts in `NodeAuto`:
with an invalidation in the middle of a run `InputsAccepted` and `HistoryKept` do not hold by the meaning
of the command.

Bounds of the tree.  Three levels are the least at which a propagation goes on after its first
parent, and two children the least at which one of them may be open.  A third fact is one that follows an
invalidation of either child.  One of the two leaves is audited: its verdict resolves
it without a run, so `NoneLeftOpen` speaks of the upper parent only (see *Observed*).
`MayWeaken` is FALSE: with contracts that executors weaken at any moment the instance no
longer ends within minutes.

Bounds of the host.  Two messages of two nodes are one that waits for the mutex and one that holds
it; two runs let a node get a new one while its room keeps the old.
The one request is what verdicts come for twice, late, or under another list of keys.

Bounds of `Services`.  Two generations of mandates over every single change of two maps
(one with three owners in a chain, one with two); three forks and two deaths, so that a number
is taken after a dead command's; two events from outside a wake; two cycles and one
refused publish; a cascade of two CLIs with one listed twice, a budget of three seconds and a
timeout of one; two developers' worktrees and one run's; every text of four lines;
values of one or two letters in an output of four; two skills and two notes in a flag.  Since the
parts are independent, interleaving them would multiply states and show nothing.

Fairness.  `ClaimFencing`'s `FairSpec` asks weak fairness of the next call of a runner: a live
process that is neither blocked by a lock nor by input continues.  Nothing is
assumed about sessions (their steps are people's) or faults.  In `NodeRuns` the threads of
`run_auto` and its loop continue; `Work` ends because the watchdog kills an executor that is over
its budget or makes no progress.  Nobody has to pull, audit, review or run anything by hand.  In
`HostTurns` tasks run, an agent ends its prompt (or its stream closes), and the 120 seconds of a
permission request pass; people need not answer.  Weak fairness is enough for the mutex, since each message takes it
once and there are finitely many; tokio's mutex, which hands it on in order, promises more.

## What is proved

Every theorem holds for all values of the constants that its module's assumption allows (nodes, hosts, runs,
bounds), and, where a hypothesis is named below, under that hypothesis only.  The
assumptions say of the constants what their types say, and a few things more: the maps of mandates a behavior starts
with are valid files (`FirstMapsAssumption`: `load` refuses others), nobody calls a
worktree of a developer after a run (`WorktreesAssumption`: the worktree of a run is named `<node-hash>-<token>`,
20 hexadecimal digits and a token, `worktree.rs`:52; that of a developer after a branch or a task, or as the person
chooses, and nothing in the code forbids the first form), in a tree that is there at the start the parent of an
approved node is an approved node, and there are finitely many nodes (`TreeAssumption`), and a text is not both
read back as it is and taken for a number (`FlagsAssumption`).

`NumberLemmas` has what the proofs share: least and greatest elements of sets of numbers, induction over sets of
numbers, and the existence of functions that are given by a first value and a step (`Iteration`, `Steps`).
A recursive function of a model is a `CHOOSE` of such a function, so these lemmas give its
equations, and with them what it computes step by step.

`ClaimFencing_proofs`, from `ConstantsAssumption`:

* `ProtocolInvariant`: `Spec => []ProtocolInv`.  `TypeOK` alone is not inductive
  enough for anything below.  `ClaimOwned` says that a run past its acquire knows a claim of
  its own token; `TrackingBehind` that each tracking ref is a prefix of
  `main`; `RebaseOrdered` that what a push builds on lies between `main_sha_before` and
  `main`, whatever other threads of the clone fetched in between; `ResultLast` that
  what is pushed ends with the run's own result.
* `MainOnlyGrows`: `Spec => MainKeepsEveryCommit`.  The push is forced, so only the
  lease on `main` protects it: by `RebaseOrdered` and the lease, base and `main`
  are prefixes of each other.
* `ImplementsExclusiveLedger`: `Spec => ImplementsLedger`, step by step:
  acquire and takeover are `Take`, an accepted push is `Publish` (by `ClaimOwned` the lease on the
  claim means that the publisher is the holder), release, handoff and crashes give
  up or stutter.
* `HistoryInvariant`: `Spec => []HistoryInv`, which relates what a run knows to the commits on `main`:
  no outcome of its token is there while it may still publish (`OutcomeAhead`), nobody else's commit
  of its node is there since its acquire (`TenureSoFar`), and a resumed session holds what its ticket stands for.
  `TokensPublishOnce`, `TenuresUnbroken` and `ResumedInherit` are its corollaries: the push that publishes deletes the
  claim it is fenced by, and a token is never used again.

`SessionFeed_proofs`, from `FeedAssumption`:

* `JournalStaysOrdered`: `Spec => []JournalInv`.  The conjunct "the next seq is larger
  than everything in the buffer and on disk" is what makes it inductive: a failed write may put
  the buffer ahead of the file, and a restart may put the file behind the last seq given out.
* `SeqsIdentifyEvents`: on one host that is not restarted, `Spec => []SeqIdentifiesEvent`, for any rooms and any number of
  publishers.  A restart gives the seq of an event out again that was not written.
* `FeedsComplete`: on one host with one room and one publisher at a time, every line written, `Spec => []FeedComplete`.
  The invariant says of each client that everything after its last seq is still ahead of it: in the
  replay, the channel, or the broadcast that is due.  Each hypothesis is needed: with several
  rooms the catch-up starts from one seq for all of them; with several publishers broadcasts overtake; a lost line
  is missing from the replay; the request frame of a second host has seq 0 and resets `last_sent_seq`.
* `UnlaggedFeedsComplete`: as long as no client falls behind (`[][NoneLags]_vars`) and every line is written,
  `[]FeedComplete` for any rooms, hosts and publishers, through restarts and moves.  So a lag and a failed
  write are the only causes of a gap.

`NodeRuns_proofs`, from `RunsAssumption`:

* `RunsInvariant`: `Spec => []RunsInv`, with the types, `UntrackedThere` and
  `OneAttempt` as conjuncts, and `OneAttemptHolds` as its corollary.  `OneAttempt` ties a run that works
  to the claim of its node: without the claim, that two runs are never on one node is not
  inductive.  A push ends the run that owned the claim it removes, which by `OneAttempt`
  is the only one there.  `UntrackedThere` is why a checkout keeps its type through a
  fast-forward, which carries the untracked files over.  Everything that `mt` writes to
  a node, the executor's output included, is shown to be of the names and contents it
  knows (`FinishedFiles`, `RebasedFiles`, `SyncedTree`).
* `InputsStand`: `Spec /\ []NotBlocked(s) => []InputsAccepted`, `LaddersHold`: the same for `[]LadderHolds`, and
  `HistoryStands`: the same for `HistoryKept`, for any nodes, dependencies and slots, with one `run --auto`, on the host `s`
  (`OneAutoHost(s)`: its checkout is on main, verdicts come from one other checkout, nobody invalidates), and as long as
  no file that git does not know there is in the way of a fast-forward.  `NothingBlocked` proves the latter from the
  specification when people do not review plans on `s`, the only place such a file comes from.  The
  invariant `AutoInv(s)` says that the checkout is behind main by verdicts only (`Follows`), which no decision
  of a run reads, and that what a run decided is still true of main: its number is the next one, its inputs
  are resolved, its failed runs are fewer than the limit (`Stands`).  Each hypothesis is needed: a run by hand passes the preflight
  on a checkout that is behind; an auditor on `s` may hold a verdict that is not published; two
  auditors overwrite each other's verdict; a checkout that is not on main, or whose fast-forward is refused, gives out the
  number of a finished run again.

`CompositeTree_proofs`, from `TreeAssumption`:

* `TreeTypes`: `TreeSpec => []TreeTypeOK`.  A run needs a node that is claimed and had a task where the run
  started, and no two runs have one node, because a publish frees the claim of its node.  What a propagation
  leaves, level after level, is shown by `PropagatedStays` for any property of trees that completing one parent keeps.
* `SubgraphsWhole`: `TreeSpec => []SubgraphWhole` and `ApprovalsCreate`: `TreeSpec => OnlyApprovalCreates`, under two hypotheses:
  the commands that create and remove nodes come from one checkout `h` (`OneDecides`), and each reaches `main`
  (`[][CommandSucceeds]_treeVars`).  `DecidedInv` says that this checkout and `main` have the same tasks and decisions,
  that the checkout has no plan that `main` lacks, and that a run keeps tasks and decisions and takes no plan away;
  merges then keep them too (`MergedMarks`, `RebasedMarks`), a kill takes a directory with everything below
  (`BelowClosed`), and the decision of an approval is newer than those before because each had a
  plan.  Without the second hypothesis the first is false: see *Observed*.
* `ResultsStay`: `TreeSpec /\ [][UpToDate]_treeVars => ResultsKept`, for any trees, runners and numbers of invalidations and kills, when
  all runs are on one machine where nobody gives a command (`OneServer(s)`) and a command is given in a checkout that is as main
  is.  `KeptInv(s)` says that a node which is undecided in the server's checkout is so on main, and so is the leaf of every run; its
  publish changes that leaf and parents, which keep their facts (`Worked`).  Invalidations from a checkout that is behind
  main break it.
* `ParentsOnEvidence`: `TreeSpec /\ [][UpToDate /\ CalmFamilies]_treeVars => CompletedOnEvidence`: besides, no node is killed, and
  none is added beside siblings, while a run works (`CalmFamilies`).  `EvidenceInv(s)` relates main to what each run started from: a result
  that has not moved to the archive since is still one (`Followed`), and what a propagation completed
  has its children resolved in the worktree of the run (`Justified`).  A kill and a new approval during a run leave
  an empty child that the run never saw, and no trace of it in the archive.
* `NoParentOpen`: `[]NoneLeftOpen` of the same behaviors, if two runs are never below two siblings at once (`OneBranch`), people
  archive or kill between runs only, and kill no child that has siblings (`CalmCommands`).  `OpenInv(s)` says that the siblings beside a run's way
  up are as the run read them (`AsRead`) and that it gives facts on its way up only, as far as a parent
  is not to be completed (`Told`); that the climb comes to its end follows from counting the
  parents it completes (`Climbed`, `ClimbedOn`).  All three conditions are needed: two runs of siblings at once each find the other
  unresolved and leave the parent open; so does a kill of the one sibling that was not resolved, and an
  invalidation of the parent during the run of a child that was invalidated before.  `[]HasRoom(main)` excludes parents with more
  runs than `MaxNumber`, which is a bound of the model.

`HostTurns_proofs`, from `HostAssumption`:

* `HostInvariant`: `HostSpec => []HostInv`.  To be inductive it needs that who holds the mutex is
  prompting its own node (`HolderPrompts`) and that a reader waits for a request of its own node
  (`RequestsNumbered`), otherwise a verdict for one node could release the reader of another.
* `VerdictsWereGiven`: `HostSpec => VerdictsAreGiven`.  A signature that verifies is one that its device
  made for that request and verdict; the reader's own refusal is not a permission.
* `EveryTurnCommitted`: `HostSpec => []TurnsCommitted`.  A room may go on working in an older run than its
  node has, so the invariant keeps apart which node a run belongs to (`RunsApart`) and says that uncommitted
  work of a node's present run has a turn ahead of its commit (`CommitAhead`).

`Decisions_proofs`, from `DecisionsAssumption`, `OneAgent` and `OneDecider` (one command at a time
escalates, one decides; without it two take the same number):

* `RequestsStand`: `DecisionsSpec => []RequestStands` and `DecisionsStand`: `DecisionsSpec => DecisionStands`.
  `EscalationUnderWay` and `AnswerUnderWay` say what a command has still to write at each of its
  steps, and that its number is still its own.

`Services_proofs`, the components that share no state, each from the assumption of its own module:

* `WakesAreKept`: `OrchestratorSpec => []NoWakeLost` and `FailuresAreReported`:
  `OrchestratorSpec => []AlertedInSameWake`.  The second needs that what the runs left unresolvable is
  still so at the scan of the same wake (`AlertIInv`), whatever merges in between.
* `WritersAreSpared`: `AttemptSpec => KilledOnlyWhenIdle`, by `IdleBehind`: what the watchdog counts never exceeds
  the seconds since the last write.  `AttemptsEnd`: `AttemptSpec => []AttemptBounded`, by `WithinBudgets`: the seconds used
  and those the rest of the cascade may still use stay within what three phases allow; that the cascade
  has no CLI twice is shown from its recursive definition.
* `CyclesGrow`: `AuditSpec => CycleGrows`.  By `SidesKnow` each side has in its checkout all that it
  published itself, which is why a guard on a stale checkout suffices for one auditor and one executor.
* `OwnWorktreesOnly`: `WorktreesSpec => OnlyOwnRemoved`.
* `CeilingHolds`: `SandboxSpec => []PolicyWithinCeiling`.
* `DecisionsAreRouted`: `MandatesSpec => []Routable`: in a valid map every walk upwards ends at the one root within as
  many steps as the map has mandates, and on the way or there somebody may take the decision.
  `GrowthIsSigned`: `MandatesSpec => GrowthSigned` connects the comparison by patterns, types and
  thresholds, which asks for signatures, with the match by refs and facets, which decides.
  `RootsConsent`: `MandatesSpec => RootConsents`.
* `ChecksReadAsBase`: `TextsInit /\ [][TextsNext]_textsVars => []CheckReadAsBase`: by induction over the lines of a file, what
  `check_commands` takes lies in a machine section of `segment_body`; and what is shown is always the
  file in base language or the translation of its present version (`TextsInv`).
* `SecretsAreMasked`: `MaskingSpec => []NothingLeft`.  By `LeftOver`, what has no mark in it after a replacement stood
  in the text before and does not begin with the value at its place, so a value that was replaced is gone and
  no later replacement brings one back (`ReplacedText`); that a whole secret leaves one mark needs
  the order of `Masker::new` (`LongestFirstOrders`, `WholeMasked`).
* `ExecutorIsReadBack`: `FlagsSpec => []FlagReadBack`.  What people do to a flag keeps the three entries in order and
  the items without a gap behind theirs (`FlagKept`); of such lines the parser takes the items and the empty
  lines behind them (`InnerRead`), and of those the skills (`ItemsRead`).

Model-checked only:

* liveness, which the provers do not reach: `RunnerClaimReleased`, `AutoReturns`, `TurnsEnd`;
* properties where the hypotheses of their theorem do not hold: `TreeGrows` lets people command in checkouts that are
  behind main, and kill or archive while runs work, once in a behavior.

## Findings

`NodeKilledFact`: a comment in `runner.rs` (1298-1299) says that a fact whose check did not pass is not
published.  When the watchdog has killed the executor, or the executor has decomposed the node, a fact it
wrote before stays in the worktree, is published with the failed run (1309), and resolves the node.

Observed while modelling and left without a run of their own.

Claims and sessions:
* a `done` that failed after its rebase cannot be repeated: the retry takes the changed HEAD for the run ref
  it expects on the remote (`graph.rs`:281), which the lease then refuses;
* when the run file of a merge conflict is not published either (`publish_failure_run` runs
  out of attempts), the claim stays on the remote with nobody to release it;
* no caller takes over a claim, so that of a crashed holder stays, and the runner never calls
  `release_claim`: an error of the spawn or of the isolation (`?`) leaves claim and worktree;
* an attach after a release starts from `origin/main`, not from the run ref of the session before;
* `commit_turn` after an unpublished `done` pushes without force a HEAD that was rebased, and is
  refused;
* generations start again at 1 after a release;
* after a release and a new attach the room keeps its old directory, or a dead stream
  (`agent-server/runner.rs`:154);
* an approval that comes after the timeout is recorded as given although the agent was refused
  (`session.rs`:222);
* the line of a verdict goes into the run that the node has when it comes (`ws.rs`:629).

Feed:
* a catch-up after a lag skips the events of rooms whose seqs are lower than the last one sent;
* a room pulled by a `HandoffPull` frame starts with an empty journal, because the frame has
  already opened the session;
* ephemeral events take seqs that a restart gives out again;
* an overtaken broadcast is lost by a lag;
* a failed journal line is missing from replays served from disk.

Runs:
* a verdict, an invalidation or a rejected plan leaves untracked files, and once `main` has files of
  those names the checkout is never fast-forwarded again; `run_auto` on it repeats a finished node;
* a rejected composite plan sends the node back to `waiting`, the next run finds the plan still
  composite and ends as `decomposed` at once, which counts as no failure;
* preflight is not repeated after the claim: of two runs of one node the second may start
  past the ladder's end, or overwrite the run file and remove the fact of the first;
* preflight looks neither at the streak (for an agent) nor at `unresolvable.md`;
* an invalidation in the middle of a run makes the number of the run differ from the one the
  signal counts, and its fact is removed;
* a node with an optional audit that was patched has to be audited although nobody will;
* a last failure that is a merge conflict writes no `unresolvable.md`;
* `run_single_phase` has no watchdog; a kill in the planning phase is ignored; the summary phase runs after the
  signal and before the commit (`runner.rs`:1369), so that a fact it writes is published unsignalled;
* `running_<pid>_until` of a dead process never expires (`lib.rs`:528).

Composite nodes, audits, decisions:
* two last children that each saw the other open leave their parent open, and so does a verdict on the last
  child, which does not propagate, or a kill of it;
* an approval, and an audit artifact, whose publish failed are refused when they are repeated
  (`spawn.rs`:526 and `audit.rs`:99 say to repeat them), because the local files are there;
* such an approval whose publish failed leaves its children in the checkout; an invalidation of one of them then writes the
  child's directory to `main`, without the decision that made it (`lifecycle.rs`:185);
* two auditors on two hosts can each publish a verdict, the later replaces the earlier;
* two commands of `mt escalate` at once take the same number (`decision.rs`:84), and `mandate_generation` of a
  request is never compared (`decision.rs`:51);
* of several differences in a mandate only the first is checked: a wider scope goes unnoticed beside a
  changed `escalates_to` or `kind`, and for a model any human's signature is enough (`change.rs`:237);
* `expire_clarification`, `audit_escalation_due`, `reconcile_after_rerun`, `materialize` and
  `validate_mandate_change` have no callers besides tests.

Host and files:
* `alerted` is never cleared, so a node that fails again later is not reported;
* the wake flag is set before the handler of the frame has run, and before `hello` the host does
  not know its own device id and wakes for its own frames;
* a worktree that was removed and whose branch could not be deleted makes its name unusable; `branch -D` deletes
  unmerged commits; a name that is the prefix of another one is ambiguous (`lib.rs`:597);
* headings that are indented or in a code fence are read differently by the translator and by the check
  (`i18n.rs`:319, `signal.rs`:81-87);
* in front matter a comment inside a list makes a map of its item or ends the list, a blank line after a key gives
  null, and texts that look like numbers or Booleans, or with quotes in them, are not read back as written;
* a command that dies between the two flags leaves both, although the code promises exactly one; `a.md` then counts.

## Not modelled

The relay server, which is another program in JavaScript, and the wire protocol, which is
serialisation; configuration, surfaces, artifacts, ledger, retrospectives and the MCP server, which read and render
without state of their own; `approval.rs` (the quiz before an approval, called from outside the repository
only) and the discovery files of a server; the enforcement of paths and networks by the operating system; inline and
nested front matter; lease clocks and clock skew; the scan of remote claims; workspaces, `.gitignore` and prompts; the
contents of files, so whether a rebase conflicts is a choice; what an executor or an
auditor does; websocket handshakes and filters; the read-only commands.  In `NodeRuns`: approved
plans and the children they make (they are in `CompositeTree`), `budget_total_sec`, `run-summary.md`, an
invalidation that is not published.  In `CompositeTree`: `deps/`, deadlines, the plans of leaves.

## Plan

1. `HostTurns` with `Release` and `Handoff` of `ClaimFencing` as its `RunEnds`, as one composition.
2. Executors that weaken their contract in a `CompositeTree` of two levels.
