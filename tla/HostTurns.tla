----------------------------- MODULE HostTurns -----------------------------
(***************************************************************************)
(* Turns of interactive sessions on one host: user messages, the runs they *)
(* attach, the prompts to the agents, and the approvals that agents wait   *)
(* for (agent-server ws.rs, runner.rs, approvals_gate.rs; agent-core       *)
(* acp.rs).                                                                *)
(*                                                                         *)
(* Each frame of a client is handled in a task of its own.  A user message *)
(* makes sure that the node has a run, waits for the one mutex over all    *)
(* rooms, prompts the agent of the room while it holds it, and commits.    *)
(* A room keeps its agent and the directory it was opened in.  The reader  *)
(* of an agent's stream answers a permission request itself: until there   *)
(* is a verdict it reads nothing, not even the end of the stream.  The     *)
(* reader gives up after a while and refuses; the gate is not told.        *)
(*                                                                         *)
(* A run stands for its worktree; what its claim goes through is in        *)
(* ClaimFencing.  The agent's process and the people are choices.  The run *)
(* token that a signature covers is that of the session, which lives as    *)
(* long as the host here; it goes with the request.                        *)
(***************************************************************************)
EXTENDS Integers, FiniteSets

CONSTANTS
    Nodes,
    MaxTurns,       \* bound: user messages
    Devices,
    KeyLists,       \* the pubkey lists a relay may send
    MaxRuns,        \* bound: runs attached
    MaxRequests,    \* bound: permissions asked for
    MaxLists        \* bound: pubkey lists received

ASSUME HostAssumption ==
    /\ KeyLists \subseteq SUBSET Devices
    /\ {MaxTurns, MaxRuns, MaxRequests, MaxLists} \subseteq Nat

\* User messages, in the order they come.
Turns  == 1 .. MaxTurns
NoTurn == 0

VARIABLES
    runs,           \* node -> its run, 0 if it has none
    lastRun,
    rooms,          \* node -> its room: the agent and the run it works in
    holder,         \* the turn that holds the mutex over the rooms
    turn,           \* the task of each user message
    asked,          \* node -> the request its reader waits for, 0 if none
    requests,       \* the requests so far: the node of each
    pending,        \* those the gate still knows
    verdict,        \* what the agents were told: a function of requests
    given,          \* <<device, request, approved>> that people signed
    pubkeys, requireSigned, lists,
    uncommitted     \* runs with files no commit has

agentVars    == <<rooms, asked, uncommitted>>
approvalVars == <<requests, pending, verdict, given>>
keyVars      == <<pubkeys, requireSigned, lists>>
hostVars     == <<runs, lastRun, holder, turn, agentVars, approvalVars, keyVars>>

NoRoom == [agent |-> "none", run |-> 0]
NewTurn == [at |-> "idle", node |-> 0, run |-> 0, ok |-> TRUE]

HostInit ==
    /\ runs = [n \in Nodes |-> 0]
    /\ lastRun = 0
    /\ rooms = [n \in Nodes |-> NoRoom]
    /\ holder = NoTurn
    /\ turn = [t \in Turns |-> NewTurn]
    /\ asked = [n \in Nodes |-> 0]
    /\ requests = <<>> /\ pending = {} /\ verdict = <<>> /\ given = {}
    /\ pubkeys = {} /\ requireSigned = FALSE /\ lists = 0
    /\ uncommitted = {}

Going(t) == turn[t].at \notin {"idle", "ended"}

-----------------------------------------------------------------------------
(* The task of a user message.                                             *)

UserMessage(t, n) ==
    /\ turn[t].at = "idle"
    /\ \A u \in 1 .. (t - 1) : turn[u].at # "idle"
    /\ turn' = [turn EXCEPT ![t].at = "arrived", ![t].node = n]
    /\ UNCHANGED <<runs, lastRun, holder, agentVars, approvalVars, keyVars>>

\* Without a run the node is attached; if that fails the message goes no further.
Attach(t) ==
    LET n == turn[t].node
    IN  /\ turn[t].at = "arrived"
        /\ \/ /\ runs[n] # 0
              /\ turn' = [turn EXCEPT ![t].at = "queued", ![t].run = runs[n]]
              /\ UNCHANGED <<runs, lastRun>>
           \/ /\ runs[n] = 0
              /\ lastRun < MaxRuns
              /\ lastRun' = lastRun + 1
              /\ runs' = [runs EXCEPT ![n] = lastRun']
              /\ turn' = [turn EXCEPT ![t].at = "queued", ![t].run = lastRun']
           \/ /\ runs[n] = 0
              /\ turn' = [turn EXCEPT ![t].at = "ended"]
              /\ UNCHANGED <<runs, lastRun>>
        /\ UNCHANGED <<holder, agentVars, approvalVars, keyVars>>

\* The mutex is taken; the first turn of a node opens its room, in the turn's run.
Prompt(t) ==
    LET n == turn[t].node
    IN  /\ turn[t].at = "queued"
        /\ holder = NoTurn
        /\ \/ /\ rooms[n].agent # "dead"
              /\ rooms' = [rooms EXCEPT ![n] = IF @ = NoRoom THEN [agent |-> "works", run |-> turn[t].run]
                                                 ELSE @]
              /\ turn' = [turn EXCEPT ![t].at = "prompting"]
              /\ holder' = t
           \/ \* the stream of the room is closed, or a room cannot be opened
              /\ rooms[n].agent \in {"dead", "none"}
              /\ turn' = [turn EXCEPT ![t].at = "answered", ![t].ok = FALSE]
              /\ UNCHANGED <<rooms, holder>>
        /\ UNCHANGED <<runs, lastRun, asked, uncommitted, approvalVars, keyVars>>

Prompting(n) == holder # NoTurn /\ turn[holder].node = n

\* Mutant: a turn that failed is not committed.
WorthCommitting(t) == turn[t].ok

\* Every turn is committed, to the run the node has by now.
Committed(t) == TRUE

Commit(t) ==
    LET n == turn[t].node
    IN  /\ turn[t].at = "answered"
        /\ uncommitted' = IF Committed(t) THEN uncommitted \ {runs[n]} ELSE uncommitted
        /\ turn' = [turn EXCEPT ![t].at = "ended"]
        /\ UNCHANGED <<runs, lastRun, holder, rooms, asked, approvalVars, keyVars>>

\* done, release, or a renewal that fails takes the run out of the map.
RunEnds(n) ==
    /\ runs[n] # 0
    /\ runs' = [runs EXCEPT ![n] = 0]
    /\ UNCHANGED <<lastRun, holder, turn, agentVars, approvalVars, keyVars>>

-----------------------------------------------------------------------------
(* The agent of a room, and the reader of its stream.                      *)

\* Mutant: the permission is answered by a task of its own.
ReadsBesideRequest(n) == TRUE

\* The reader is at the next line of the stream.
Reads(n) == asked[n] = 0

AgentEdits(n) ==
    /\ Prompting(n)
    /\ rooms[n].agent = "works"
    /\ Reads(n)
    /\ uncommitted' = uncommitted \cup {rooms[n].run}
    /\ UNCHANGED <<runs, lastRun, holder, turn, rooms, asked, approvalVars, keyVars>>

\* session/request_permission: the gate registers a request, the session publishes it.
AgentAsks(n) ==
    LET q == Cardinality(DOMAIN requests) + 1
    IN  /\ Prompting(n)
        /\ rooms[n].agent = "works"
        /\ Reads(n)
        /\ q <= MaxRequests
        /\ requests' = [i \in 1 .. q |-> IF i = q THEN n ELSE requests[i]]
        /\ pending' = pending \cup {q}
        /\ asked' = [asked EXCEPT ![n] = q]
        /\ UNCHANGED <<runs, lastRun, holder, turn, rooms, uncommitted, verdict, given, keyVars>>

AgentDies(n) ==
    /\ rooms[n].agent = "works"
    /\ rooms' = [rooms EXCEPT ![n].agent = "dead"]
    /\ UNCHANGED <<runs, lastRun, holder, turn, asked, uncommitted, approvalVars, keyVars>>

\* The response to the prompt, or the end of the stream, once the reader gets to it.
PromptEnds(n) ==
    /\ Prompting(n)
    /\ Reads(n)
    /\ turn' = [turn EXCEPT ![holder].at = "answered", ![holder].ok = rooms[n].agent = "works"]
    /\ holder' = NoTurn
    /\ UNCHANGED <<runs, lastRun, agentVars, approvalVars, keyVars>>

-----------------------------------------------------------------------------
(* Approvals.                                                              *)

\* A person decides about a request they were shown, once on each device.
Sign(d, q) ==
    /\ \A v \in BOOLEAN : <<d, q, v>> \notin given
    /\ \E v \in BOOLEAN : given' = given \cup {<<d, q, v>>}
    /\ UNCHANGED <<runs, lastRun, holder, turn, agentVars, requests, pending, verdict, keyVars>>

\* Mutant: the signature does not cover the answer.
VerifiedRequest(d, q, v, signature) == signature[1] = d /\ signature[2] = q

\* verify_approval: the key of the device, over the request, the answer and the node.
Verified(d, q, v, signature) == signature = <<d, q, v>>

\* Every frame with a signature that exists, or without one.
Accepts(q, v) ==
    \/ ~requireSigned
    \/ \E d \in pubkeys : \E signature \in given : Verified(d, q, v, signature)

Tell(q, v) ==
    /\ verdict' = [i \in DOMAIN verdict \cup {q} |-> IF i = q THEN v ELSE verdict[i]]
    /\ asked' = [asked EXCEPT ![requests[q]] = 0]

\* A response that passes completes the request, whether the reader still waits or not;
\* every other one leaves it pending.
Resolve(q, v) ==
    /\ q \in pending
    /\ Accepts(q, v)
    /\ pending' = pending \ {q}
    /\ IF asked[requests[q]] = q THEN Tell(q, v) ELSE UNCHANGED <<verdict, asked>>
    /\ UNCHANGED <<runs, lastRun, holder, turn, rooms, uncommitted, requests, given, keyVars>>

\* Mutant: the reader waits for as long as it takes.
WaitsForever(n) == FALSE

\* The reader waits for a request, and its 120 seconds can pass.
Waits(n) == asked[n] # 0

\* The agent is refused; the request stays with the gate.
GiveUp(n) ==
    /\ Waits(n)
    /\ Tell(asked[n], FALSE)
    /\ UNCHANGED <<runs, lastRun, holder, turn, rooms, uncommitted, requests, pending, given, keyVars>>

\* The list replaces the one before, and from now on answers have to be signed.
SetPubkeys ==
    /\ lists < MaxLists
    /\ lists' = lists + 1
    /\ pubkeys' \in KeyLists
    /\ requireSigned' = TRUE
    /\ UNCHANGED <<runs, lastRun, holder, turn, agentVars, approvalVars>>

-----------------------------------------------------------------------------
HostNext ==
    \/ \E t \in Turns : \/ \E n \in Nodes : UserMessage(t, n)
                        \/ Attach(t) \/ Prompt(t) \/ Commit(t)
    \/ \E n \in Nodes : \/ RunEnds(n)
                        \/ AgentEdits(n) \/ AgentAsks(n) \/ AgentDies(n) \/ PromptEnds(n) \/ GiveUp(n)
    \/ \E q \in DOMAIN requests : \/ \E d \in Devices : Sign(d, q)
                                  \/ \E v \in BOOLEAN : Resolve(q, v)
    \/ SetPubkeys

HostSpec == HostInit /\ [][HostNext]_hostVars

\* Tasks run, an agent answers its prompt in the end, and time passes.  People need not
\* answer anything.
HostFairness ==
    /\ \A t \in Turns : WF_hostVars(Attach(t)) /\ WF_hostVars(Prompt(t)) /\ WF_hostVars(Commit(t))
    /\ \A n \in Nodes : WF_hostVars(PromptEnds(n)) /\ WF_hostVars(GiveUp(n))

FairHostSpec == HostSpec /\ HostFairness

-----------------------------------------------------------------------------
(* Properties.                                                             *)

\* Every user message comes to its end, also while turns of other nodes hold the rooms, and
\* although an agent asks for permissions that nobody answers, or dies while it waits
\* (runner.rs run_turn, acp.rs read_loop, session.rs run_serve).
TurnsEnd == \A t \in Turns : turn[t].at # "idle" ~> turn[t].at = "ended"

\* At most one turn is with an agent, the one that holds the mutex, and an agent whose
\* reader waits for a verdict is in that turn: a verdict never reaches an agent between
\* its turns, and a request the gate has lost blocks nobody (runner.rs run_turn, acp.rs
\* read_loop).
HostInv ==
    /\ runs \in [Nodes -> 0 .. MaxRuns] /\ lastRun \in 0 .. MaxRuns
    /\ rooms \in [Nodes -> [agent : {"none", "works", "dead"}, run : 0 .. MaxRuns]]
    /\ holder \in Turns \cup {NoTurn}
    /\ \A t \in Turns : turn[t].at = "prompting" <=> holder = t
    /\ pending \subseteq DOMAIN requests
    /\ \A n \in Nodes : asked[n] # 0 => Prompting(n) /\ asked[n] \in pending

\* Once a list of keys has come, an agent is permitted only what the owner of a listed
\* device permitted when asked this very question, before or after the list changed
\* (approvals_gate.rs resolve).
VerdictsAreGiven ==
    [][requireSigned => \A q \in DOMAIN verdict' \ DOMAIN verdict :
          verdict'[q] => \E d \in pubkeys : <<d, q, TRUE>> \in given]_hostVars

\* What an agent wrote in the run its node has is in a commit as soon as no turn of the
\* node is under way, failed turns included (ws.rs handle_user_message).
TurnsCommitted ==
    \A n \in Nodes : (\A t \in Turns : turn[t].node = n => ~Going(t)) => runs[n] \notin uncommitted
=============================================================================
