-------------------------- MODULE HostTurns_proofs --------------------------
(***************************************************************************)
(* Turns, verdicts and commits of one host: for all nodes, devices, lists  *)
(* of keys and bounds, whatever agents and people do.                      *)
(***************************************************************************)
EXTENDS HostTurns, FiniteSetTheorems, TLAPS

\* Runs are at most as many as were attached; a turn past its attach has one, and so has
\* a room with an agent.
HostTypes ==
    /\ lastRun \in 0 .. MaxRuns
    /\ runs \in [Nodes -> 0 .. lastRun]
    /\ rooms \in [Nodes -> [agent : {"none", "works", "dead"}, run : 0 .. lastRun]]
    /\ turn \in [Turns -> [at : {"idle", "arrived", "queued", "prompting", "answered", "ended"},
                           node : Nodes \cup {0}, run : 0 .. lastRun, ok : BOOLEAN]]
    /\ \A t \in Turns : turn[t].at = "arrived" \/ turn[t].at = "queued" => turn[t].node \in Nodes
    /\ \A t \in Turns : turn[t].at = "queued" => turn[t].run # 0
    /\ \A n \in Nodes : rooms[n].agent # "none" => rooms[n].run # 0

\* The mutex over the rooms.
HolderPrompts ==
    /\ holder \in Turns \cup {NoTurn}
    /\ \A t \in Turns : turn[t].at = "prompting" <=> holder = t

\* Requests are numbered, and a reader waits for a request of its own node.
RequestsNumbered ==
    /\ \E k \in Nat : DOMAIN requests = 1 .. k
    /\ pending \subseteq DOMAIN requests
    /\ \A n \in Nodes : asked[n] # 0 => /\ Prompting(n)
                                        /\ asked[n] \in pending
                                        /\ requests[asked[n]] = n
    /\ asked \in [Nodes -> Nat]
    /\ \A q \in DOMAIN requests : requests[q] \in Nodes

HostIInv == HostTypes /\ HolderPrompts /\ RequestsNumbered

LEMMA HostIInvImplies ==
  HostIInv => HostInv
<1> SUFFICES ASSUME HostIInv PROVE HostInv
  OBVIOUS
<1> USE HostAssumption DEF HostIInv, HostTypes, HolderPrompts, RequestsNumbered
<1>1. 0 .. lastRun \subseteq 0 .. MaxRuns
  BY DEF HostAssumption
<1>2. runs \in [Nodes -> 0 .. MaxRuns] /\ lastRun \in 0 .. MaxRuns
  BY <1>1
<1>3. rooms \in [Nodes -> [agent : {"none", "works", "dead"}, run : 0 .. MaxRuns]]
  BY <1>1
<1> QED  BY <1>2, <1>3 DEF HostInv

LEMMA HostInitially ==
  HostInit => HostIInv
<1> USE HostAssumption DEF HostInit, HostIInv
<1>1. HostInit => HostTypes
  BY DEF HostTypes, NoRoom, NewTurn, HostAssumption
<1>2. HostInit => HolderPrompts
  BY DEF HolderPrompts, NewTurn, Turns, NoTurn
<1>3. HostInit => RequestsNumbered
  <2> SUFFICES ASSUME HostInit PROVE RequestsNumbered
    OBVIOUS
  <2>1. DOMAIN requests = 1 .. 0
    OBVIOUS
  <2> QED  BY <2>1 DEF RequestsNumbered
<1> QED  BY <1>1, <1>2, <1>3

-----------------------------------------------------------------------------
(* The steps of a turn.                                                    *)

LEMMA UserMessageStep ==
  ASSUME HostIInv, NEW t \in Turns, NEW n \in Nodes, UserMessage(t, n)
  PROVE  HostIInv'
<1> USE DEF UserMessage, HostIInv, agentVars, approvalVars, keyVars
<1>1. HostTypes'
  BY ZenonT(60) DEF HostTypes
<1>2. HolderPrompts'
  BY DEF HolderPrompts, HostTypes
<1>3. RequestsNumbered'
  BY DEF RequestsNumbered, Prompting, HolderPrompts, HostTypes
<1> QED  BY <1>1, <1>2, <1>3

LEMMA AttachStep ==
  ASSUME HostIInv, NEW t \in Turns, Attach(t)
  PROVE  HostIInv'
<1> USE HostAssumption DEF HostAssumption, HostIInv, agentVars, approvalVars, keyVars
<1>1. HolderPrompts'
  BY DEF Attach, HolderPrompts, HostTypes
<1>2. RequestsNumbered'
  BY ZenonT(60) DEF Attach, RequestsNumbered, Prompting, HolderPrompts, HostTypes
<1>3. HostTypes'
  <2> DEFINE n == turn[t].node
  <2>0. n \in Nodes /\ turn[t].at = "arrived"
    BY DEF Attach, HostTypes
  <2>1. CASE runs[n] # 0 /\ turn' = [turn EXCEPT ![t].at = "queued", ![t].run = runs[n]]
             /\ UNCHANGED <<runs, lastRun>>
    BY <2>0, <2>1 DEF Attach, HostTypes
  <2>2. CASE /\ lastRun < MaxRuns /\ lastRun' = lastRun + 1
             /\ runs' = [runs EXCEPT ![n] = lastRun']
             /\ turn' = [turn EXCEPT ![t].at = "queued", ![t].run = lastRun']
    <3>1. lastRun' \in 0 .. MaxRuns /\ 0 .. lastRun \subseteq 0 .. lastRun' /\ lastRun' # 0
      BY <2>2 DEF HostTypes
    <3>2. runs' \in [Nodes -> 0 .. lastRun']
      BY <3>1, <2>2, <2>0 DEF HostTypes
    <3>3. rooms' = rooms
      BY DEF Attach
    <3>4. rooms' \in [Nodes -> [agent : {"none", "works", "dead"}, run : 0 .. lastRun']]
      BY <3>1, <3>3 DEF HostTypes
    <3>5. turn' \in [Turns -> [at : {"idle", "arrived", "queued", "prompting", "answered", "ended"},
                           node : Nodes \cup {0}, run : 0 .. lastRun', ok : BOOLEAN]]
      BY <3>1, <2>2 DEF HostTypes
    <3>6. \A u \in Turns : turn'[u].at = "arrived" \/ turn'[u].at = "queued" => turn'[u].node \in Nodes
      BY <2>2, <2>0 DEF HostTypes
    <3>7. \A u \in Turns : turn'[u].at = "queued" => turn'[u].run # 0
      BY <2>2, <3>1 DEF HostTypes
    <3> QED  BY <3>1, <3>2, <3>3, <3>4, <3>5, <3>6, <3>7 DEF HostTypes
  <2>3. CASE turn' = [turn EXCEPT ![t].at = "ended"] /\ UNCHANGED <<runs, lastRun>>
    BY <2>0, <2>3 DEF Attach, HostTypes
  <2> QED  BY <2>1, <2>2, <2>3 DEF Attach
<1> QED  BY <1>1, <1>2, <1>3

LEMMA PromptStep ==
  ASSUME HostIInv, NEW t \in Turns, Prompt(t)
  PROVE  HostIInv'
<1> DEFINE n == turn[t].node
<1> USE DEF HostIInv, approvalVars, keyVars
<1>1. n \in Nodes /\ turn[t].run \in 0 .. lastRun /\ turn[t].run # 0 /\ t # NoTurn
  BY DEF Prompt, HostTypes, Turns, NoTurn
<1>2. UNCHANGED <<runs, lastRun, asked, requests, pending>> /\ holder = NoTurn
  BY DEF Prompt
<1>3. CASE /\ rooms' = [rooms EXCEPT ![n] = IF @ = NoRoom THEN [agent |-> "works", run |-> turn[t].run]
                                           ELSE @]
           /\ turn' = [turn EXCEPT ![t].at = "prompting"]
           /\ holder' = t
  <2>1. rooms' \in [Nodes -> [agent : {"none", "works", "dead"}, run : 0 .. lastRun]]
    <3>1. CASE rooms[n] = NoRoom
      BY <1>1, <1>3, <3>1 DEF HostTypes
    <3>2. CASE rooms[n] # NoRoom
      BY <1>1, <1>3, <3>2 DEF HostTypes
    <3> QED  BY <3>1, <3>2
  <2>2. \A m \in Nodes : rooms'[m].agent # "none" => rooms'[m].run # 0
    BY <1>1, <1>3 DEF HostTypes
  <2>3. /\ turn' \in [Turns -> [at : {"idle", "arrived", "queued", "prompting", "answered", "ended"},
                               node : Nodes \cup {0}, run : 0 .. lastRun, ok : BOOLEAN]]
        /\ \A u \in Turns : /\ turn'[u].node = turn[u].node
                             /\ turn'[u].run = turn[u].run
                             /\ turn'[u].at = IF u = t THEN "prompting" ELSE turn[u].at
    BY <1>3 DEF HostTypes
  <2>4. HostTypes'
    BY <1>2, <2>1, <2>2, <2>3 DEF HostTypes
  <2>5. HolderPrompts'
    BY <1>1, <1>2, <1>3, <2>3 DEF HolderPrompts, NoTurn, Turns
  <2>6. \A m \in Nodes : asked[m] = 0
    BY <1>2 DEF RequestsNumbered, Prompting
  <2>7. RequestsNumbered'
    BY <1>2, <2>6 DEF RequestsNumbered
  <2> QED  BY <2>4, <2>5, <2>7
<1>4. CASE /\ turn' = [turn EXCEPT ![t].at = "answered", ![t].ok = FALSE]
           /\ UNCHANGED <<rooms, holder>>
  <2>1. HostTypes'
    <3>1. /\ turn' \in [Turns -> [at : {"idle", "arrived", "queued", "prompting", "answered", "ended"},
                                 node : Nodes \cup {0}, run : 0 .. lastRun, ok : BOOLEAN]]
          /\ \A u \in Turns : /\ turn'[u].node = turn[u].node
                               /\ turn'[u].run = turn[u].run
                               /\ turn'[u].at = IF u = t THEN "answered" ELSE turn[u].at
      BY ZenonT(60), <1>4 DEF HostTypes
    <3> QED  BY <1>2, <1>4, <3>1 DEF HostTypes
  <2>2. HolderPrompts'
    BY <1>1, <1>2, <1>4 DEF HolderPrompts, HostTypes
  <2>3. RequestsNumbered'
    BY <1>2, <1>4 DEF RequestsNumbered, Prompting
  <2> QED  BY <2>1, <2>2, <2>3
<1> QED  BY <1>3, <1>4 DEF Prompt

LEMMA CommitStep ==
  ASSUME HostIInv, NEW t \in Turns, Commit(t)
  PROVE  HostIInv'
<1> USE DEF Commit, HostIInv, approvalVars, keyVars
<1>1. HostTypes'
  BY DEF HostTypes
<1>2. HolderPrompts'
  BY DEF HolderPrompts, HostTypes
<1>3. RequestsNumbered'
  BY DEF RequestsNumbered, Prompting, HolderPrompts, HostTypes
<1> QED  BY <1>1, <1>2, <1>3

LEMMA RunEndsStep ==
  ASSUME HostIInv, NEW n \in Nodes, RunEnds(n)
  PROVE  HostIInv'
<1> USE DEF RunEnds, HostIInv, agentVars, approvalVars, keyVars
<1>1. HostTypes'
  BY DEF HostTypes
<1>2. HolderPrompts'
  BY DEF HolderPrompts
<1>3. RequestsNumbered'
  BY DEF RequestsNumbered, Prompting
<1> QED  BY <1>1, <1>2, <1>3

-----------------------------------------------------------------------------
(* The steps of an agent and of its reader.                                *)

LEMMA AgentStep ==
  ASSUME HostIInv, NEW n \in Nodes, AgentEdits(n) \/ AgentDies(n)
  PROVE  HostIInv'
<1> USE DEF AgentEdits, AgentDies, HostIInv, approvalVars, keyVars
<1>1. HostTypes'
  BY DEF HostTypes
<1>2. HolderPrompts'
  BY DEF HolderPrompts
<1>3. RequestsNumbered'
  BY DEF RequestsNumbered, Prompting
<1> QED  BY <1>1, <1>2, <1>3

LEMMA AgentAsksStep ==
  ASSUME HostIInv, NEW n \in Nodes, AgentAsks(n)
  PROVE  HostIInv'
<1> USE DEF AgentAsks, HostIInv, keyVars
<1>1. HostTypes'
  BY DEF HostTypes
<1>2. HolderPrompts'
  BY DEF HolderPrompts
<1>3. RequestsNumbered'
  <2>1. PICK k \in Nat : DOMAIN requests = 1 .. k
    BY DEF RequestsNumbered
  <2>2. Cardinality(DOMAIN requests) = k
    <3>1. Cardinality(1 .. k) = IF 1 > k THEN 0 ELSE k - 1 + 1
      BY <2>1, FS_Interval
    <3> QED  BY <2>1, <3>1
  <2> DEFINE q == k + 1
  <2>3. /\ requests' = [i \in 1 .. q |-> IF i = q THEN n ELSE requests[i]]
        /\ pending' = pending \cup {q}
        /\ asked' = [asked EXCEPT ![n] = q]
    BY <2>2
  <2>4. DOMAIN requests' = 1 .. q /\ q \in Nat /\ q # 0 /\ 1 .. k \subseteq 1 .. q /\ q \notin 1 .. k
    BY <2>3
  <2>5. requests'[q] = n /\ \A i \in 1 .. k : requests'[i] = requests[i]
    <3>1. q \in 1 .. q
      BY <2>4
    <3>2. requests'[q] = n
      BY <2>3, <3>1
    <3>3. ASSUME NEW i \in 1 .. k PROVE requests'[i] = requests[i]
      <4>1. i \in 1 .. q /\ i # q
        BY <2>4
      <4> HIDE DEF q
      <4> QED  BY <2>3, <4>1
    <3> QED  BY <3>2, <3>3
  <2>6. \A i \in DOMAIN requests' : requests'[i] \in Nodes
    BY <2>1, <2>3 DEF RequestsNumbered
  <2>7. ASSUME NEW m \in Nodes, asked'[m] # 0
        PROVE  Prompting(m)' /\ asked'[m] \in pending' /\ requests'[asked'[m]] = m
    <3>1. CASE m = n
      BY <3>1, <2>3, <2>5 DEF RequestsNumbered, Prompting
    <3>2. CASE m # n
      BY <3>2, <2>1, <2>3, <2>5, <2>7 DEF RequestsNumbered, Prompting
    <3> QED  BY <3>1, <3>2
  <2>8. asked' \in [Nodes -> Nat] /\ pending' \subseteq DOMAIN requests'
    BY <2>1, <2>3, <2>4 DEF RequestsNumbered
  <2> HIDE DEF q
  <2> QED  BY <2>4, <2>6, <2>7, <2>8 DEF RequestsNumbered
<1> QED  BY <1>1, <1>2, <1>3

LEMMA PromptEndsStep ==
  ASSUME HostIInv, NEW n \in Nodes, PromptEnds(n)
  PROVE  HostIInv'
<1> USE DEF PromptEnds, HostIInv, agentVars, approvalVars, keyVars
<1>1. HostTypes'
  BY DEF HostTypes, Prompting, HolderPrompts
<1>2. HolderPrompts'
  BY DEF HolderPrompts, HostTypes, Prompting, Turns, NoTurn
<1>3. RequestsNumbered'
  BY DEF RequestsNumbered, Prompting, Reads
<1> QED  BY <1>1, <1>2, <1>3

-----------------------------------------------------------------------------
(* The steps of an approval.                                               *)

LEMMA SignStep ==
  ASSUME HostIInv, NEW q \in DOMAIN requests, NEW d \in Devices, Sign(d, q)
  PROVE  HostIInv'
<1> USE DEF Sign, HostIInv, agentVars, keyVars
<1>1. HostTypes'
  BY DEF HostTypes
<1>2. HolderPrompts'
  BY DEF HolderPrompts
<1>3. RequestsNumbered'
  BY DEF RequestsNumbered, Prompting
<1> QED  BY <1>1, <1>2, <1>3

LEMMA ResolveStep ==
  ASSUME HostIInv, NEW q \in DOMAIN requests, NEW v \in BOOLEAN, Resolve(q, v)
  PROVE  HostIInv'
<1> USE DEF Resolve, HostIInv, keyVars
<1>1. HostTypes'
  BY DEF HostTypes
<1>2. HolderPrompts'
  BY DEF HolderPrompts
<1>3. RequestsNumbered'
  <2>1. CASE asked[requests[q]] = q
    BY <2>1 DEF RequestsNumbered, Prompting, Tell
  <2>2. CASE asked[requests[q]] # q
    BY <2>2 DEF RequestsNumbered, Prompting
  <2> QED  BY <2>1, <2>2
<1> QED  BY <1>1, <1>2, <1>3

LEMMA GiveUpStep ==
  ASSUME HostIInv, NEW n \in Nodes, GiveUp(n)
  PROVE  HostIInv'
<1> USE DEF GiveUp, HostIInv, keyVars
<1>1. HostTypes'
  BY DEF HostTypes
<1>2. HolderPrompts'
  BY DEF HolderPrompts
<1>3. RequestsNumbered'
  BY DEF RequestsNumbered, Prompting, Tell, Waits
<1> QED  BY <1>1, <1>2, <1>3

LEMMA HostStutter ==
  HostIInv /\ (SetPubkeys \/ UNCHANGED hostVars) => HostIInv'
BY DEF SetPubkeys, hostVars, agentVars, approvalVars, keyVars, HostIInv, HostTypes,
       HolderPrompts, RequestsNumbered, Prompting

LEMMA HostStep ==
  HostIInv /\ [HostNext]_hostVars => HostIInv'
<1> SUFFICES ASSUME HostIInv, [HostNext]_hostVars PROVE HostIInv'
  OBVIOUS
<1>1. ASSUME NEW t \in Turns, NEW n \in Nodes, UserMessage(t, n) PROVE HostIInv'
  BY <1>1, UserMessageStep
<1>2. ASSUME NEW t \in Turns, Attach(t) \/ Prompt(t) \/ Commit(t) PROVE HostIInv'
  BY <1>2, AttachStep, PromptStep, CommitStep
<1>3. ASSUME NEW n \in Nodes,
             RunEnds(n) \/ AgentEdits(n) \/ AgentAsks(n) \/ AgentDies(n) \/ PromptEnds(n) \/ GiveUp(n)
      PROVE  HostIInv'
  BY <1>3, RunEndsStep, AgentStep, AgentAsksStep, PromptEndsStep, GiveUpStep
<1>4. ASSUME NEW q \in DOMAIN requests, NEW d \in Devices, Sign(d, q) PROVE HostIInv'
  BY <1>4, SignStep
<1>5. ASSUME NEW q \in DOMAIN requests, NEW v \in BOOLEAN, Resolve(q, v) PROVE HostIInv'
  BY <1>5, ResolveStep
<1> QED  BY <1>1, <1>2, <1>3, <1>4, <1>5, HostStutter DEF HostNext

\* One turn at a time is with an agent, and an agent that waits for a verdict is in that
\* turn, with a request the gate knows (runner.rs run_turn, acp.rs read_loop).
THEOREM HostInvariant ==
  HostSpec => []HostInv
<1>1. HostSpec => []HostIInv
  BY HostInitially, HostStep, PTL DEF HostSpec
<1> QED  BY <1>1, HostIInvImplies, PTL

-----------------------------------------------------------------------------
(* Verdicts.                                                               *)

\* Once keys are known an agent is permitted only what the owner of a listed device signed
\* for this request, whatever else is signed, replayed or received (approvals_gate.rs
\* resolve).
THEOREM VerdictsWereGiven ==
  HostSpec => VerdictsAreGiven
<1> DEFINE Permitted == requireSigned => \A q \in DOMAIN verdict' \ DOMAIN verdict :
                          verdict'[q] => \E d \in pubkeys : <<d, q, TRUE>> \in given
<1>1. ASSUME NEW q \in DOMAIN requests, NEW v \in BOOLEAN, Resolve(q, v) PROVE Permitted
  <2> SUFFICES ASSUME requireSigned,
                      NEW p \in DOMAIN verdict' \ DOMAIN verdict, verdict'[p]
               PROVE  \E d \in pubkeys : <<d, p, TRUE>> \in given
    OBVIOUS
  <2>1. p = q /\ verdict' = [i \in DOMAIN verdict \cup {q} |-> IF i = q THEN v ELSE verdict[i]]
    BY <1>1 DEF Resolve, Tell
  <2>2. \E d \in pubkeys : \E signature \in given : signature = <<d, q, v>>
    BY <1>1 DEF Resolve, Accepts, Verified
  <2>3. v = TRUE
    BY <2>1
  <2> QED  BY <2>1, <2>2, <2>3
<1>2. ASSUME NEW n \in Nodes, GiveUp(n) PROVE Permitted
  BY <1>2 DEF GiveUp, Tell
<1>3. ASSUME [HostNext]_hostVars, verdict' # verdict
      PROVE  \/ \E q \in DOMAIN requests, v \in BOOLEAN : Resolve(q, v)
             \/ \E n \in Nodes : GiveUp(n)
  BY <1>3 DEF HostNext, hostVars, agentVars, approvalVars, keyVars, UserMessage, Attach, Prompt,
              Commit, RunEnds, AgentEdits, AgentAsks, AgentDies, PromptEnds, Sign, SetPubkeys
<1>4. [HostNext]_hostVars => [Permitted]_hostVars
  BY <1>1, <1>2, <1>3
<1> QED  BY <1>4, PTL DEF HostSpec, VerdictsAreGiven

-----------------------------------------------------------------------------
(* Commits.                                                                *)

\* A run belongs to one node: no other node has it, works in it, or waits for it.
RunsApart ==
    /\ \A m, n \in Nodes :
         m # n /\ runs[n] # 0 => /\ runs[m] # runs[n]
                                 /\ rooms[m].run # runs[n]
                                 /\ \A t \in Turns : turn[t].node = m => turn[t].run # runs[n]
    /\ \A t \in Turns : turn[t].at \in {"idle", "arrived"} => turn[t].run = 0

\* A turn that edited the run of its node, or can still edit it, has its commit before it.
CommitAhead ==
    /\ uncommitted \subseteq 1 .. lastRun
    /\ \A n \in Nodes : runs[n] \in uncommitted =>
         \E t \in Turns : turn[t].node = n /\ turn[t].at \in {"prompting", "answered"}

CommitIInv == HostIInv /\ RunsApart /\ CommitAhead

LEMMA CommitInitially ==
  HostInit => CommitIInv
<1>1. HostInit => HostIInv
  BY HostInitially
<1> QED  BY <1>1 DEF CommitIInv, HostInit, RunsApart, CommitAhead, NewTurn

\* Runs only go away, and a turn that is past its attach keeps its node and stays before
\* its commit: what no step of an agent, no attach and no commit violates.
QuietTurns ==
    /\ UNCHANGED <<lastRun, uncommitted>>
    /\ \A n \in Nodes : /\ runs'[n] = runs[n] \/ runs'[n] = 0
                        /\ rooms'[n].run = rooms[n].run
    /\ \A t \in Turns : /\ turn'[t].run = turn[t].run
                        /\ turn'[t].node = turn[t].node \/ turn[t].run = 0
                        /\ turn'[t].at \in {"idle", "arrived"} => turn[t].at \in {"idle", "arrived"}
                        /\ turn[t].at \in {"prompting", "answered"} =>
                             /\ turn'[t].node = turn[t].node
                             /\ turn'[t].at \in {"prompting", "answered"}

LEMMA QuietStep ==
  ASSUME CommitIInv, HostIInv', QuietTurns
  PROVE  CommitIInv'
<1> USE DEF QuietTurns, CommitIInv
<1>1. RunsApart'
  BY DEF RunsApart
<1>2. CommitAhead'
  <2> SUFFICES ASSUME NEW n \in Nodes, runs'[n] \in uncommitted
               PROVE  \E t \in Turns : turn'[t].node = n /\ turn'[t].at \in {"prompting", "answered"}
    BY DEF CommitAhead
  <2>1. runs'[n] # 0
    BY DEF CommitAhead
  <2>2. PICK t \in Turns : turn[t].node = n /\ turn[t].at \in {"prompting", "answered"}
    BY <2>1 DEF CommitAhead
  <2> QED  BY <2>2
<1> QED  BY <1>1, <1>2

LEMMA OthersQuiet ==
  ASSUME CommitIInv,
         \/ \E t \in Turns, n \in Nodes : UserMessage(t, n)
         \/ \E n \in Nodes : RunEnds(n) \/ AgentAsks(n) \/ AgentDies(n) \/ PromptEnds(n) \/ GiveUp(n)
         \/ \E q \in DOMAIN requests : \/ \E d \in Devices : Sign(d, q)
                                       \/ \E v \in BOOLEAN : Resolve(q, v)
         \/ SetPubkeys
         \/ UNCHANGED hostVars
  PROVE  QuietTurns
<1> USE DEF agentVars, approvalVars, keyVars, CommitIInv, HostIInv, HostTypes
<1>1. ASSUME NEW t \in Turns, NEW n \in Nodes, UserMessage(t, n) PROVE QuietTurns
  BY <1>1 DEF UserMessage, QuietTurns, RunsApart
<1>2. ASSUME NEW n \in Nodes, RunEnds(n) PROVE QuietTurns
  BY <1>2 DEF RunEnds, QuietTurns
<1>3. ASSUME NEW n \in Nodes, AgentDies(n) PROVE QuietTurns
  BY <1>3 DEF AgentDies, QuietTurns
<1>4. ASSUME NEW n \in Nodes, PromptEnds(n) PROVE QuietTurns
  <2>1. holder \in Turns /\ turn[holder].at = "prompting"
    BY <1>4 DEF PromptEnds, Prompting, HolderPrompts
  <2> QED  BY <1>4, <2>1 DEF PromptEnds, QuietTurns
<1>5. ASSUME UNCHANGED <<runs, lastRun, rooms, turn, uncommitted>> PROVE QuietTurns
  BY <1>5 DEF QuietTurns
<1>6. ASSUME NEW n \in Nodes, AgentAsks(n) \/ GiveUp(n) PROVE QuietTurns
  BY <1>5, <1>6 DEF AgentAsks, GiveUp
<1>7. ASSUME NEW q \in DOMAIN requests, (\E d \in Devices : Sign(d, q)) \/ \E v \in BOOLEAN : Resolve(q, v)
      PROVE  QuietTurns
  BY <1>5, <1>7 DEF Sign, Resolve
<1>8. CASE SetPubkeys \/ UNCHANGED hostVars
  BY <1>5, <1>8 DEF SetPubkeys, hostVars
<1> QED  BY <1>1, <1>2, <1>3, <1>4, <1>6, <1>7, <1>8

LEMMA AttachCommit ==
  ASSUME CommitIInv, HostIInv', NEW t \in Turns, Attach(t)
  PROVE  CommitIInv'
<1> DEFINE n == turn[t].node
<1> USE DEF CommitIInv
<1>1. UNCHANGED <<rooms, uncommitted>> /\ turn[t].at = "arrived" /\ n \in Nodes
  BY DEF Attach, agentVars, HostIInv, HostTypes
<1>2. CASE runs[n] # 0 /\ turn' = [turn EXCEPT ![t].at = "queued", ![t].run = runs[n]]
           /\ UNCHANGED <<runs, lastRun>>
  <2>0. UNCHANGED <<runs, lastRun>> /\ runs[n] # 0
    BY <1>2
  <2>1. \A u \in Turns : /\ turn'[u].node = turn[u].node
                         /\ turn'[u].run = IF u = t THEN runs[n] ELSE turn[u].run
                         /\ turn'[u].at = IF u = t THEN "queued" ELSE turn[u].at
    BY <1>2 DEF HostIInv, HostTypes
  <2>2. RunsApart'
    <3>1. ASSUME NEW m \in Nodes, NEW k \in Nodes, m # k, runs'[k] # 0
          PROVE  /\ runs'[m] # runs'[k]
                 /\ rooms'[m].run # runs'[k]
                 /\ \A u \in Turns : turn'[u].node = m => turn'[u].run # runs'[k]
      BY <1>1, <2>0, <2>1, <3>1 DEF RunsApart
    <3>2. \A u \in Turns : turn'[u].at \in {"idle", "arrived"} => turn'[u].run = 0
      BY <2>1 DEF RunsApart
    <3> QED  BY <3>1, <3>2 DEF RunsApart
  <2>3. CommitAhead'
    <3> SUFFICES ASSUME NEW m \in Nodes, runs[m] \in uncommitted
                 PROVE  \E u \in Turns : turn'[u].node = m /\ turn'[u].at \in {"prompting", "answered"}
      BY <1>1, <1>2 DEF CommitAhead
    <3>1. PICK u \in Turns : turn[u].node = m /\ turn[u].at \in {"prompting", "answered"}
      BY DEF CommitAhead
    <3> QED  BY <1>1, <2>1, <3>1
  <2> QED  BY <2>2, <2>3
<1>3. CASE /\ lastRun' = lastRun + 1
           /\ runs' = [runs EXCEPT ![n] = lastRun']
           /\ turn' = [turn EXCEPT ![t].at = "queued", ![t].run = lastRun']
  <2>0. lastRun' = lastRun + 1
    BY <1>3
  <2>1. \A u \in Turns : /\ turn'[u].node = turn[u].node
                         /\ turn'[u].run = IF u = t THEN lastRun' ELSE turn[u].run
                         /\ turn'[u].at = IF u = t THEN "queued" ELSE turn[u].at
    BY <1>3 DEF HostIInv, HostTypes
  <2>2. \A m \in Nodes : runs'[m] = IF m = n THEN lastRun' ELSE runs[m]
    BY <1>3 DEF HostIInv, HostTypes
  <2>3. /\ lastRun \in Nat
        /\ \A m \in Nodes : runs[m] \in 0 .. lastRun /\ rooms[m].run \in 0 .. lastRun
        /\ \A u \in Turns : turn[u].run \in 0 .. lastRun
    BY DEF HostIInv, HostTypes
  <2>4. RunsApart'
    <3>1. ASSUME NEW m \in Nodes, NEW k \in Nodes, m # k, runs'[k] # 0
          PROVE  /\ runs'[m] # runs'[k]
                 /\ rooms'[m].run # runs'[k]
                 /\ \A u \in Turns : turn'[u].node = m => turn'[u].run # runs'[k]
      BY <1>1, <2>0, <2>1, <2>2, <2>3, <3>1 DEF RunsApart
    <3>2. \A u \in Turns : turn'[u].at \in {"idle", "arrived"} => turn'[u].run = 0
      BY <2>1 DEF RunsApart
    <3> QED  BY <3>1, <3>2 DEF RunsApart
  <2>5. CommitAhead'
    <3>1. uncommitted' \subseteq 1 .. lastRun' /\ lastRun' \notin uncommitted'
      BY <1>1, <1>3, <2>3 DEF CommitAhead
    <3> SUFFICES ASSUME NEW m \in Nodes, runs'[m] \in uncommitted'
                 PROVE  \E u \in Turns : turn'[u].node = m /\ turn'[u].at \in {"prompting", "answered"}
      BY <3>1 DEF CommitAhead
    <3>2. runs[m] \in uncommitted
      BY <1>1, <2>2, <3>1
    <3> QED  BY <1>1, <2>1, <3>2 DEF CommitAhead
  <2> QED  BY <2>4, <2>5
<1>4. CASE turn' = [turn EXCEPT ![t].at = "ended"] /\ UNCHANGED <<runs, lastRun>>
  <2>1. \A u \in Turns : /\ turn'[u].node = turn[u].node
                         /\ turn'[u].run = turn[u].run
                         /\ turn'[u].at = IF u = t THEN "ended" ELSE turn[u].at
    BY <1>4 DEF HostIInv, HostTypes
  <2>2. RunsApart'
    BY <1>1, <1>4, <2>1 DEF RunsApart
  <2>3. CommitAhead'
    BY <1>1, <1>4, <2>1 DEF CommitAhead
  <2> QED  BY <2>2, <2>3
<1> QED  BY <1>2, <1>3, <1>4 DEF Attach

LEMMA PromptCommit ==
  ASSUME CommitIInv, HostIInv', NEW t \in Turns, Prompt(t)
  PROVE  CommitIInv'
<1> DEFINE n == turn[t].node
<1> USE DEF CommitIInv
<1>1. UNCHANGED <<runs, lastRun, uncommitted>> /\ turn[t].at = "queued" /\ n \in Nodes
  BY DEF Prompt, HostIInv, HostTypes
<1>2. \A u \in Turns : /\ turn'[u].node = turn[u].node
                       /\ turn'[u].run = turn[u].run
                       /\ turn'[u].at = turn[u].at \/ turn'[u].at \in {"prompting", "answered"}
                       /\ u # t => turn'[u].at = turn[u].at
  BY DEF Prompt, HostIInv, HostTypes
<1>3. \A m \in Nodes : rooms'[m].run = rooms[m].run \/ (m = n /\ rooms'[m].run = turn[t].run)
  <2>1. CASE rooms' = rooms
    BY <2>1
  <2>2. CASE rooms' = [rooms EXCEPT ![n] = IF @ = NoRoom THEN [agent |-> "works", run |-> turn[t].run]
                                           ELSE @]
    <3>1. CASE rooms[n] = NoRoom
      BY <1>1, <2>2, <3>1 DEF HostIInv, HostTypes
    <3>2. CASE rooms[n] # NoRoom
      BY <1>1, <2>2, <3>2 DEF HostIInv, HostTypes
    <3> QED  BY <3>1, <3>2
  <2> QED  BY <2>1, <2>2 DEF Prompt
<1>4. RunsApart'
  BY <1>1, <1>2, <1>3 DEF RunsApart
<1>5. CommitAhead'
  BY <1>1, <1>2 DEF CommitAhead
<1> QED  BY <1>4, <1>5

LEMMA CommitCommit ==
  ASSUME CommitIInv, HostIInv', NEW t \in Turns, Commit(t)
  PROVE  CommitIInv'
<1> DEFINE n == turn[t].node
<1> USE DEF CommitIInv
<1>1. /\ UNCHANGED <<runs, lastRun, rooms>> /\ turn[t].at = "answered"
      /\ uncommitted' = uncommitted \ {runs[n]}
  BY DEF Commit, Committed
<1>2. \A u \in Turns : /\ turn'[u].node = turn[u].node
                       /\ turn'[u].run = turn[u].run
                       /\ turn'[u].at = IF u = t THEN "ended" ELSE turn[u].at
  BY DEF Commit, HostIInv, HostTypes
<1>3. RunsApart'
  BY <1>1, <1>2 DEF RunsApart
<1>4. CommitAhead'
  <2> SUFFICES ASSUME NEW m \in Nodes, runs[m] \in uncommitted'
               PROVE  \E u \in Turns : turn'[u].node = m /\ turn'[u].at \in {"prompting", "answered"}
    BY <1>1 DEF CommitAhead
  <2>1. m # n
    BY <1>1
  <2>2. PICK u \in Turns : turn[u].node = m /\ turn[u].at \in {"prompting", "answered"}
    BY <1>1 DEF CommitAhead
  <2> QED  BY <1>2, <2>1, <2>2
<1> QED  BY <1>3, <1>4

LEMMA EditCommit ==
  ASSUME CommitIInv, HostIInv', NEW n \in Nodes, AgentEdits(n)
  PROVE  CommitIInv'
<1> USE DEF CommitIInv
<1>1. /\ UNCHANGED <<runs, lastRun, rooms, turn>>
      /\ uncommitted' = uncommitted \cup {rooms[n].run}
      /\ rooms[n].run \in 1 .. lastRun
  BY DEF AgentEdits, HostIInv, HostTypes
<1>2. holder \in Turns /\ turn[holder].node = n /\ turn[holder].at = "prompting"
  BY DEF AgentEdits, Prompting, HostIInv, HolderPrompts
<1>3. RunsApart'
  BY <1>1 DEF RunsApart
<1>4. CommitAhead'
  <2>1. uncommitted' \subseteq 1 .. lastRun
    BY <1>1 DEF CommitAhead
  <2> SUFFICES ASSUME NEW m \in Nodes, runs[m] \in uncommitted'
               PROVE  \E u \in Turns : turn[u].node = m /\ turn[u].at \in {"prompting", "answered"}
    BY <1>1, <2>1 DEF CommitAhead
  <2>2. CASE m = n
    BY <1>2, <2>2
  <2>3. CASE m # n
    <3>1. runs[m] # 0
      BY <2>1
    <3>2. rooms[n].run # runs[m]
      BY <2>3, <3>1 DEF RunsApart
    <3> QED  BY <1>1, <3>2 DEF CommitAhead
  <2> QED  BY <2>2, <2>3
<1> QED  BY <1>3, <1>4

LEMMA CommitNextStep ==
  CommitIInv /\ [HostNext]_hostVars => CommitIInv'
<1> SUFFICES ASSUME CommitIInv, [HostNext]_hostVars PROVE CommitIInv'
  OBVIOUS
<1>1. HostIInv'
  BY HostStep DEF CommitIInv
<1>2. CASE \E t \in Turns : Attach(t) \/ Prompt(t) \/ Commit(t)
  BY <1>1, <1>2, AttachCommit, PromptCommit, CommitCommit
<1>3. CASE \E n \in Nodes : AgentEdits(n)
  BY <1>1, <1>3, EditCommit
<1>4. CASE \/ \E t \in Turns, n \in Nodes : UserMessage(t, n)
           \/ \E n \in Nodes : RunEnds(n) \/ AgentAsks(n) \/ AgentDies(n) \/ PromptEnds(n) \/ GiveUp(n)
           \/ \E q \in DOMAIN requests : \/ \E d \in Devices : Sign(d, q)
                                         \/ \E v \in BOOLEAN : Resolve(q, v)
           \/ SetPubkeys
           \/ UNCHANGED hostVars
  <2>1. QuietTurns
    BY <1>4, OthersQuiet
  <2> QED  BY <1>1, <2>1, QuietStep
<1> QED  BY <1>2, <1>3, <1>4 DEF HostNext

\* What was written in the run a node has is in a commit whenever no turn of the node is
\* under way, although the room may work in an older run and turns of one node overtake
\* each other (ws.rs handle_user_message).
THEOREM EveryTurnCommitted ==
  HostSpec => []TurnsCommitted
<1>1. CommitIInv => TurnsCommitted
  <2> SUFFICES ASSUME CommitIInv, NEW n \in Nodes, runs[n] \in uncommitted
               PROVE  \E t \in Turns : turn[t].node = n /\ Going(t)
    BY DEF TurnsCommitted
  <2>1. PICK t \in Turns : turn[t].node = n /\ turn[t].at \in {"prompting", "answered"}
    BY DEF CommitIInv, CommitAhead
  <2> QED  BY <2>1 DEF Going
<1> QED  BY <1>1, CommitInitially, CommitNextStep, PTL DEF HostSpec
=============================================================================
