----------------------------- MODULE Decisions -----------------------------
(***************************************************************************)
(* Forks that an agent hands to the owner of a mandate: mt escalate writes *)
(* a request and a marker, mt decide an answer and a closing marker        *)
(* (mt-core/decision.rs, mt/commands/decision.rs).  The markers lie in the *)
(* node's directory and the artifacts below it in decisions/, all in one   *)
(* checkout: the commands pass the node's directory as the run worktree.   *)
(*                                                                         *)
(* Nothing locks the directory, each file is a write of its own, and a     *)
(* command can die between two.  Whom a request is addressed to is         *)
(* Mandates!EffectiveOwner; the content of a request is the escalation     *)
(* that wrote it.                                                          *)
(***************************************************************************)
EXTENDS Integers, FiniteSets, Sequences

CONSTANTS
    Agents,         \* commands that escalate, one at a time each
    Deciders,       \* commands that decide
    Options,
    MaxForks,       \* bound: escalations
    MaxDeaths       \* bound: commands that die

ASSUME DecisionsAssumption ==
    /\ Agents \cap Deciders = {}
    /\ {MaxForks, MaxDeaths} \subseteq Nat

VARIABLES
    requests,       \* NNNN-decision-request.md: number -> the escalation it holds
    answers,        \* NNNN-decision-answer.md: number -> option
    awaiting,       \* awaiting-decision_NNNN.md: number -> the escalation that put it
    decided,        \* decided_NNNN.md: number -> option
    command,        \* what each command is doing
    forks, deaths

decisionFiles == <<requests, answers, awaiting, decided>>
decisionsVars == <<decisionFiles, command, forks, deaths>>

Highest(S) == CHOOSE n \in S : \A k \in S : k <= n

\* A file with this content, written over an older one.
With(files, n, content) ==
    [k \in DOMAIN files \cup {n} |-> IF k = n THEN content ELSE files[k]]

Open == DOMAIN awaiting \ DOMAIN decided

\* Mutant: only forks that are still open keep their numbers.
NextAfterOpen == IF Open = {} THEN 1 ELSE Highest(Open) + 1

\* One more than the highest number in decisions/, of requests and answers.
NextDecision ==
    LET taken == DOMAIN requests \cup DOMAIN answers
    IN  IF taken = {} THEN 1 ELSE Highest(taken) + 1

NoCommand == [todo |-> <<>>, number |-> 0, content |-> 0]

Busy(c) == command[c].todo # <<>>

\* Mutant: the fork is closed first.
ClosingFirst == <<"decided", "answer">>

\* The files of a command, in the order they are written.
Request == <<"request", "awaiting">>
Answer  == <<"answer", "decided">>

DecisionsInit ==
    /\ requests = <<>> /\ answers = <<>> /\ awaiting = <<>> /\ decided = <<>>
    /\ command = [c \in Agents \cup Deciders |-> NoCommand]
    /\ forks = 0
    /\ deaths = 0

Escalate(c) ==
    /\ ~Busy(c)
    /\ forks < MaxForks
    /\ forks' = forks + 1
    /\ command' = [command EXCEPT ![c] =
                     [todo |-> Request, number |-> NextDecision, content |-> forks']]
    /\ UNCHANGED <<decisionFiles, deaths>>

\* The highest open fork, which answer_decision finds awaiting and not decided.
Decide(c) ==
    /\ ~Busy(c)
    /\ Open # {}
    /\ \E option \in Options :
         command' = [command EXCEPT ![c] =
                       [todo |-> Answer, number |-> Highest(Open), content |-> option]]
    /\ UNCHANGED <<decisionFiles, forks, deaths>>

WriteFile(c) ==
    LET now == command[c]
        written(name, files) == IF Head(now.todo) = name THEN With(files, now.number, now.content)
                                ELSE files
    IN  /\ Busy(c)
        /\ requests' = written("request", requests)
        /\ awaiting' = written("awaiting", awaiting)
        /\ answers' = written("answer", answers)
        /\ decided' = written("decided", decided)
        /\ command' = [command EXCEPT ![c] =
                         IF Len(now.todo) = 1 THEN NoCommand ELSE [now EXCEPT !.todo = Tail(@)]]
        /\ UNCHANGED <<forks, deaths>>

CommandDies(c) ==
    /\ Busy(c)
    /\ deaths < MaxDeaths
    /\ deaths' = deaths + 1
    /\ command' = [command EXCEPT ![c] = NoCommand]
    /\ UNCHANGED <<decisionFiles, forks>>

DecisionsNext ==
    \/ \E c \in Agents : Escalate(c)
    \/ \E c \in Deciders : Decide(c)
    \/ \E c \in Agents \cup Deciders : WriteFile(c) \/ CommandDies(c)

DecisionsSpec == DecisionsInit /\ [][DecisionsNext]_decisionsVars

-----------------------------------------------------------------------------
(* Properties, for one agent and one decider at a time.                    *)

\* What a closed fork says is what its owner answered, and stays so: the option in the
\* closing marker is that of the answer's artifact, whichever command died in between and
\* was repeated with another option (decision.rs answer_decision).
DecisionStands ==
    [][\A n \in DOMAIN decided' :
          /\ n \in DOMAIN answers' /\ answers'[n] = decided'[n]
          /\ n \in DOMAIN decided => decided'[n] = decided[n]]_decisionsVars

\* A fork that waits or was decided keeps its request: the marker leads to what its own
\* escalation wrote, also after an escalation that died and left a request without a
\* marker (decision.rs next_decision_nnnn).
RequestStands ==
    \A n \in DOMAIN awaiting : n \in DOMAIN requests /\ requests[n] = awaiting[n]
=============================================================================
