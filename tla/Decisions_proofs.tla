-------------------------- MODULE Decisions_proofs --------------------------
(***************************************************************************)
(* Requests and answers that stand: for one agent and one decider at a     *)
(* time, any number of forks, options and commands that die.               *)
(***************************************************************************)
EXTENDS Decisions, NumberLemmas, TLAPS

\* One command escalates at a time, and one decides.
OneAgent   == \A c, d \in Agents : c = d
OneDecider == \A c, d \in Deciders : c = d

-----------------------------------------------------------------------------
(* Numbers.                                                                *)

\* A nonempty set of numbers up to a bound has a highest.
LEMMA HighestIsThere ==
  ASSUME NEW m \in Nat, NEW S, S \subseteq 0 .. m, S # {}
  PROVE  Highest(S) \in S /\ \A k \in S : k <= Highest(S)
BY GreatestNumber DEF Highest

-----------------------------------------------------------------------------
(* Requests.                                                               *)

\* What the agent still has to write.
EscalationUnderWay ==
    \A c \in Agents : LET now == command[c] IN
        /\ now.todo \in {<<>>, Request, <<"awaiting">>}
        /\ now.number \in 0 .. forks
        /\ now.todo = Request => now.number \notin DOMAIN requests
        /\ now.todo = <<"awaiting">> => /\ now.number \in DOMAIN requests
                                        /\ requests[now.number] = now.content

\* What the decider still has to write.
AnswerUnderWay ==
    \A c \in Deciders : LET now == command[c] IN
        /\ now.todo \in {<<>>, Answer, <<"decided">>}
        /\ now.number \in 0 .. forks
        /\ now.todo = Answer => now.number \notin DOMAIN decided
        /\ now.todo = <<"decided">> => /\ now.number \in DOMAIN answers
                                       /\ answers[now.number] = now.content
                                       /\ now.number \notin DOMAIN decided

DecisionsIInv ==
    /\ forks \in Nat
    /\ command \in [Agents \cup Deciders ->
                     [todo : {<<>>, Request, <<"awaiting">>, Answer, <<"decided">>},
                      number : 0 .. forks, content : Nat \cup Options]]
    /\ DOMAIN requests \subseteq 0 .. forks
    /\ DOMAIN answers \subseteq 0 .. forks
    /\ DOMAIN decided \subseteq DOMAIN answers
    /\ \A n \in DOMAIN decided : answers[n] = decided[n]
    /\ DOMAIN awaiting \subseteq DOMAIN requests
    /\ RequestStands
    /\ EscalationUnderWay
    /\ AnswerUnderWay

LEMMA DecisionsInitially ==
  DecisionsInit => DecisionsIInv
<1> SUFFICES ASSUME DecisionsInit PROVE DecisionsIInv
  OBVIOUS
<1>1. forks = 0 /\ 0 .. forks = {0}
  BY DEF DecisionsInit
<1>2. /\ DOMAIN requests = {} /\ DOMAIN answers = {}
      /\ DOMAIN awaiting = {} /\ DOMAIN decided = {}
  BY DEF DecisionsInit
<1>3. \A c \in Agents \cup Deciders :
        command[c] = NoCommand /\ command = [d \in Agents \cup Deciders |-> NoCommand]
  BY DEF DecisionsInit
<1>4. /\ NoCommand.todo = <<>> /\ NoCommand.number = 0 /\ <<>> # Request /\ <<>> # Answer
      /\ <<>> # <<"awaiting">> /\ <<>> # <<"decided">>
  BY DEF NoCommand, Request, Answer
<1>5. command \in [Agents \cup Deciders ->
                    [todo : {<<>>, Request, <<"awaiting">>, Answer, <<"decided">>},
                     number : 0 .. forks, content : Nat \cup Options]]
  <2>1. NoCommand \in [todo : {<<>>, Request, <<"awaiting">>, Answer, <<"decided">>},
                       number : 0 .. forks, content : Nat \cup Options]
    BY <1>1 DEF NoCommand
  <2>2. command = [c \in Agents \cup Deciders |-> NoCommand]
    BY DEF DecisionsInit
  <2> QED  BY <2>1, <2>2
<1>6. EscalationUnderWay
  BY <1>1, <1>3, <1>4 DEF EscalationUnderWay
<1>7. AnswerUnderWay
  BY <1>1, <1>3, <1>4 DEF AnswerUnderWay
<1>8. RequestStands
  BY <1>2 DEF RequestStands
<1> QED  BY <1>1, <1>2, <1>5, <1>6, <1>7, <1>8 DEF DecisionsIInv

LEMMA NextIsNew ==
  ASSUME DecisionsIInv
  PROVE  NextDecision \in 0 .. (forks + 1) /\ NextDecision \notin DOMAIN requests
<1> DEFINE taken == DOMAIN requests \cup DOMAIN answers
<1>1. taken \subseteq 0 .. forks /\ forks \in Nat
  BY DEF DecisionsIInv
<1>2. CASE taken = {}
  BY <1>1, <1>2 DEF NextDecision
<1>3. CASE taken # {}
  <2>1. Highest(taken) \in taken /\ \A k \in taken : k <= Highest(taken)
    <3> HIDE DEF taken
    <3> QED  BY <1>1, <1>3, HighestIsThere
  <2>2. NextDecision = Highest(taken) + 1
    BY <1>3 DEF NextDecision
  <2>3. Highest(taken) \in 0 .. forks
    BY <1>1, <2>1
  <2>4. NextDecision \notin taken
    <3> HIDE DEF taken
    <3> QED  BY <2>1, <2>2, <2>3
  <2> QED  BY <1>1, <2>2, <2>3, <2>4
<1> QED  BY <1>2, <1>3

LEMMA EscalateStep ==
  ASSUME OneAgent, DecisionsIInv, NEW c \in Agents, Escalate(c)
  PROVE  DecisionsIInv' /\ UNCHANGED decisionFiles
<1> USE DecisionsAssumption DEF DecisionsAssumption
<1>1. /\ forks' = forks + 1 /\ forks \in Nat
      /\ UNCHANGED <<requests, answers, awaiting, decided>>
      /\ command' = [command EXCEPT ![c] = [todo |-> Request, number |-> NextDecision, content |-> forks']]
      /\ DOMAIN command = Agents \cup Deciders
  BY DEF Escalate, DecisionsIInv, decisionFiles
<1>2. 0 .. forks \subseteq 0 .. forks'
  BY <1>1
<1>3. /\ command'[c].todo = Request /\ command'[c].number = NextDecision
      /\ \A d \in Deciders : command'[d] = command[d]
      /\ \A d \in Agents : d = c
  BY <1>1 DEF OneAgent
<1>4. Request # <<"awaiting">>
  BY DEF Request
<1>5. EscalationUnderWay'
  BY <1>1, <1>3, <1>4, NextIsNew DEF EscalationUnderWay
<1>6. AnswerUnderWay'
  BY <1>1, <1>2, <1>3 DEF AnswerUnderWay, DecisionsIInv
<1>7. command' \in [Agents \cup Deciders ->
          [todo : {<<>>, Request, <<"awaiting">>, Answer, <<"decided">>},
           number : 0 .. forks', content : Nat \cup Options]]
  BY <1>1, <1>2, NextIsNew DEF DecisionsIInv
<1> QED  BY <1>1, <1>2, <1>5, <1>6, <1>7 DEF DecisionsIInv, RequestStands, decisionFiles

LEMMA DecideStep ==
  ASSUME OneDecider, DecisionsIInv, NEW c \in Deciders, Decide(c)
  PROVE  DecisionsIInv' /\ UNCHANGED decisionFiles
<1> USE DecisionsAssumption DEF DecisionsAssumption
<1>1. PICK option \in Options :
        command' = [command EXCEPT ![c] = [todo |-> Answer, number |-> Highest(Open), content |-> option]]
  BY DEF Decide
<1>2. /\ UNCHANGED <<forks, requests, answers, awaiting, decided>> /\ forks \in Nat
      /\ DOMAIN command = Agents \cup Deciders
  BY DEF Decide, DecisionsIInv, decisionFiles
<1>3. Highest(Open) \in Open
  <2>1. Open \subseteq 0 .. forks /\ Open # {}
    BY DEF Open, Decide, DecisionsIInv
  <2> QED  BY <1>2, <2>1, HighestIsThere
<1>4. Highest(Open) \in 0 .. forks /\ Highest(Open) \notin DOMAIN decided
  BY <1>3 DEF Open, DecisionsIInv
<1>5. /\ command'[c].todo = Answer /\ command'[c].number = Highest(Open)
      /\ \A d \in Agents : command'[d] = command[d]
      /\ \A d \in Deciders : d = c
  BY <1>1, <1>2 DEF OneDecider
<1>6. Answer # <<"decided">>
  BY DEF Answer
<1>7. AnswerUnderWay'
  BY <1>2, <1>4, <1>5, <1>6 DEF AnswerUnderWay
<1>8. EscalationUnderWay'
  BY <1>2, <1>5 DEF EscalationUnderWay, DecisionsIInv
<1>9. command' \in [Agents \cup Deciders ->
          [todo : {<<>>, Request, <<"awaiting">>, Answer, <<"decided">>},
           number : 0 .. forks', content : Nat \cup Options]]
  BY <1>1, <1>2, <1>4 DEF DecisionsIInv
<1> QED  BY <1>1, <1>2, <1>7, <1>8, <1>9 DEF DecisionsIInv, RequestStands, decisionFiles

LEMMA NothingToDo ==
  ASSUME DecisionsIInv
  PROVE  /\ NoCommand.todo = <<>> /\ NoCommand.number \in 0 .. forks
         /\ <<>> \notin {Request, <<"awaiting">>, Answer, <<"decided">>}
BY DEF DecisionsIInv, NoCommand, Request, Answer

LEMMA EscalationWrites ==
  ASSUME OneAgent, DecisionsIInv, NEW c \in Agents, WriteFile(c)
  PROVE  DecisionsIInv' /\ UNCHANGED decided
<1> USE DecisionsAssumption DEF DecisionsAssumption
<1> DEFINE now == command[c]
<1>1. /\ UNCHANGED forks /\ forks \in Nat
      /\ DOMAIN command = Agents \cup Deciders
      /\ now.number \in 0 .. forks
      /\ \A d \in Agents : d = c
  BY DEF WriteFile, DecisionsIInv, EscalationUnderWay, OneAgent
<1>2. now.todo \in {Request, <<"awaiting">>}
  BY DEF WriteFile, Busy, DecisionsIInv, EscalationUnderWay
<1>3. CASE now.todo = Request
  <2>1. Head(Request) = "request" /\ Len(Request) = 2 /\ Tail(Request) = <<"awaiting">>
    BY DEF Request
  <2>2. /\ requests' = With(requests, now.number, now.content)
        /\ UNCHANGED <<awaiting, answers, decided>>
        /\ command' = [command EXCEPT ![c] = [now EXCEPT !.todo = <<"awaiting">>]]
    <3>1. Head(now.todo) = "request" /\ Len(now.todo) # 1 /\ Tail(now.todo) = <<"awaiting">>
      BY <1>3, <2>1
    <3> QED  BY <3>1 DEF WriteFile
  <2>3. now.number \notin DOMAIN requests
    BY <1>3 DEF DecisionsIInv, EscalationUnderWay
  <2>4. /\ DOMAIN requests' = DOMAIN requests \cup {now.number}
        /\ requests'[now.number] = now.content
        /\ \A k \in DOMAIN requests : requests'[k] = requests[k]
    BY <2>2, <2>3 DEF With
  <2>5. RequestStands' /\ DOMAIN awaiting' \subseteq DOMAIN requests'
    BY <2>2, <2>4 DEF RequestStands, DecisionsIInv
  <2>6. /\ command'[c] = [now EXCEPT !.todo = <<"awaiting">>]
        /\ \A d \in Deciders : command'[d] = command[d]
    BY <1>1, <2>2
  <2>7. EscalationUnderWay'
    <3>1. command'[c].number = now.number /\ command'[c].content = now.content
      BY <2>6 DEF DecisionsIInv
    <3>2. command'[c].todo = <<"awaiting">>
      BY <2>6 DEF DecisionsIInv
    <3>3. Request # <<"awaiting">>
      BY DEF Request
    <3> QED  BY <1>1, <2>4, <3>1, <3>2, <3>3 DEF EscalationUnderWay
  <2>8. AnswerUnderWay'
    BY <1>1, <2>2, <2>6 DEF AnswerUnderWay, DecisionsIInv
  <2>9. command' \in [Agents \cup Deciders ->
            [todo : {<<>>, Request, <<"awaiting">>, Answer, <<"decided">>},
             number : 0 .. forks', content : Nat \cup Options]]
    BY <1>1, <2>2 DEF DecisionsIInv
  <2> QED  BY <1>1, <2>2, <2>4, <2>5, <2>7, <2>8, <2>9 DEF DecisionsIInv
<1>4. CASE now.todo = <<"awaiting">>
  <2>2. /\ awaiting' = With(awaiting, now.number, now.content)
        /\ UNCHANGED <<requests, answers, decided>>
        /\ command' = [command EXCEPT ![c] = NoCommand]
    BY <1>4 DEF WriteFile
  <2>3. now.number \in DOMAIN requests /\ requests[now.number] = now.content
    BY <1>4 DEF DecisionsIInv, EscalationUnderWay
  <2>4. /\ DOMAIN awaiting' = DOMAIN awaiting \cup {now.number}
        /\ awaiting'[now.number] = now.content
        /\ \A k \in DOMAIN awaiting : k # now.number => awaiting'[k] = awaiting[k]
    BY <2>2 DEF With
  <2>5. RequestStands' /\ DOMAIN awaiting' \subseteq DOMAIN requests'
    BY <2>2, <2>3, <2>4 DEF RequestStands, DecisionsIInv
  <2>6. command'[c] = NoCommand /\ \A d \in Deciders : command'[d] = command[d]
    BY <1>1, <2>2
  <2>7. EscalationUnderWay'
    BY <1>1, <2>2, <2>6, NothingToDo DEF EscalationUnderWay
  <2>8. AnswerUnderWay'
    BY <1>1, <2>2, <2>6 DEF AnswerUnderWay, DecisionsIInv
  <2>9. command' \in [Agents \cup Deciders ->
            [todo : {<<>>, Request, <<"awaiting">>, Answer, <<"decided">>},
             number : 0 .. forks', content : Nat \cup Options]]
    BY <1>1, <2>2 DEF DecisionsIInv, NoCommand
  <2> QED  BY <1>1, <2>2, <2>5, <2>7, <2>8, <2>9 DEF DecisionsIInv
<1> QED  BY <1>2, <1>3, <1>4

LEMMA AnswerWrites ==
  ASSUME OneDecider, DecisionsIInv, NEW c \in Deciders, WriteFile(c)
  PROVE  /\ DecisionsIInv'
         /\ \A n \in DOMAIN decided : n \in DOMAIN decided' /\ decided'[n] = decided[n]
<1> USE DecisionsAssumption DEF DecisionsAssumption
<1> DEFINE now == command[c]
<1>1. /\ UNCHANGED forks /\ forks \in Nat
      /\ DOMAIN command = Agents \cup Deciders
      /\ now.number \in 0 .. forks
      /\ \A d \in Deciders : d = c
  BY DEF WriteFile, DecisionsIInv, AnswerUnderWay, OneDecider
<1>2. now.todo \in {Answer, <<"decided">>}
  BY DEF WriteFile, Busy, DecisionsIInv, AnswerUnderWay
<1>3. CASE now.todo = Answer
  <2>1. Head(Answer) = "answer" /\ Len(Answer) = 2 /\ Tail(Answer) = <<"decided">>
    BY DEF Answer
  <2>2. /\ answers' = With(answers, now.number, now.content)
        /\ UNCHANGED <<requests, awaiting, decided>>
        /\ command' = [command EXCEPT ![c] = [now EXCEPT !.todo = <<"decided">>]]
    <3>1. Head(now.todo) = "answer" /\ Len(now.todo) # 1 /\ Tail(now.todo) = <<"decided">>
      BY <1>3, <2>1
    <3> QED  BY <3>1 DEF WriteFile
  <2>3. now.number \notin DOMAIN decided
    BY <1>3 DEF DecisionsIInv, AnswerUnderWay
  <2>4. /\ DOMAIN answers' = DOMAIN answers \cup {now.number}
        /\ answers'[now.number] = now.content
        /\ \A k \in DOMAIN answers : k # now.number => answers'[k] = answers[k]
    BY <2>2 DEF With
  <2>5. DOMAIN decided' \subseteq DOMAIN answers' /\ \A n \in DOMAIN decided' : answers'[n] = decided'[n]
    BY <2>2, <2>3, <2>4 DEF DecisionsIInv
  <2>6. /\ command'[c] = [now EXCEPT !.todo = <<"decided">>]
        /\ \A d \in Agents : command'[d] = command[d]
    BY <1>1, <2>2
  <2>7. AnswerUnderWay'
    <3>1. command'[c].number = now.number /\ command'[c].content = now.content
      BY <2>6 DEF DecisionsIInv
    <3>2. command'[c].todo = <<"decided">>
      BY <2>6 DEF DecisionsIInv
    <3>3. Answer # <<"decided">>
      BY DEF Answer
    <3> QED  BY <1>1, <2>2, <2>3, <2>4, <3>1, <3>2, <3>3 DEF AnswerUnderWay
  <2>8. EscalationUnderWay' /\ RequestStands'
    BY <1>1, <2>2, <2>6 DEF EscalationUnderWay, DecisionsIInv, RequestStands
  <2>9. command' \in [Agents \cup Deciders ->
            [todo : {<<>>, Request, <<"awaiting">>, Answer, <<"decided">>},
             number : 0 .. forks', content : Nat \cup Options]]
    BY <1>1, <2>2 DEF DecisionsIInv
  <2> QED  BY <1>1, <2>2, <2>4, <2>5, <2>7, <2>8, <2>9 DEF DecisionsIInv
<1>4. CASE now.todo = <<"decided">>
  <2>2. /\ decided' = With(decided, now.number, now.content)
        /\ UNCHANGED <<requests, awaiting, answers>>
        /\ command' = [command EXCEPT ![c] = NoCommand]
    BY <1>4 DEF WriteFile
  <2>3. /\ now.number \in DOMAIN answers /\ answers[now.number] = now.content
        /\ now.number \notin DOMAIN decided
    BY <1>4 DEF DecisionsIInv, AnswerUnderWay, Answer
  <2>4. /\ DOMAIN decided' = DOMAIN decided \cup {now.number}
        /\ decided'[now.number] = now.content
        /\ \A k \in DOMAIN decided : decided'[k] = decided[k]
    BY <2>2, <2>3 DEF With
  <2>5. DOMAIN decided' \subseteq DOMAIN answers' /\ \A n \in DOMAIN decided' : answers'[n] = decided'[n]
    BY <2>2, <2>3, <2>4 DEF DecisionsIInv
  <2>6. command'[c] = NoCommand /\ \A d \in Agents : command'[d] = command[d]
    BY <1>1, <2>2
  <2>7. AnswerUnderWay'
    BY <1>1, <2>2, <2>6, NothingToDo DEF AnswerUnderWay
  <2>8. EscalationUnderWay' /\ RequestStands'
    BY <1>1, <2>2, <2>6 DEF EscalationUnderWay, DecisionsIInv, RequestStands
  <2>9. command' \in [Agents \cup Deciders ->
            [todo : {<<>>, Request, <<"awaiting">>, Answer, <<"decided">>},
             number : 0 .. forks', content : Nat \cup Options]]
    BY <1>1, <2>2 DEF DecisionsIInv, NoCommand
  <2> QED  BY <1>1, <2>2, <2>4, <2>5, <2>7, <2>8, <2>9 DEF DecisionsIInv
<1> QED  BY <1>2, <1>3, <1>4

LEMMA DeathStep ==
  ASSUME DecisionsIInv, NEW c \in Agents \cup Deciders, CommandDies(c)
  PROVE  DecisionsIInv' /\ UNCHANGED decisionFiles
<1>1. /\ UNCHANGED <<forks, requests, answers, awaiting, decided>> /\ forks \in Nat
      /\ \A d \in Agents \cup Deciders : command'[d] = IF d = c THEN NoCommand ELSE command[d]
  BY DEF CommandDies, DecisionsIInv, decisionFiles
<1>2. command' \in [Agents \cup Deciders ->
          [todo : {<<>>, Request, <<"awaiting">>, Answer, <<"decided">>},
           number : 0 .. forks', content : Nat \cup Options]]
  BY <1>1 DEF CommandDies, DecisionsIInv, NoCommand
<1>3. /\ NoCommand.todo = <<>> /\ NoCommand.number \in 0 .. forks
      /\ <<>> \notin {Request, <<"awaiting">>, Answer, <<"decided">>}
  BY <1>1 DEF NoCommand, Request, Answer
<1>4. EscalationUnderWay'
  BY <1>1, <1>3 DEF EscalationUnderWay, DecisionsIInv
<1>5. AnswerUnderWay'
  BY <1>1, <1>3 DEF AnswerUnderWay, DecisionsIInv
<1> QED  BY <1>1, <1>2, <1>4, <1>5 DEF DecisionsIInv, RequestStands, decisionFiles

-----------------------------------------------------------------------------
(* The theorems.                                                           *)

DecisionsKept ==
    \A n \in DOMAIN decided : n \in DOMAIN decided' /\ decided'[n] = decided[n]

LEMMA DecisionsStep ==
  ASSUME OneAgent, OneDecider, DecisionsIInv, [DecisionsNext]_decisionsVars
  PROVE  DecisionsIInv' /\ DecisionsKept
<1>1. CASE \E c \in Agents : Escalate(c)
  BY <1>1, EscalateStep DEF DecisionsKept, decisionFiles
<1>2. CASE \E c \in Deciders : Decide(c)
  BY <1>2, DecideStep DEF DecisionsKept, decisionFiles
<1>3. ASSUME NEW c \in Agents \cup Deciders, WriteFile(c) PROVE DecisionsIInv' /\ DecisionsKept
  BY <1>3, EscalationWrites, AnswerWrites DEF DecisionsKept
<1>4. ASSUME NEW c \in Agents \cup Deciders, CommandDies(c) PROVE DecisionsIInv' /\ DecisionsKept
  BY <1>4, DeathStep DEF DecisionsKept, decisionFiles
<1>5. CASE UNCHANGED decisionsVars
  BY <1>5 DEF decisionsVars, decisionFiles, DecisionsIInv, RequestStands, EscalationUnderWay,
              AnswerUnderWay, DecisionsKept
<1> QED  BY <1>1, <1>2, <1>3, <1>4, <1>5 DEF DecisionsNext

\* A marker leads to the request of its own escalation, however many commands died and
\* whatever requests they left behind (decision.rs escalate_decision, next_decision_nnnn).
THEOREM RequestsStand ==
  ASSUME OneAgent, OneDecider
  PROVE  DecisionsSpec => []RequestStands
<1>1. DecisionsIInv /\ [DecisionsNext]_decisionsVars => DecisionsIInv'
  BY DecisionsStep
<1>2. DecisionsIInv => RequestStands
  BY DEF DecisionsIInv
<1> QED  BY <1>1, <1>2, DecisionsInitially, PTL DEF DecisionsSpec

\* A closed fork says what its answer says, and is never decided again, also when the
\* command died between the two and was repeated with another option (decision.rs
\* answer_decision).
THEOREM DecisionsStand ==
  ASSUME OneAgent, OneDecider
  PROVE  DecisionsSpec => DecisionStands
<1> DEFINE Stands == \A n \in DOMAIN decided' :
                       /\ n \in DOMAIN answers' /\ answers'[n] = decided'[n]
                       /\ n \in DOMAIN decided => decided'[n] = decided[n]
<1>1. DecisionsIInv /\ [DecisionsNext]_decisionsVars => DecisionsIInv' /\ [Stands]_decisionsVars
  <2> SUFFICES ASSUME DecisionsIInv, [DecisionsNext]_decisionsVars
               PROVE  DecisionsIInv' /\ Stands
    OBVIOUS
  <2>1. DecisionsIInv' /\ DecisionsKept
    BY DecisionsStep
  <2> QED  BY <2>1 DEF DecisionsIInv, DecisionsKept
<1> QED  BY <1>1, DecisionsInitially, PTL DEF DecisionsSpec, DecisionStands
=============================================================================
