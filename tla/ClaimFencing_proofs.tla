------------------------ MODULE ClaimFencing_proofs ------------------------
(***************************************************************************)
(* Theorems about ClaimFencing, for every set of nodes, runs and hosts and *)
(* every value of the bounds: type correctness, main only grows, the       *)
(* protocol implements ExclusiveLedger, a tenure is unbroken, a token      *)
(* publishes once, and a resumed session inherits every turn.              *)
(***************************************************************************)
EXTENDS ClaimFencing, SequenceTheorems, TLAPS

-----------------------------------------------------------------------------
(* Prefixes of sequences.                                                  *)

\* A prefix, element by element.
LEMMA PrefixElements ==
  ASSUME NEW S, NEW s \in Seq(S), NEW t \in Seq(S)
  PROVE  IsPrefix(s, t) <=>
           Len(s) <= Len(t) /\ \A i \in 1 .. Len(s) : s[i] = t[i]
<1>1. CASE Len(s) <= Len(t)
  <2>1. \A i \in 1 .. Len(s) : s[i] \in S /\ t[i] \in S
    BY <1>1, ElementOfSeq, LenProperties
  <2>2. /\ SubSeq(s, 1, Len(s)) \in Seq(S)
        /\ Len(SubSeq(s, 1, Len(s))) = Len(s)
        /\ \A i \in 1 .. Len(s) : SubSeq(s, 1, Len(s))[i] = s[i]
    BY <2>1, SubSeqProperties, LenProperties
  <2>3. /\ SubSeq(t, 1, Len(s)) \in Seq(S)
        /\ Len(SubSeq(t, 1, Len(s))) = Len(s)
        /\ \A i \in 1 .. Len(s) : SubSeq(t, 1, Len(s))[i] = t[i]
    BY <2>1, SubSeqProperties, LenProperties
  <2>4. SubSeq(s, 1, Len(s)) = SubSeq(t, 1, Len(s))
          <=> \A i \in 1 .. Len(s) : s[i] = t[i]
    BY <2>2, <2>3, SeqEqual
  <2> QED  BY <1>1, <2>4 DEF IsPrefix
<1>2. CASE ~(Len(s) <= Len(t))
  BY <1>2 DEF IsPrefix
<1> QED  BY <1>1, <1>2

LEMMA PrefixReflexive ==
  ASSUME NEW S, NEW s \in Seq(S)
  PROVE  IsPrefix(s, s)
BY PrefixElements, LenProperties

LEMMA PrefixTransitive ==
  ASSUME NEW S, NEW s \in Seq(S), NEW t \in Seq(S), NEW u \in Seq(S),
         IsPrefix(s, t), IsPrefix(t, u)
  PROVE  IsPrefix(s, u)
<1>1. Len(s) \in Nat /\ Len(t) \in Nat /\ Len(u) \in Nat
  BY LenProperties
<1>2. Len(s) <= Len(t) /\ \A i \in 1 .. Len(s) : s[i] = t[i]
  BY PrefixElements
<1>3. Len(t) <= Len(u) /\ \A i \in 1 .. Len(t) : t[i] = u[i]
  BY PrefixElements
<1>4. Len(s) <= Len(u) /\ \A i \in 1 .. Len(s) : s[i] = u[i]
  BY <1>1, <1>2, <1>3
<1> QED  BY <1>4, PrefixElements

LEMMA PrefixAntisymmetric ==
  ASSUME NEW S, NEW s \in Seq(S), NEW t \in Seq(S),
         IsPrefix(s, t), IsPrefix(t, s)
  PROVE  s = t
<1>1. Len(s) \in Nat /\ Len(t) \in Nat
  BY LenProperties
<1>2. Len(s) <= Len(t) /\ \A i \in 1 .. Len(s) : s[i] = t[i]
  BY PrefixElements
<1>3. Len(t) <= Len(s)
  BY PrefixElements
<1> QED  BY <1>1, <1>2, <1>3, SeqEqual

LEMMA PrefixOfConcat ==
  ASSUME NEW S, NEW s \in Seq(S), NEW t \in Seq(S)
  PROVE  s \o t \in Seq(S) /\ IsPrefix(s, s \o t)
<1>1. /\ s \o t \in Seq(S)
      /\ Len(s \o t) = Len(s) + Len(t)
      /\ \A i \in 1 .. Len(s) + Len(t) :
           (s \o t)[i] = IF i <= Len(s) THEN s[i] ELSE t[i - Len(s)]
  BY ConcatProperties
<1>2. Len(s) \in Nat /\ Len(t) \in Nat
  BY LenProperties
<1>3. Len(s) <= Len(s \o t) /\ \A i \in 1 .. Len(s) : s[i] = (s \o t)[i]
  BY <1>1, <1>2
<1> QED  BY <1>1, <1>3, PrefixElements

LEMMA PrefixOfAppend ==
  ASSUME NEW S, NEW s \in Seq(S), NEW e \in S
  PROVE  /\ Append(s, e) \in Seq(S)
         /\ Len(Append(s, e)) = Len(s) + 1
         /\ Append(s, e)[Len(s) + 1] = e
         /\ IsPrefix(s, Append(s, e))
<1>1. /\ Append(s, e) \in Seq(S)
      /\ Len(Append(s, e)) = Len(s) + 1
      /\ \A i \in 1 .. Len(s) : Append(s, e)[i] = s[i]
      /\ Append(s, e)[Len(s) + 1] = e
  BY AppendProperties
<1>2. Len(s) \in Nat
  BY LenProperties
<1>3. Len(s) <= Len(Append(s, e)) /\ \A i \in 1 .. Len(s) : s[i] = Append(s, e)[i]
  BY <1>1, <1>2
<1> QED  BY <1>1, <1>3, PrefixElements

-----------------------------------------------------------------------------
(* Type correctness.                                                       *)

\* The local state of a run, field by field.
LEMMA RunFields ==
  ASSUME TypeOK, NEW r \in Runs
  PROVE  /\ run[r].wt \in Tip /\ run[r].wt.base \in History /\ run[r].wt.own \in History
         /\ run[r].sha \in ClaimCommit \cup {NoClaim}
         /\ run[r].gen \in Nat
         /\ loop[r].mode \in {"result", "failure"}
         /\ loop[r].seen \in History
         /\ loop[r].tries \in 0 .. RetryMax
BY DEF TypeOK, RunState, LoopState, Tip

LEMMA EmptyHistory == <<>> \in History
BY EmptySeq DEF History

LEMMA CommitOfType ==
  ASSUME NEW r \in Runs, NEW k \in Kinds
  PROVE  CommitOf(r, k) \in Commit
BY ConstantsAssumption DEF CommitOf, Commit

LEMMA CommittedType ==
  ASSUME TypeOK, NEW r \in Runs, NEW k \in Kinds
  PROVE  Committed(r, k) \in Tip
<1>1. CommitOf(r, k) \in Commit
  BY CommitOfType
<1>2. Append(run[r].wt.own, CommitOf(r, k)) \in History
  BY <1>1, RunFields, AppendProperties DEF History
<1> QED  BY <1>2, RunFields DEF Committed, Tip

LEMMA GoType ==
  ASSUME TypeOK, NEW r \in Runs, NEW l \in Pcs, Go(r, l)
  PROVE  pc' \in [Runs -> Pcs]
BY DEF TypeOK, Go

LEMMA NoLoopType == NoLoop \in LoopState
BY EmptyHistory, ConstantsAssumption DEF NoLoop, LoopState

LEMMA LeaveType ==
  ASSUME TypeOK, NEW r \in Runs, NEW l \in Pcs, Leave(r, l)
  PROVE  pc' \in [Runs -> Pcs] /\ loop' \in [Runs -> LoopState]
BY GoType, NoLoopType DEF TypeOK, Leave

LEMMA PublishFailsType ==
  ASSUME TypeOK, NEW r \in Runs, PublishFails(r)
  PROVE  pc' \in [Runs -> Pcs] /\ loop' \in [Runs -> LoopState]
<1>1. (IF r \in Runners THEN "error" ELSE "working") \in Pcs
  BY DEF Pcs, Ended
<1> QED  BY <1>1, LeaveType DEF PublishFails

LEMMA FencedType ==
  ASSUME TypeOK, NEW r \in Runs, Fenced(r)
  PROVE  pc' \in [Runs -> Pcs] /\ loop' \in [Runs -> LoopState]
<1>1. (IF loop[r].mode = "result" THEN "fenced" ELSE "conflict") \in Pcs
  BY DEF Pcs, Ended
<1> QED  BY <1>1, LeaveType DEF Fenced

LEMMA UnpublishedType ==
  ASSUME TypeOK, NEW r \in Runs, Unpublished(r)
  PROVE  pc' \in [Runs -> Pcs] /\ loop' \in [Runs -> LoopState]
<1>1. CASE r \in Runners /\ loop[r].mode = "result"
  <2>1. [NoLoop EXCEPT !.mode = "failure"] \in LoopState
    BY NoLoopType DEF LoopState
  <2>2. "fetchMain" \in Pcs
    BY DEF Pcs, Publishing
  <2> QED  BY <1>1, <2>1, <2>2, GoType DEF Unpublished, TypeOK
<1>2. CASE ~(r \in Runners /\ loop[r].mode = "result")
  <2>1. (IF r \in Runners THEN "conflict" ELSE "working") \in Pcs
    BY DEF Pcs, Ended
  <2> QED  BY <1>2, <2>1, LeaveType DEF Unpublished
<1> QED  BY <1>1, <1>2

LEMMA AnotherAttemptType ==
  ASSUME TypeOK, NEW r \in Runs, AnotherAttempt(r)
  PROVE  pc' \in [Runs -> Pcs] /\ loop' \in [Runs -> LoopState]
<1>1. CASE loop[r].tries + 1 < RetryMax
  <2>1. loop[r].tries + 1 \in 0 .. RetryMax
    BY <1>1, RunFields, ConstantsAssumption
  <2>2. loop' \in [Runs -> LoopState]
    BY SMTT(30), <1>1, <2>1 DEF AnotherAttempt, TypeOK, LoopState
  <2>3. "fetchMain" \in Pcs
    BY DEF Pcs, Publishing
  <2> QED  BY <1>1, <2>2, <2>3, GoType DEF AnotherAttempt
<1>2. CASE ~(loop[r].tries + 1 < RetryMax)
  BY <1>2, UnpublishedType DEF AnotherAttempt
<1> QED  BY <1>1, <1>2

LEMMA FaultType ==
  ASSUME TypeOK, Fault \/ NoFault
  PROVE  faults' \in Nat
BY DEF TypeOK, Fault, NoFault

LEMMA ClaimType ==
  ASSUME TypeOK, NEW r \in Runs, NEW gen \in Nat, Claim(r, gen)
  PROVE  /\ claims' \in [Nodes -> ClaimCommit \cup {NoClaim}]
         /\ pc' \in [Runs -> Pcs] /\ run' \in [Runs -> RunState]
<1>1. FirstClaim(r, gen) \in ClaimCommit
  BY DEF FirstClaim, ClaimCommit
<1>2. Len(main) \in Nat
  BY LenProperties DEF TypeOK, History
<1>3. claims' \in [Nodes -> ClaimCommit \cup {NoClaim}]
  BY <1>1 DEF Claim, TypeOK
<1>4. run' \in [Runs -> RunState]
  <2>1. [run[r] EXCEPT !.gen = gen] \in RunState
    BY DEF TypeOK, RunState
  <2>2. [[run[r] EXCEPT !.gen = gen] EXCEPT !.sha = FirstClaim(r, gen),
                                            !.since = Len(main)] \in RunState
    BY <1>1, <1>2, <2>1 DEF RunState
  <2>3. [run[r] EXCEPT !.gen = gen, !.sha = FirstClaim(r, gen),
                       !.since = Len(main)] \in RunState
    BY <2>2
  <2> QED  BY <2>3 DEF Claim, TypeOK
<1>5. "prepare" \in Pcs
  BY DEF Pcs
<1> QED  BY <1>3, <1>4, <1>5, GoType DEF Claim

LEMMA DeleteClaimType ==
  ASSUME TypeOK, NEW r \in Runs, DeleteClaim(r) \/ UNCHANGED claims
  PROVE  claims' \in [Nodes -> ClaimCommit \cup {NoClaim}]
BY DEF TypeOK, DeleteClaim

LEMMA AtomicPushType ==
  ASSUME TypeOK, NEW r \in Runs, AtomicPush(r)
  PROVE  /\ main' \in History
         /\ claims' \in [Nodes -> ClaimCommit \cup {NoClaim}]
         /\ runRefs' \in [Runs -> Tip \cup {NoRef}]
<1>1. Pushed(r) \in History
  <2>1. run[r].wt.base \o run[r].wt.own \in History
    BY RunFields, ConcatProperties DEF History
  <2>2. CommitOf(r, "failure") \in Commit
    BY CommitOfType DEF Kinds
  <2>3. Append(loop[r].seen, CommitOf(r, "failure")) \in History
    BY <2>2, RunFields, AppendProperties DEF History
  <2> QED  BY <2>1, <2>3 DEF Pushed
<1>2. claims' \in [Nodes -> ClaimCommit \cup {NoClaim}]
  BY DEF AtomicPush, TypeOK
<1>3. runRefs' \in [Runs -> Tip \cup {NoRef}]
  BY DEF AtomicPush, RunRefAfterPush, TypeOK
<1> QED  BY <1>1, <1>2, <1>3 DEF AtomicPush

-----------------------------------------------------------------------------
\* Every action keeps the types.
LEMMA AttachResumeType ==
  ASSUME TypeOK, NEW r \in Runs, AttachResume(r)
  PROVE  TypeOK'
<1>1. HostOf[r] \in Hosts
  BY ConstantsAssumption
<1>2. tracking' \in [Hosts -> History]
  BY <1>1 DEF AttachResume, TypeOK
<1>3. PICK old \in tickets \ {r} :
        /\ NodeOf[old] = NodeOf[r]
        /\ IF runRefs[old] = NoRef
           THEN Go(r, "error") /\ UNCHANGED run
           ELSE /\ Go(r, "acquire")
                /\ run' = [run EXCEPT ![r].wt = runRefs[old],
                                      ![r].gen = run[old].gen + 1,
                                      ![r].from = old]
  BY DEF AttachResume
<1>4. old \in Runs
  BY <1>3 DEF TypeOK
<1>5. pc' \in [Runs -> Pcs]
  <2>1. "error" \in Pcs /\ "acquire" \in Pcs
    BY DEF Pcs, Ended
  <2> QED  BY <1>3, <2>1, GoType
<1>6. run' \in [Runs -> RunState]
  <2>1. CASE runRefs[old] = NoRef
    BY <1>3, <2>1 DEF TypeOK
  <2>2. CASE runRefs[old] # NoRef
    <3>1. runRefs[old] \in Tip
      BY <1>4, <2>2 DEF TypeOK
    <3>2. run[old].gen + 1 \in Nat
      BY <1>4, RunFields
    <3>3. [run[r] EXCEPT !.wt = runRefs[old]] \in RunState
      BY <3>1 DEF TypeOK, RunState
    <3>4. [[run[r] EXCEPT !.wt = runRefs[old]] EXCEPT
             !.gen = run[old].gen + 1, !.from = old] \in RunState
      BY <1>4, <3>2, <3>3 DEF RunState
    <3>5. [run[r] EXCEPT !.wt = runRefs[old], !.gen = run[old].gen + 1,
                         !.from = old] \in RunState
      BY <3>4
    <3> QED  BY <1>3, <2>2, <3>5 DEF TypeOK
  <2> QED  BY <2>1, <2>2
<1> QED  BY <1>2, <1>5, <1>6 DEF AttachResume, remote, TypeOK

LEMMA AcquireType ==
  ASSUME TypeOK, NEW r \in Runs, Attach(r) \/ Acquire(r) \/ Takeover(r) \/ Prepare(r)
  PROVE  TypeOK'
<1> /\ "acquire" \in Pcs /\ "error" \in Pcs /\ "lost" \in Pcs /\ "working" \in Pcs
  BY DEF Pcs, Ended
<1>1. CASE Attach(r)
  <2>1. [base |-> main, own |-> <<>>] \in Tip
    BY EmptyHistory DEF TypeOK, Tip
  <2>2. run' \in [Runs -> RunState]
    BY ZenonT(60), <1>1, <2>1 DEF Attach, TypeOK, RunState
  <2>3. pc' \in [Runs -> Pcs]
    BY <1>1, GoType DEF Attach
  <2> QED  BY <1>1, <2>2, <2>3, ConstantsAssumption DEF Attach, TypeOK, remote
<1>2. CASE Acquire(r)
  <2>1. CASE Claim(r, run[r].gen)
    BY <1>2, <2>1, RunFields, ClaimType, FaultType DEF Acquire, TypeOK, others
  <2>2. CASE /\ claims' = [claims EXCEPT ![NodeOf[r]] = FirstClaim(r, run[r].gen)]
             /\ Go(r, "error") /\ UNCHANGED run /\ Fault
    <3>1. FirstClaim(r, run[r].gen) \in ClaimCommit
      BY RunFields DEF FirstClaim, ClaimCommit
    <3>2. claims' \in [Nodes -> ClaimCommit \cup {NoClaim}]
      BY <2>2, <3>1 DEF TypeOK
    <3> QED  BY <1>2, <2>2, <3>2, GoType, FaultType DEF Acquire, TypeOK, others
  <2>3. CASE (Go(r, "lost") \/ Go(r, "error")) /\ UNCHANGED <<claims, run>> /\ (Fault \/ NoFault)
    BY <1>2, <2>3, GoType, FaultType DEF Acquire, TypeOK, others
  <2> QED  BY <1>2, <2>1, <2>2, <2>3 DEF Acquire
<1>3. CASE Takeover(r)
  <2>1. NodeOf[r] \in Nodes
    BY ConstantsAssumption
  <2>2. claims[NodeOf[r]].gen + 1 \in Nat
    BY <1>3, <2>1 DEF Takeover, TypeOK, ClaimCommit
  <2> QED  BY <1>3, <2>2, ClaimType DEF Takeover, TypeOK, others
<1>4. CASE Prepare(r)
  <2>1. runRefs' \in [Runs -> Tip \cup {NoRef}]
    BY <1>4, RunFields DEF Prepare, TypeOK
  <2>2. pc' \in [Runs -> Pcs]
    BY <1>4, GoType DEF Prepare, TypeOK
  <2> QED  BY <1>4, <2>1, <2>2, FaultType DEF Prepare, TypeOK, others
<1> QED  BY <1>1, <1>2, <1>3, <1>4

LEMMA WorkType ==
  ASSUME TypeOK, ClaimOwned, NEW r \in Runs, Execute(r) \/ Done(r) \/ Turn(r) \/ Renew(r) \/ Release(r)
  PROVE  TypeOK'
<1> /\ "fetchMain" \in Pcs /\ "error" \in Pcs /\ "lost" \in Pcs /\ "released" \in Pcs
  BY DEF Pcs, Ended, Publishing
<1>1. CASE Execute(r) \/ Done(r)
  <2>1. StartPublish(r)
    BY <1>1 DEF Execute, Done
  <2>2. Committed(r, "result") \in Tip
    BY CommittedType DEF Kinds
  <2>3. run' \in [Runs -> RunState]
    BY <2>1, <2>2 DEF StartPublish, TypeOK, RunState
  <2>4. [NoLoop EXCEPT !.lease = run[r].wt] \in LoopState
    BY NoLoopType, RunFields DEF LoopState
  <2>5. loop' \in [Runs -> LoopState]
    BY <2>1, <2>4 DEF StartPublish, TypeOK
  <2> QED  BY <2>1, <2>3, <2>5, GoType DEF StartPublish, TypeOK, remote, others
<1>2. CASE Turn(r)
  <2>1. Committed(r, "turn") \in Tip
    BY CommittedType DEF Kinds
  <2>2. run' \in [Runs -> RunState]
    BY ZenonT(60), <1>2, <2>1 DEF Turn, TypeOK, RunState
  <2>3. runRefs' \in [Runs -> Tip \cup {NoRef}]
    BY <1>2, <2>1 DEF Turn, TypeOK
  <2>4. faults' \in Nat
    BY <1>2, FaultType DEF Turn
  <2> QED  BY <1>2, <2>2, <2>3, <2>4 DEF Turn, TypeOK, others
<1>3. CASE Renew(r)
  <2> DEFINE next == [tok |-> run[r].sha.tok, gen |-> run[r].sha.gen,
                      ver |-> run[r].sha.ver + 1]
  <2>1. faults' \in Nat
    BY <1>3, FaultType DEF Renew
  <2>2. run[r].sha \in ClaimCommit
    BY <1>3, RunFields DEF Renew, InSession, ClaimOwned, Active
  <2>3. next \in ClaimCommit
    BY <2>2 DEF ClaimCommit
  <2>4. [run[r] EXCEPT !.sha = next] \in RunState
    BY <2>3 DEF TypeOK, RunState
  <2>5. /\ \/ claims' = [claims EXCEPT ![NodeOf[r]] = next]
           \/ UNCHANGED claims
        /\ \/ run' = [run EXCEPT ![r].sha = next]
           \/ UNCHANGED run
        /\ UNCHANGED pc \/ Go(r, "error") \/ Go(r, "lost")
    BY <1>3 DEF Renew
  <2> HIDE DEF next
  <2>6. run' \in [Runs -> RunState]
    BY <2>4, <2>5 DEF TypeOK
  <2>7. claims' \in [Nodes -> ClaimCommit \cup {NoClaim}]
    BY <2>3, <2>5 DEF TypeOK
  <2>8. pc' \in [Runs -> Pcs]
    BY <2>5, GoType DEF TypeOK
  <2> QED  BY <1>3, <2>1, <2>6, <2>7, <2>8 DEF Renew, TypeOK, others
<1>4. CASE Release(r)
  BY <1>4, DeleteClaimType, GoType, FaultType DEF Release, TypeOK, others
<1> QED  BY <1>1, <1>2, <1>3, <1>4

LEMMA HandoffType ==
  ASSUME TypeOK, NEW r \in Runs, HandoffPush(r) \/ HandoffRelease(r)
  PROVE  TypeOK'
<1> /\ "handoff" \in Pcs /\ "error" \in Pcs /\ "handedOff" \in Pcs
  BY DEF Pcs, Ended
<1>1. CASE HandoffPush(r)
  <2>1. Committed(r, "handoff") \in Tip
    BY CommittedType DEF Kinds
  <2>2. run' \in [Runs -> RunState]
    BY <1>1, <2>1 DEF HandoffPush, TypeOK, RunState
  <2>3. runRefs' \in [Runs -> Tip \cup {NoRef}]
    BY <1>1, <2>1 DEF HandoffPush, TypeOK
  <2>4. pc' \in [Runs -> Pcs]
    BY <1>1, GoType DEF HandoffPush
  <2>5. faults' \in Nat
    BY <1>1, FaultType DEF HandoffPush
  <2> QED  BY <1>1, <2>2, <2>3, <2>4, <2>5 DEF HandoffPush, TypeOK, others
<1>2. CASE HandoffRelease(r)
  <2>1. claims' \in [Nodes -> ClaimCommit \cup {NoClaim}]
    BY <1>2, DeleteClaimType DEF HandoffRelease
  <2>2. pc' \in [Runs -> Pcs] /\ faults' \in Nat
    BY <1>2, GoType, FaultType DEF HandoffRelease
  <2> QED  BY <1>2, <2>1, <2>2 DEF HandoffRelease, TypeOK
<1> QED  BY <1>1, <1>2

LEMMA PublishType ==
  ASSUME TypeOK, NEW r \in Runs, PublishStep(r)
  PROVE  TypeOK'
<1> /\ "checkClaim" \in Pcs /\ "readMain" \in Pcs /\ "rebase" \in Pcs /\ "push" \in Pcs
    /\ "published" \in Pcs /\ "conflict" \in Pcs /\ HostOf[r] \in Hosts
  BY ConstantsAssumption DEF Pcs, Ended, Publishing
<1>1. CASE FetchMain(r)
  <2>1. pc' \in [Runs -> Pcs] /\ loop' \in [Runs -> LoopState]
    BY <1>1, GoType, PublishFailsType DEF FetchMain, TypeOK
  <2> QED  BY <1>1, <2>1, FaultType DEF FetchMain, TypeOK, remote
<1>2. CASE CheckClaim(r)
  <2>1. pc' \in [Runs -> Pcs] /\ loop' \in [Runs -> LoopState]
    BY <1>2, GoType, FencedType DEF CheckClaim, TypeOK
  <2> QED  BY <1>2, <2>1, FaultType DEF CheckClaim, TypeOK, remote, others
<1>3. CASE ReadMain(r)
  <2>1. tracking[HostOf[r]] \in History
    BY DEF TypeOK
  <2>2. loop' \in [Runs -> LoopState]
    BY <1>3, <2>1 DEF ReadMain, TypeOK, LoopState
  <2>3. pc' \in [Runs -> Pcs]
    BY <1>3, GoType DEF ReadMain
  <2> QED  BY <1>3, <2>2, <2>3 DEF ReadMain, TypeOK, remote, others
<1>4. CASE Rebase(r)
  <2>1. [base |-> tracking[HostOf[r]], own |-> run[r].wt.own] \in Tip
    BY RunFields DEF TypeOK, Tip
  <2>2. run' \in [Runs -> RunState]
    BY <1>4, <2>1 DEF Rebase, TypeOK, RunState
  <2>3. pc' \in [Runs -> Pcs] /\ loop' \in [Runs -> LoopState]
    BY <1>4, GoType, UnpublishedType DEF Rebase, TypeOK
  <2> QED  BY <1>4, <2>2, <2>3 DEF Rebase, TypeOK, remote, others
<1>5. CASE Push(r)
  <2>1. /\ main' \in History
        /\ claims' \in [Nodes -> ClaimCommit \cup {NoClaim}]
        /\ runRefs' \in [Runs -> Tip \cup {NoRef}]
    BY <1>5, AtomicPushType DEF Push, remote, TypeOK
  <2>2. (IF loop[r].mode = "result" THEN "published" ELSE "conflict") \in Pcs
    OBVIOUS
  <2>3. pc' \in [Runs -> Pcs] /\ loop' \in [Runs -> LoopState]
    BY <1>5, <2>2, LeaveType, PublishFailsType, AnotherAttemptType DEF Push
  <2>4. faults' \in Nat
    BY <1>5, FaultType DEF Push
  <2> QED  BY <1>5, <2>1, <2>3, <2>4 DEF Push, TypeOK, others
<1> QED  BY <1>1, <1>2, <1>3, <1>4, <1>5 DEF PublishStep

LEMMA EnvironmentType ==
  ASSUME TypeOK,
         \/ \E h \in Hosts : LifecycleFetch(h) \/ LifecyclePush(h) \/ CrashServer(h)
         \/ \E r \in Runs : CrashRunner(r)
  PROVE  TypeOK'
<1>1. ASSUME NEW h \in Hosts, LifecycleFetch(h)  PROVE TypeOK'
  BY <1>1 DEF LifecycleFetch, TypeOK, remote
<1>2. ASSUME NEW h \in Hosts, LifecyclePush(h)  PROVE TypeOK'
  <2>1. main' \in History
    <3>1. CASE main = lifecycle[h]
      <4>1. PICK n \in Nodes :
              main' = Append(main, [tok |-> NoRun, node |-> n, kind |-> "lifecycle"])
        BY <1>2, <3>1 DEF LifecyclePush
      <4>2. [tok |-> NoRun, node |-> n, kind |-> "lifecycle"] \in Commit
        BY DEF Commit, Kinds
      <4> QED  BY <4>1, <4>2, AppendProperties DEF TypeOK, History
    <3>2. CASE main # lifecycle[h]
      BY <1>2, <3>2 DEF LifecyclePush, TypeOK
    <3> QED  BY <3>1, <3>2
  <2> QED  BY <1>2, <2>1 DEF LifecyclePush, TypeOK
<1>3. ASSUME NEW crashed, Crash(crashed)  PROVE TypeOK'
  <2>1. pc' \in [Runs -> Pcs]
    BY <1>3 DEF Crash, TypeOK, Pcs, Ended
  <2>2. loop' \in [Runs -> LoopState]
    BY <1>3, NoLoopType DEF Crash, TypeOK
  <2> QED  BY <1>3, <2>1, <2>2, FaultType DEF Crash, TypeOK, remote, others
<1> QED  BY <1>1, <1>2, <1>3 DEF CrashServer, CrashRunner

LEMMA TypeStep ==
  ASSUME TypeOK, ClaimOwned, [Next]_vars
  PROVE  TypeOK'
<1>1. CASE UNCHANGED vars
  BY <1>1 DEF vars, remote, others, TypeOK
<1>2. ASSUME NEW r \in Runs, RunStep(r)  PROVE TypeOK'
  BY <1>2, AttachResumeType, AcquireType, WorkType, HandoffType, PublishType,
     EnvironmentType DEF RunStep
<1> QED  BY <1>1, <1>2, EnvironmentType DEF Next

-----------------------------------------------------------------------------
(* What one step does to the runs.                                         *)

\* A step of one run leaves the others alone, except that a resumed session drops
\* the session it replaces.
LEMMA OtherRuns ==
  ASSUME TypeOK, NEW r \in Runs, RunStep(r), NEW x \in Runs \ {r}
  PROVE  /\ run'[x] = run[x] /\ loop'[x] = loop[x]
         /\ pc'[x] = pc[x] \/ pc'[x] = "lost"
<1>1. CASE Attach(r) \/ AttachResume(r) \/ Acquire(r) \/ Takeover(r) \/ Prepare(r)
  <2>1. run'[x] = run[x] /\ loop'[x] = loop[x]
    BY <1>1 DEF Attach, AttachResume, Acquire, Takeover, Prepare, Claim, TypeOK
  <2>2. pc'[x] = pc[x] \/ pc'[x] = "lost"
    BY <1>1 DEF Attach, AttachResume, Acquire, Takeover, Prepare, Claim, Go, TypeOK
  <2> QED  BY <2>1, <2>2
<1>2. CASE Execute(r) \/ Done(r) \/ Turn(r) \/ Renew(r) \/ Release(r)
  <2>1. run'[x] = run[x] /\ loop'[x] = loop[x]
    BY <1>2 DEF Execute, Done, Turn, Renew, Release, StartPublish, TypeOK
  <2>2. pc'[x] = pc[x]
    BY <1>2 DEF Execute, Done, Turn, Renew, Release, StartPublish, Go, TypeOK
  <2> QED  BY <2>1, <2>2
<1>3. CASE HandoffPush(r) \/ HandoffRelease(r)
  BY <1>3 DEF HandoffPush, HandoffRelease, Go, TypeOK
<1>4. CASE PublishStep(r)
  <2> USE DEF Go, Leave, PublishFails, Fenced, Unpublished, TypeOK
  <2>1. CASE FetchMain(r) \/ CheckClaim(r)
    BY <2>1 DEF FetchMain, CheckClaim
  <2>2. CASE ReadMain(r) \/ Rebase(r)
    BY <2>2 DEF ReadMain, Rebase
  <2>3. CASE Push(r)
    BY <2>3 DEF Push, AnotherAttempt
  <2> QED  BY <1>4, <2>1, <2>2, <2>3 DEF PublishStep
<1>5. CASE CrashRunner(r)
  BY <1>5 DEF CrashRunner, Crash, TypeOK
<1> QED  BY <1>1, <1>2, <1>3, <1>4, <1>5 DEF RunStep

\* Steps of the environment: runs only stop.
LEMMA EnvironmentRuns ==
  ASSUME TypeOK, NEW h \in Hosts,
         LifecycleFetch(h) \/ LifecyclePush(h) \/ CrashServer(h), NEW x \in Runs
  PROVE  /\ run'[x] = run[x]
         /\ \/ pc'[x] = pc[x] /\ loop'[x] = loop[x]
            \/ pc'[x] \in Ended \/ (pc'[x] = "idle" /\ loop'[x] = NoLoop)
<1>1. CASE LifecycleFetch(h) \/ LifecyclePush(h)
  BY <1>1 DEF LifecycleFetch, LifecyclePush
<1>2. CASE CrashServer(h)
  BY <1>2 DEF CrashServer, Crash, Alive, Ended, TypeOK
<1> QED  BY <1>1, <1>2

\* A run's claim is set by an accepted push, renewed, and otherwise kept.
LEMMA OwnStep ==
  ASSUME TypeOK, ClaimOwned, NEW r \in Runs, RunStep(r), pc'[r] \in Active
  PROVE  run'[r].sha # NoClaim /\ run'[r].sha.tok = r
<1>1. CASE Acquire(r) \/ Takeover(r)
  <2>1. PICK gen \in Nat : Claim(r, gen)
    <3>1. NodeOf[r] \in Nodes /\ run[r].gen \in Nat
      BY ConstantsAssumption, RunFields
    <3>2. claims[NodeOf[r]] # NoClaim => claims[NodeOf[r]].gen + 1 \in Nat
      BY <3>1 DEF TypeOK, ClaimCommit
    <3>3. CASE Acquire(r)
      <4>1. ~Go(r, "error") /\ ~Go(r, "lost")
        BY DEF Go, TypeOK, Active, Publishing
      <4> QED  BY <3>1, <3>3, <4>1 DEF Acquire
    <3>4. CASE Takeover(r)
      BY <3>2, <3>4 DEF Takeover
    <3> QED  BY <1>1, <3>3, <3>4
  <2>2. run'[r].sha = FirstClaim(r, gen)
    BY <2>1 DEF Claim, TypeOK, RunState
  <2>3. FirstClaim(r, gen) \in [tok : Runs, gen : Nat, ver : Nat]
    BY DEF FirstClaim
  <2> QED  BY <2>2, <2>3, ConstantsAssumption DEF FirstClaim
<1>2. CASE Renew(r)
  <2>1. run[r].sha \in ClaimCommit /\ run[r].sha.tok = r
    BY <1>2, RunFields DEF Renew, InSession, ClaimOwned, Active
  <2>2. \/ run'[r].sha = run[r].sha
        \/ run'[r].sha = [tok |-> run[r].sha.tok, gen |-> run[r].sha.gen,
                          ver |-> run[r].sha.ver + 1]
    BY <1>2 DEF Renew, TypeOK, RunState
  <2>3. run'[r].sha \in ClaimCommit /\ run'[r].sha.tok = r
    BY <2>1, <2>2 DEF ClaimCommit
  <2> QED  BY <2>3, ConstantsAssumption DEF ClaimCommit
<1>3. CASE Attach(r) \/ AttachResume(r) \/ Prepare(r) \/ CrashRunner(r)
  <2>1. CASE Attach(r) \/ AttachResume(r)
    BY ZenonT(60), <2>1 DEF Attach, AttachResume, Go, Active, Publishing, TypeOK
  <2>2. CASE Prepare(r) \/ CrashRunner(r)
    <3>1. pc[r] \in Active /\ run' = run
      BY <2>2 DEF Prepare, CrashRunner, Crash, Active, Publishing, TypeOK
    <3> QED  BY <3>1 DEF ClaimOwned
  <2> QED  BY <1>3, <2>1, <2>2
<1>4. CASE Execute(r) \/ Done(r) \/ Turn(r)
  <2>1. pc[r] = "working" /\ run'[r].sha = run[r].sha
    BY <1>4 DEF Execute, Done, Turn, StartPublish, InSession, TypeOK, RunState
  <2> QED  BY <2>1 DEF ClaimOwned, Active
<1>5. CASE Release(r) \/ HandoffPush(r) \/ HandoffRelease(r)
  <2>1. pc[r] \in {"working", "handoff"} /\ run'[r].sha = run[r].sha
    BY <1>5 DEF Release, HandoffPush, HandoffRelease, InSession, TypeOK, RunState
  <2> QED  BY <2>1 DEF ClaimOwned, Active
<1>6. CASE PublishStep(r)
  <2>1. pc[r] \in Publishing /\ run'[r].sha = run[r].sha
    BY <1>6 DEF PublishStep, FetchMain, CheckClaim, ReadMain, Rebase, Push,
                Publishing, TypeOK, RunState
  <2> QED  BY <2>1 DEF ClaimOwned, Active
<1> QED  BY <1>1, <1>2, <1>3, <1>4, <1>5, <1>6 DEF RunStep

LEMMA ClaimOwnedStep ==
  ASSUME TypeOK, ClaimOwned, [Next]_vars
  PROVE  ClaimOwned'
<1> SUFFICES ASSUME NEW x \in Runs, pc'[x] \in Active
             PROVE  run'[x].sha # NoClaim /\ run'[x].sha.tok = x
  BY DEF ClaimOwned
<1>1. CASE UNCHANGED vars
  BY <1>1 DEF vars, ClaimOwned
<1>2. ASSUME NEW r \in Runs, RunStep(r)
      PROVE  run'[x].sha # NoClaim /\ run'[x].sha.tok = x
  <2>1. CASE x = r
    BY <1>2, <2>1, OwnStep
  <2>2. CASE x # r
    BY <1>2, <2>2, OtherRuns DEF ClaimOwned, Active, Publishing
  <2> QED  BY <2>1, <2>2
<1>3. ASSUME NEW h \in Hosts, LifecycleFetch(h) \/ LifecyclePush(h) \/ CrashServer(h)
      PROVE  run'[x].sha # NoClaim /\ run'[x].sha.tok = x
  BY <1>3, EnvironmentRuns DEF ClaimOwned, Active, Publishing, Ended
<1> QED  BY <1>1, <1>2, <1>3 DEF Next

-----------------------------------------------------------------------------
(* main only grows.                                                        *)

\* An accepted push extends main: the base of the result can only be main itself.
LEMMA PushExtends ==
  ASSUME TypeOK, RebaseOrdered, NEW r \in Runs, pc[r] = "push", LeasesHold(r)
  PROVE  /\ loop[r].mode = "result" => Pushed(r) = main \o run[r].wt.own
         /\ loop[r].mode # "result" => Pushed(r) = Append(main, CommitOf(r, "failure"))
         /\ IsPrefix(main, Pushed(r))
<1>1. main \in History /\ main = loop[r].seen
  BY DEF TypeOK, LeasesHold
<1>2. CASE loop[r].mode = "result"
  <2>1. IsPrefix(main, run[r].wt.base) /\ IsPrefix(run[r].wt.base, main)
    BY <1>1, <1>2 DEF RebaseOrdered
  <2>2. run[r].wt.base = main
    BY <1>1, <2>1, RunFields, PrefixAntisymmetric DEF History
  <2> QED  BY <1>1, <1>2, <2>2, RunFields, PrefixOfConcat DEF Pushed, History
<1>3. CASE loop[r].mode # "result"
  <2>1. CommitOf(r, "failure") \in Commit
    BY CommitOfType DEF Kinds
  <2> QED  BY <1>1, <1>3, <2>1, PrefixOfAppend DEF Pushed, History
<1> QED  BY <1>2, <1>3

\* Only a push of a run or of the lifecycle publisher moves main.
LEMMA MainMoves ==
  ASSUME [Next]_vars
  PROVE  main' = main \/ (\E r \in Runs : Push(r)) \/ (\E h \in Hosts : LifecyclePush(h))
BY ZenonT(60) DEF Next, RunStep, PublishStep, vars, remote, Attach, AttachResume, Acquire,
   Takeover, Prepare, Execute, Done, StartPublish, Turn, Renew, Release,
   HandoffPush, HandoffRelease, FetchMain, CheckClaim, ReadMain, Rebase,
   LifecycleFetch, CrashServer, CrashRunner, Crash

LEMMA MainGrows ==
  ASSUME TypeOK, RebaseOrdered, [Next]_vars
  PROVE  IsPrefix(main, main')
<1> main \in Seq(Commit)
  BY DEF TypeOK, History
<1>1. CASE main' = main
  BY <1>1, PrefixReflexive
<1>2. ASSUME NEW r \in Runs, Push(r), main' # main
      PROVE  IsPrefix(main, main')
  BY <1>2, PushExtends DEF Push, AtomicPush, remote
<1>3. ASSUME NEW h \in Hosts, LifecyclePush(h), main' # main
      PROVE  IsPrefix(main, main')
  <2>1. PICK n \in Nodes :
          main' = Append(main, [tok |-> NoRun, node |-> n, kind |-> "lifecycle"])
    BY <1>3 DEF LifecyclePush
  <2>2. [tok |-> NoRun, node |-> n, kind |-> "lifecycle"] \in Commit
    BY DEF Commit, Kinds
  <2> QED  BY <2>1, <2>2, PrefixOfAppend
<1>4. main' = main \/ (\E r \in Runs : Push(r)) \/ (\E h \in Hosts : LifecyclePush(h))
  BY MainMoves
<1> QED  BY <1>1, <1>2, <1>3, <1>4

-----------------------------------------------------------------------------
(* Tracking refs.                                                          *)

LEMMA TrackingMoves ==
  ASSUME TypeOK, [Next]_vars, NEW h \in Hosts
  PROVE  tracking'[h] = tracking[h] \/ (tracking'[h] = main /\ main' = main)
<1> USE DEF TypeOK, remote, others
<1>1. CASE UNCHANGED vars
  BY <1>1 DEF vars
<1>2. ASSUME NEW r \in Runs, RunStep(r)
      PROVE  tracking'[h] = tracking[h] \/ (tracking'[h] = main /\ main' = main)
  <2>1. CASE Attach(r) \/ AttachResume(r) \/ FetchMain(r)
    BY <2>1 DEF Attach, AttachResume, FetchMain
  <2>2. CASE ~(Attach(r) \/ AttachResume(r) \/ FetchMain(r))
    BY <1>2, <2>2 DEF RunStep, PublishStep, Acquire, Takeover, Prepare, Execute, Done,
       StartPublish, Turn, Renew, Release, HandoffPush, HandoffRelease, CheckClaim,
       ReadMain, Rebase, Push, CrashRunner, Crash
  <2> QED  BY <2>1, <2>2
<1>3. ASSUME NEW g \in Hosts, LifecycleFetch(g) \/ LifecyclePush(g) \/ CrashServer(g)
      PROVE  tracking'[h] = tracking[h] \/ (tracking'[h] = main /\ main' = main)
  BY <1>3 DEF LifecycleFetch, LifecyclePush, CrashServer, Crash
<1> QED  BY <1>1, <1>2, <1>3 DEF Next

LEMMA TrackingStep ==
  ASSUME TypeOK, TypeOK', RebaseOrdered, TrackingBehind, [Next]_vars, NEW h \in Hosts
  PROVE  IsPrefix(tracking[h], tracking'[h]) /\ IsPrefix(tracking'[h], main')
<1> /\ main \in Seq(Commit) /\ main' \in Seq(Commit)
    /\ tracking[h] \in Seq(Commit) /\ tracking'[h] \in Seq(Commit)
  BY DEF TypeOK, History
<1>1. IsPrefix(tracking[h], main) /\ IsPrefix(main, main')
  BY MainGrows DEF TrackingBehind
<1>2. CASE tracking'[h] = tracking[h]
  BY <1>1, <1>2, PrefixReflexive, PrefixTransitive
<1>3. CASE tracking'[h] = main /\ main' = main
  BY <1>1, <1>3, PrefixReflexive
<1> QED  BY <1>2, <1>3, TrackingMoves

-----------------------------------------------------------------------------
(* The publish loop.                                                       *)

\* How a run can get to its rebase or its push.
LEMMA LoopMoves ==
  ASSUME TypeOK, NEW r \in Runs, RunStep(r), pc'[r] \in {"rebase", "push"}
  PROVE  \/ /\ ReadMain(r) /\ tracking' = tracking
            /\ loop'[r].seen = tracking[HostOf[r]] /\ loop'[r].mode = loop[r].mode
            /\ pc'[r] = "rebase" => loop[r].mode = "result"
            /\ pc'[r] = "push" => loop[r].mode # "result"
         \/ /\ pc[r] = "rebase" /\ pc'[r] = "push" /\ tracking' = tracking /\ main' = main
            /\ loop'[r] = loop[r] /\ run'[r].wt.base = tracking[HostOf[r]]
<1> USE DEF TypeOK, Go, Leave, others
<1>1. CASE ReadMain(r)
  BY <1>1 DEF ReadMain, LoopState
<1>2. CASE Rebase(r)
  <2>1. ~Unpublished(r)
    BY DEF Unpublished
  <2>2. run'[r].wt = [base |-> tracking[HostOf[r]], own |-> run[r].wt.own]
    BY <1>2, <2>1 DEF Rebase, RunState
  <2> QED  BY <1>2, <2>1, <2>2 DEF Rebase, remote
<1>3. ~FetchMain(r) /\ ~CheckClaim(r) /\ ~Push(r)
  BY DEF FetchMain, CheckClaim, Push, PublishFails, Fenced, AnotherAttempt, Unpublished
<1>4. ~Attach(r) /\ ~AttachResume(r) /\ ~Acquire(r) /\ ~Takeover(r) /\ ~Prepare(r)
  BY DEF Attach, AttachResume, Acquire, Takeover, Claim, Prepare
<1>5. ~Execute(r) /\ ~Done(r) /\ ~Turn(r) /\ ~Renew(r) /\ ~Release(r)
  BY DEF Execute, Done, StartPublish, Turn, Renew, Release, InSession
<1>6. ~HandoffPush(r) /\ ~HandoffRelease(r) /\ ~CrashRunner(r)
  BY DEF HandoffPush, HandoffRelease, CrashRunner, Crash, Alive
<1> QED  BY <1>1, <1>2, <1>3, <1>4, <1>5, <1>6 DEF RunStep, PublishStep

LEMMA RebaseOrderedStep ==
  ASSUME ProtocolInv, TypeOK', [Next]_vars
  PROVE  RebaseOrdered'
<1> USE DEF ProtocolInv
<1> SUFFICES ASSUME NEW x \in Runs
    PROVE  /\ pc'[x] = "rebase" => /\ loop'[x].mode = "result"
                                   /\ IsPrefix(loop'[x].seen, tracking'[HostOf[x]])
           /\ (pc'[x] = "push" /\ loop'[x].mode = "result") =>
                  /\ IsPrefix(loop'[x].seen, run'[x].wt.base)
                  /\ IsPrefix(run'[x].wt.base, main')
  BY DEF RebaseOrdered
<1>1. HostOf[x] \in Hosts
  BY ConstantsAssumption
<1>2. /\ IsPrefix(tracking[HostOf[x]], tracking'[HostOf[x]])
      /\ IsPrefix(tracking[HostOf[x]], main)
      /\ IsPrefix(main, main')
  BY <1>1, TrackingStep, MainGrows DEF TrackingBehind
<1>3. /\ main \in Seq(Commit) /\ main' \in Seq(Commit)
      /\ tracking[HostOf[x]] \in Seq(Commit) /\ tracking'[HostOf[x]] \in Seq(Commit)
      /\ loop[x].seen \in Seq(Commit) /\ run[x].wt.base \in Seq(Commit)
  BY <1>1, RunFields DEF TypeOK, History
\* A run that stays where it was keeps its place behind refs that only move forward.
<1>4. ASSUME run'[x] = run[x], loop'[x] = loop[x], pc'[x] = pc[x]
      PROVE  /\ pc'[x] = "rebase" => /\ loop'[x].mode = "result"
                                     /\ IsPrefix(loop'[x].seen, tracking'[HostOf[x]])
             /\ (pc'[x] = "push" /\ loop'[x].mode = "result") =>
                    /\ IsPrefix(loop'[x].seen, run'[x].wt.base)
                    /\ IsPrefix(run'[x].wt.base, main')
  <2>1. CASE pc[x] = "rebase"
    <3>1. loop[x].mode = "result" /\ IsPrefix(loop[x].seen, tracking[HostOf[x]])
      BY <2>1 DEF RebaseOrdered
    <3>2. IsPrefix(loop[x].seen, tracking'[HostOf[x]])
      BY <1>2, <1>3, <3>1, PrefixTransitive
    <3> QED  BY <1>4, <2>1, <3>1, <3>2
  <2>2. CASE pc[x] = "push" /\ loop[x].mode = "result"
    <3>1. IsPrefix(loop[x].seen, run[x].wt.base) /\ IsPrefix(run[x].wt.base, main)
      BY <2>2 DEF RebaseOrdered
    <3>2. IsPrefix(run[x].wt.base, main')
      BY <1>2, <1>3, <3>1, PrefixTransitive
    <3> QED  BY <1>4, <2>2, <3>1, <3>2
  <2> QED  BY <1>4, <2>1, <2>2
<1>5. CASE UNCHANGED vars
  BY <1>4, <1>5 DEF vars
<1>6. ASSUME NEW h \in Hosts, LifecycleFetch(h) \/ LifecyclePush(h) \/ CrashServer(h)
      PROVE  (run'[x] = run[x] /\ loop'[x] = loop[x] /\ pc'[x] = pc[x])
             \/ pc'[x] \notin {"rebase", "push"}
  BY <1>6, EnvironmentRuns DEF Ended
<1>7. ASSUME NEW r \in Runs, RunStep(r), x # r
      PROVE  (run'[x] = run[x] /\ loop'[x] = loop[x] /\ pc'[x] = pc[x])
             \/ pc'[x] \notin {"rebase", "push"}
  BY <1>7, OtherRuns
<1>8. ASSUME RunStep(x), pc'[x] \in {"rebase", "push"}
      PROVE  /\ pc'[x] = "rebase" => /\ loop'[x].mode = "result"
                                     /\ IsPrefix(loop'[x].seen, tracking'[HostOf[x]])
             /\ (pc'[x] = "push" /\ loop'[x].mode = "result") =>
                    /\ IsPrefix(loop'[x].seen, run'[x].wt.base)
                    /\ IsPrefix(run'[x].wt.base, main')
  <2>1. CASE ReadMain(x) /\ tracking' = tracking
             /\ loop'[x].seen = tracking[HostOf[x]] /\ loop'[x].mode = loop[x].mode
             /\ (pc'[x] = "rebase" => loop[x].mode = "result")
             /\ (pc'[x] = "push" => loop[x].mode # "result")
    BY <1>3, <2>1, PrefixReflexive
  <2>2. CASE pc[x] = "rebase" /\ pc'[x] = "push" /\ tracking' = tracking /\ main' = main
             /\ loop'[x] = loop[x] /\ run'[x].wt.base = tracking[HostOf[x]]
    BY <1>2, <2>2 DEF RebaseOrdered
  <2> QED  BY <1>8, <2>1, <2>2, LoopMoves
<1> QED  BY <1>4, <1>5, <1>6, <1>7, <1>8 DEF Next

\* How a run can be in the publish loop with its own result.
LEMMA ResultMoves ==
  ASSUME TypeOK, NEW r \in Runs, RunStep(r),
         pc'[r] \in Publishing, loop'[r].mode = "result"
  PROVE  \/ run'[r].wt = Committed(r, "result")
         \/ /\ pc[r] \in Publishing /\ loop[r].mode = "result"
            /\ run'[r].wt.own = run[r].wt.own
<1> USE DEF TypeOK, Go, Leave, others, RunState, Publishing
<1>1. CASE Execute(r) \/ Done(r)
  BY <1>1 DEF Execute, Done, StartPublish
<1>2. CASE FetchMain(r)
  BY <1>2 DEF FetchMain, PublishFails
<1>3. CASE CheckClaim(r)
  BY <1>3 DEF CheckClaim, Fenced
<1>4. CASE ReadMain(r)
  BY <1>4 DEF ReadMain, LoopState
<1> DEFINE failureLoop == [NoLoop EXCEPT !.mode = "failure"]
<1>5. failureLoop.mode = "failure"
  BY DEF NoLoop
<1>6. Unpublished(r) =>
        loop'[r] = failureLoop \/ pc'[r] \in {"conflict", "working"}
  BY DEF Unpublished
<1>7. ~Unpublished(r)
  BY <1>5, <1>6
<1>8. CASE Rebase(r)
  <2>1. run'[r].wt = [base |-> tracking[HostOf[r]], own |-> run[r].wt.own]
    BY <1>8, <1>7 DEF Rebase
  <2> QED  BY <1>7, <1>8, <2>1 DEF Rebase
<1>9. CASE Push(r)
  <2>1. loop'[r].mode = loop[r].mode
    <3>1. AnotherAttempt(r)
      BY <1>9 DEF Push, PublishFails
    <3> QED  BY <1>7, <3>1 DEF AnotherAttempt, LoopState
  <2> QED  BY <1>9, <2>1 DEF Push
<1>10. ~Attach(r) /\ ~AttachResume(r) /\ ~Acquire(r) /\ ~Takeover(r) /\ ~Prepare(r)
  BY ZenonT(60) DEF Attach, AttachResume, Acquire, Takeover, Claim, Prepare
<1>11. ~Turn(r) /\ ~Renew(r) /\ ~Release(r) /\ ~HandoffPush(r) /\ ~HandoffRelease(r)
  BY DEF Turn, Renew, Release, InSession, HandoffPush, HandoffRelease
<1>12. ~CrashRunner(r)
  BY DEF CrashRunner, Crash, Alive, Ended
<1> QED  BY <1>1, <1>2, <1>3, <1>4, <1>8, <1>9, <1>10, <1>11, <1>12 DEF RunStep, PublishStep

LEMMA ResultLastStep ==
  ASSUME TypeOK, ResultLast, [Next]_vars
  PROVE  ResultLast'
<1> SUFFICES ASSUME NEW x \in Runs, pc'[x] \in Publishing, loop'[x].mode = "result"
             PROVE  run'[x].wt.own # <<>> /\ Last(run'[x].wt.own) = CommitOf(x, "result")
  BY DEF ResultLast, CommitOf
<1>1. CASE pc[x] \in Publishing /\ loop[x].mode = "result"
           /\ run'[x].wt.own = run[x].wt.own
  BY <1>1 DEF ResultLast
<1>2. CASE run'[x].wt = Committed(x, "result")
  <2>1. CommitOf(x, "result") \in Commit /\ run[x].wt.own \in Seq(Commit)
    BY CommitOfType, RunFields DEF Kinds, History
  <2>2. run'[x].wt.own = Append(run[x].wt.own, CommitOf(x, "result"))
    BY SMTT(30), <1>2 DEF Committed
  <2> QED  BY SMTT(30), <2>1, <2>2, AppendProperties DEF Last
<1>3. CASE UNCHANGED vars
  BY <1>1, <1>3 DEF vars
<1>4. ASSUME NEW r \in Runs, RunStep(r)
      PROVE  \/ pc[x] \in Publishing /\ loop[x].mode = "result"
                /\ run'[x].wt.own = run[x].wt.own
             \/ run'[x].wt = Committed(x, "result")
  <2>1. CASE x = r
    BY <1>4, <2>1, ResultMoves
  <2>2. CASE x # r
    BY <1>4, <2>2, OtherRuns DEF Publishing
  <2> QED  BY <2>1, <2>2
<1>5. ASSUME NEW h \in Hosts, LifecycleFetch(h) \/ LifecyclePush(h) \/ CrashServer(h)
      PROVE  pc[x] \in Publishing /\ loop[x].mode = "result"
             /\ run'[x].wt.own = run[x].wt.own
  BY <1>5, EnvironmentRuns DEF Publishing, Ended
<1> QED  BY <1>1, <1>2, <1>3, <1>4, <1>5 DEF Next

-----------------------------------------------------------------------------
(* The invariant.                                                          *)

LEMMA InitInv == Init => ProtocolInv
<1> SUFFICES ASSUME Init  PROVE ProtocolInv
  OBVIOUS
<1>1. [base |-> <<>>, own |-> <<>>] \in Tip
  BY EmptyHistory DEF Tip
<1>2. IdleRun \in RunState
  BY <1>1 DEF IdleRun, RunState
<1>3. "idle" \in Pcs
  BY DEF Pcs
<1>4. TypeOK
  BY <1>2, <1>3, NoLoopType, EmptyHistory DEF Init, TypeOK
<1>5. ClaimOwned /\ ResultLast /\ RebaseOrdered
  BY DEF Init, ClaimOwned, ResultLast, RebaseOrdered, Active, Publishing
<1>6. TrackingBehind
  BY EmptySeq, PrefixReflexive DEF Init, TrackingBehind
<1> QED  BY <1>4, <1>5, <1>6 DEF ProtocolInv

LEMMA InvStep == ProtocolInv /\ [Next]_vars => ProtocolInv'
<1> SUFFICES ASSUME ProtocolInv, [Next]_vars  PROVE ProtocolInv'
  OBVIOUS
<1>1. TypeOK'
  BY TypeStep DEF ProtocolInv
<1>2. ClaimOwned'
  BY ClaimOwnedStep DEF ProtocolInv
<1>3. TrackingBehind'
  BY <1>1, TrackingStep DEF ProtocolInv, TrackingBehind
<1>4. RebaseOrdered'
  BY <1>1, RebaseOrderedStep
<1>5. ResultLast'
  BY ResultLastStep DEF ProtocolInv
<1> QED  BY <1>1, <1>2, <1>3, <1>4, <1>5 DEF ProtocolInv

\* The protocol's state is well typed and ordered: claims are owned by the token they
\* name, tracking refs lag behind main, and a rebased result sits between
\* main_sha_before and main (claims.rs, publish.rs).
THEOREM ProtocolInvariant == Spec => []ProtocolInv
<1>1. Init => ProtocolInv
  BY InitInv
<1>2. ProtocolInv /\ [Next]_vars => ProtocolInv'
  BY InvStep
<1> QED  BY <1>1, <1>2, PTL DEF Spec

\* No publish ever drops a commit from main (publish.rs: three forced pushes, each
\* with a lease on main and two of them after a rebase or in a scratch worktree).
THEOREM MainOnlyGrows == Spec => MainKeepsEveryCommit
<1>1. ProtocolInv /\ [Next]_vars => [IsPrefix(main, main')]_main
  BY MainGrows DEF ProtocolInv
<1> QED  BY <1>1, ProtocolInvariant, PTL DEF Spec, MainKeepsEveryCommit

-----------------------------------------------------------------------------
(* The protocol implements the exclusive ledger.                           *)

\* A claim commit replaced by another one changes the holder to its token.
LEMMA HolderAfterClaim ==
  ASSUME TypeOK, NEW n \in Nodes, NEW c \in ClaimCommit \cup {NoClaim},
         claims' = [claims EXCEPT ![n] = c]
  PROVE  Holder' = [Holder EXCEPT ![n] = HolderOf(c)]
BY DEF TypeOK, Holder, HolderOf

LEMMA HolderUnchanged ==
  ASSUME UNCHANGED claims
  PROVE  UNCHANGED Holder
BY DEF Holder, HolderOf

\* An accepted first claim, answered or not, takes the node.
LEMMA ClaimTakes ==
  ASSUME TypeOK, NEW r \in Runs, NEW gen \in Nat, UNCHANGED main,
         claims[NodeOf[r]] = NoClaim \/ AllowTakeover,
         claims' = [claims EXCEPT ![NodeOf[r]] = FirstClaim(r, gen)]
  PROVE  Ledger!Next
<1>1. NodeOf[r] \in Nodes
  BY ConstantsAssumption
<1>2. FirstClaim(r, gen) \in ClaimCommit /\ FirstClaim(r, gen).tok = r
  BY DEF FirstClaim, ClaimCommit
<1>3. HolderOf(FirstClaim(r, gen)) = r
  BY <1>2, ConstantsAssumption DEF HolderOf, ClaimCommit
<1>4. Holder' = [Holder EXCEPT ![NodeOf[r]] = r]
  BY <1>1, <1>2, <1>3, HolderAfterClaim
<1>5. Holder[NodeOf[r]] = NoRun \/ AllowTakeover
  BY <1>1 DEF Holder, HolderOf
<1>6. Ledger!Take(NodeOf[r], r)
  BY <1>4, <1>5 DEF Ledger!Take
<1> QED  BY <1>1, <1>6 DEF Ledger!Next

\* A deleted claim gives the node up; a deletion the remote refuses changes nothing.
LEMMA DeleteGivesUp ==
  ASSUME TypeOK, NEW r \in Runs, DeleteClaim(r) \/ UNCHANGED claims, UNCHANGED main,
         run[r].sha # NoClaim
  PROVE  Ledger!Next \/ UNCHANGED <<main, Holder>>
<1>1. NodeOf[r] \in Nodes
  BY ConstantsAssumption
<1>2. CASE UNCHANGED claims
  BY <1>2, HolderUnchanged
<1>3. CASE claims[NodeOf[r]] = run[r].sha
           /\ claims' = [claims EXCEPT ![NodeOf[r]] = NoClaim]
  <2>1. Holder' = [Holder EXCEPT ![NodeOf[r]] = NoRun]
    BY <1>1, <1>3, HolderAfterClaim DEF HolderOf
  <2>2. Holder[NodeOf[r]] # NoRun
    <3>1. run[r].sha \in ClaimCommit
      BY RunFields
    <3> QED  BY <1>1, <1>3, <3>1, ConstantsAssumption DEF Holder, HolderOf, ClaimCommit
  <2>3. Ledger!GiveUp(NodeOf[r])
    BY <2>1, <2>2 DEF Ledger!GiveUp
  <2> QED  BY <1>1, <2>3 DEF Ledger!Next
<1> QED  BY <1>2, <1>3 DEF DeleteClaim

\* A renewal keeps the token, so it keeps the holder.
LEMMA RenewKeepsHolder ==
  ASSUME TypeOK, ClaimOwned, NEW r \in Runs, Renew(r)
  PROVE  UNCHANGED <<main, Holder>>
<1> DEFINE next == [tok |-> run[r].sha.tok, gen |-> run[r].sha.gen,
                    ver |-> run[r].sha.ver + 1]
<1>1. NodeOf[r] \in Nodes
  BY ConstantsAssumption
<1>2. run[r].sha \in ClaimCommit
  BY RunFields DEF Renew, InSession, ClaimOwned, Active
<1>3. next \in ClaimCommit /\ next.tok = run[r].sha.tok
  BY <1>2 DEF ClaimCommit
<1>4. UNCHANGED claims
      \/ (claims[NodeOf[r]] = run[r].sha /\ claims' = [claims EXCEPT ![NodeOf[r]] = next])
  BY DEF Renew
<1> HIDE DEF next
<1>5. CASE claims[NodeOf[r]] = run[r].sha /\ claims' = [claims EXCEPT ![NodeOf[r]] = next]
  <2>1. HolderOf(next) = run[r].sha.tok /\ HolderOf(run[r].sha) = run[r].sha.tok
    BY <1>2, <1>3, ConstantsAssumption DEF HolderOf, ClaimCommit
  <2>2. Holder' = [Holder EXCEPT ![NodeOf[r]] = HolderOf(next)]
    BY <1>1, <1>3, <1>5, HolderAfterClaim
  <2>3. Holder[NodeOf[r]] = HolderOf(next)
    BY <1>1, <1>5, <2>1 DEF Holder
  <2> QED  BY <2>2, <2>3 DEF Renew, Holder
<1> QED  BY <1>4, <1>5, HolderUnchanged DEF Renew

\* An accepted push publishes for the run's node and gives it up in the same step.
LEMMA PushPublishes ==
  ASSUME ProtocolInv, NEW r \in Runs, pc[r] = "push", LeasesHold(r), AtomicPush(r)
  PROVE  Ledger!Next
<1> USE DEF ProtocolInv
<1>1. NodeOf[r] \in Nodes
  BY ConstantsAssumption
<1>2. run[r].sha \in ClaimCommit /\ run[r].sha.tok = r
  BY RunFields DEF ClaimOwned, Active, Publishing
<1>3. Holder[NodeOf[r]] = r
  BY <1>1, <1>2, ConstantsAssumption DEF LeasesHold, Holder, HolderOf, ClaimCommit
<1>4. Holder' = [Holder EXCEPT ![NodeOf[r]] = NoRun]
  BY <1>1, HolderAfterClaim DEF AtomicPush, HolderOf
<1>5. main \in Seq(Commit) /\ Len(main) \in Nat /\ run[r].wt.own \in Seq(Commit)
  BY RunFields, LenProperties DEF TypeOK, History
<1>6. /\ IsPrefix(main, main')
      /\ Len(main') > Len(main)
      /\ Last(main').tok = r /\ Last(main').node = NodeOf[r]
  <2>1. main' = Pushed(r) /\ IsPrefix(main, main')
    BY PushExtends DEF AtomicPush
  <2>2. CASE loop[r].mode = "result"
    <3>1. main' = main \o run[r].wt.own
      BY <2>1, <2>2, PushExtends
    <3>2. run[r].wt.own # <<>> /\ Last(run[r].wt.own) = CommitOf(r, "result")
      BY <2>2 DEF ResultLast, Publishing
    <3>3. Len(run[r].wt.own) \in Nat /\ Len(run[r].wt.own) # 0
      BY <1>5, <3>2, LenProperties, EmptySeq
    <3>4. /\ Len(main') = Len(main) + Len(run[r].wt.own)
          /\ main'[Len(main) + Len(run[r].wt.own)] = run[r].wt.own[Len(run[r].wt.own)]
      BY <1>5, <3>1, <3>3, ConcatProperties
    <3>5. Last(main') = CommitOf(r, "result")
      BY <3>2, <3>4 DEF Last
    <3> QED  BY <1>5, <2>1, <3>3, <3>4, <3>5 DEF CommitOf
  <2>3. CASE loop[r].mode # "result"
    <3>1. main' = Append(main, CommitOf(r, "failure"))
      BY <2>1, <2>3, PushExtends
    <3>2. CommitOf(r, "failure") \in Commit
      BY CommitOfType DEF Kinds
    <3>3. Len(main') = Len(main) + 1 /\ main'[Len(main) + 1] = CommitOf(r, "failure")
      BY <1>5, <3>1, <3>2, PrefixOfAppend
    <3> QED  BY <1>5, <2>1, <3>3 DEF Last, CommitOf
  <2> QED  BY <2>2, <2>3
<1>7. Ledger!Publish(NodeOf[r], r)
  BY <1>3, <1>4, <1>6 DEF Ledger!Publish, Ledger!IsPrefix, IsPrefix, Ledger!Last, Last
<1> QED  BY <1>1, <1>7 DEF Ledger!Next

\* A lifecycle commit is a maintenance entry.
LEMMA LifecycleMaintains ==
  ASSUME TypeOK, NEW h \in Hosts, LifecyclePush(h)
  PROVE  Ledger!Next \/ UNCHANGED <<main, Holder>>
<1>1. UNCHANGED Holder
  BY HolderUnchanged DEF LifecyclePush
<1>2. CASE main' = main
  BY <1>1, <1>2
<1>3. ASSUME NEW n \in Nodes,
             main' = Append(main, [tok |-> NoRun, node |-> n, kind |-> "lifecycle"])
      PROVE  Ledger!Next
  <2>1. [tok |-> NoRun, node |-> n, kind |-> "lifecycle"] \in Commit
    BY DEF Commit, Kinds
  <2>2. /\ IsPrefix(main, main')
        /\ Len(main') = Len(main) + 1
        /\ main'[Len(main) + 1] = [tok |-> NoRun, node |-> n, kind |-> "lifecycle"]
    BY <1>3, <2>1, PrefixOfAppend DEF TypeOK, History
  <2>3. Ledger!Maintain
    BY <1>1, <2>2 DEF Ledger!Maintain, Ledger!IsPrefix, IsPrefix, Ledger!Last, Last
  <2> QED  BY <2>3 DEF Ledger!Next
<1> QED  BY <1>2, <1>3 DEF LifecyclePush

\* Every step is a step of the ledger or leaves it alone.
LEMMA LedgerStep ==
  ASSUME ProtocolInv, [Next]_vars
  PROVE  Ledger!Next \/ UNCHANGED <<main, Holder>>
<1> USE DEF ProtocolInv
<1>1. CASE UNCHANGED <<main, claims>>
  BY <1>1, HolderUnchanged
<1>2. ASSUME NEW r \in Runs, RunStep(r), ~UNCHANGED <<main, claims>>
      PROVE  Ledger!Next \/ UNCHANGED <<main, Holder>>
  <2>1. CASE Acquire(r)
    <3>1. run[r].gen \in Nat
      BY RunFields
    <3>2. /\ UNCHANGED main /\ claims[NodeOf[r]] = NoClaim
          /\ claims' = [claims EXCEPT ![NodeOf[r]] = FirstClaim(r, run[r].gen)]
      BY <1>2, <2>1 DEF Acquire, Claim
    <3> QED  BY <3>1, <3>2, ClaimTakes
  <2>2. CASE Takeover(r)
    <3>1. NodeOf[r] \in Nodes
      BY ConstantsAssumption
    <3>2. claims[NodeOf[r]].gen + 1 \in Nat
      BY <2>2, <3>1 DEF Takeover, TypeOK, ClaimCommit
    <3> QED  BY <2>2, <3>2, ClaimTakes DEF Takeover, Claim
  <2>3. CASE Renew(r)
    BY <2>3, RenewKeepsHolder
  <2>4. CASE Release(r) \/ HandoffRelease(r)
    <3>1. /\ DeleteClaim(r) \/ UNCHANGED claims
          /\ UNCHANGED main
      BY <2>4 DEF Release, HandoffRelease
    <3>2. run[r].sha # NoClaim
      BY <2>4 DEF Release, HandoffRelease, InSession, ClaimOwned, Active
    <3> QED  BY <3>1, <3>2, DeleteGivesUp
  <2>5. CASE Push(r)
    <3>1. pc[r] = "push" /\ LeasesHold(r) /\ AtomicPush(r)
      BY <1>2, <2>5 DEF Push, remote
    <3> QED  BY <3>1, PushPublishes
  <2> QED  BY <1>2, <2>1, <2>2, <2>3, <2>4, <2>5 DEF RunStep, PublishStep, remote, others,
       Attach, AttachResume, Prepare, Execute, Done, StartPublish, Turn, HandoffPush,
       FetchMain, CheckClaim, ReadMain, Rebase, CrashRunner, Crash
<1>3. ASSUME NEW h \in Hosts, LifecyclePush(h)
      PROVE  Ledger!Next \/ UNCHANGED <<main, Holder>>
  BY <1>3, LifecycleMaintains
<1>4. ASSUME NEW h \in Hosts, LifecycleFetch(h) \/ CrashServer(h)
      PROVE  UNCHANGED <<main, claims>>
  BY <1>4 DEF LifecycleFetch, CrashServer, Crash, remote
<1> QED  BY <1>1, <1>2, <1>3, <1>4 DEF Next, vars, remote

\* With hosts, clones, retries and lost replies hidden, the protocol is a ledger that
\* only grows, where only the holder of a node publishes for it and gives the node up
\* by the same step (claims.rs, publish.rs, runner.rs, graph.rs).
THEOREM ImplementsExclusiveLedger == Spec => ImplementsLedger
<1>1. Init => Ledger!Init
  BY DEF Init, Ledger!Init, Holder, HolderOf
<1>2. ProtocolInv /\ [Next]_vars => [Ledger!Next]_(Ledger!avars)
  BY LedgerStep DEF Ledger!avars
<1> QED  BY <1>1, <1>2, ProtocolInvariant, PTL DEF Spec, ImplementsLedger, Ledger!Spec

-----------------------------------------------------------------------------
(* The history on main: who published what, and since when.                *)

\* The runs that are over.
Over == {r \in Runs : pc[r] \in Ended}

\* What a run commits is about its own node; commits of another run come from a ticket,
\* whose run is over.
OfRun(r, s, over) ==
    \A i \in 1 .. Len(s) : s[i].node = NodeOf[r] /\ s[i].tok \in {r} \cup over

OwnCommits ==
    \A r \in Runs : /\ OfRun(r, run[r].wt.own, Over)
                    /\ runRefs[r] # NoRef => OfRun(r, runRefs[r].own, Over)

\* A ticket stands for all that its session committed, and the session is over.
TicketsComplete ==
    \A r \in Runs :
        /\ r \in tickets => pc[r] \in Ended
        /\ (pc[r] = "handoff" \/ r \in tickets) /\ runRefs[r] # NoRef =>
             runRefs[r].own = run[r].wt.own

Resumed ==
    \A r \in Runs :
        /\ pc[r] = "idle" => run[r].from = NoRun
        /\ run[r].from # NoRun => /\ run[r].from \in tickets \ {r}
                                  /\ IsPrefix(run[run[r].from].wt.own, run[r].wt.own)

\* The run has yet to acquire its claim, or its claim is still in force.
MayPublish(r) ==
    /\ pc[r] \notin Ended
    /\ pc[r] \in {"idle", "acquire"} \/ claims[NodeOf[r]] = run[r].sha

\* Whoever may still publish has not done so.
OutcomeAhead ==
    \A r \in Runs : MayPublish(r) =>
        \A i \in 1 .. Len(main) : ~(main[i].tok = r /\ main[i].kind \in {"result", "failure"})

\* Nobody has published for the node of a claim in force since it was acquired.
TenureSoFar ==
    \A r \in Runs : MayPublish(r) /\ pc[r] \notin {"idle", "acquire"} =>
        \A i \in run[r].since + 1 .. Len(main) :
            main[i].node = NodeOf[r] => main[i].tok = NoRun

HistoryInv ==
    ProtocolInv /\ OwnCommits /\ TicketsComplete /\ Resumed /\ OutcomeAhead /\ TenureSoFar

\* A step of one run leaves the run refs of the others alone.
LEMMA OtherRefs ==
  ASSUME TypeOK, NEW r \in Runs, RunStep(r), NEW x \in Runs \ {r}
  PROVE  runRefs'[x] = runRefs[x]
<1>1. CASE Prepare(r) \/ Turn(r) \/ HandoffPush(r)
  BY <1>1 DEF Prepare, Turn, HandoffPush, TypeOK
<1>2. CASE Push(r)
  BY <1>2 DEF Push, AtomicPush, RunRefAfterPush, remote, TypeOK
<1>3. CASE ~(Prepare(r) \/ Turn(r) \/ HandoffPush(r) \/ Push(r))
  BY <1>3 DEF RunStep, PublishStep, remote, others, Attach, AttachResume, Acquire, Takeover,
     Execute, Done, StartPublish, Renew, Release, HandoffRelease, FetchMain, CheckClaim,
     ReadMain, Rebase, CrashRunner, Crash
<1> QED  BY <1>1, <1>2, <1>3

\* A run that is over stays over and keeps what it knows.
LEMMA EndedStays ==
  ASSUME TypeOK, [Next]_vars, NEW x \in Runs, pc[x] \in Ended
  PROVE  pc'[x] \in Ended /\ run'[x] = run[x] /\ runRefs'[x] = runRefs[x]
<1>1. CASE UNCHANGED vars
  BY <1>1 DEF vars, remote
<1>2. ASSUME NEW r \in Runs, RunStep(r), r # x
      PROVE  pc'[x] \in Ended /\ run'[x] = run[x] /\ runRefs'[x] = runRefs[x]
  <2>1. pc'[x] \in Ended /\ run'[x] = run[x]
    BY <1>2, OtherRuns DEF Ended
  <2>2. runRefs'[x] = runRefs[x]
    BY <1>2, OtherRefs
  <2> QED  BY <2>1, <2>2
<1>3. CASE RunStep(x)
  <2>1. CrashRunner(x)
    BY <1>3 DEF RunStep, PublishStep, Attach, AttachResume, Acquire, Takeover, Prepare,
       Execute, Turn, Renew, Release, HandoffPush, HandoffRelease, Done, InSession,
       FetchMain, CheckClaim, ReadMain, Rebase, Push, Ended
  <2> QED  BY <2>1 DEF CrashRunner, Crash, Alive, Ended, remote
<1>4. ASSUME NEW h \in Hosts, LifecycleFetch(h) \/ LifecyclePush(h) \/ CrashServer(h)
      PROVE  pc'[x] \in Ended /\ run'[x] = run[x] /\ runRefs'[x] = runRefs[x]
  BY <1>4, EnvironmentRuns DEF LifecycleFetch, LifecyclePush, CrashServer, Crash, remote,
     Ended, Alive, TypeOK
<1> QED  BY <1>1, <1>2, <1>3, <1>4 DEF Next

-----------------------------------------------------------------------------
\* Only the two attaches leave idle, and nothing returns to it.
LEMMA IdleMoves ==
  ASSUME TypeOK, [Next]_vars, NEW x \in Runs, pc'[x] \in {"idle", "acquire"}
  PROVE  pc[x] \in {"idle", "acquire"} /\ (pc'[x] = "idle" => pc[x] = "idle" /\ run'[x] = run[x])
<1>1. CASE UNCHANGED vars
  BY <1>1 DEF vars
<1>2. ASSUME NEW r \in Runs, RunStep(r), r # x
      PROVE  pc[x] \in {"idle", "acquire"} /\ (pc'[x] = "idle" => pc[x] = "idle" /\ run'[x] = run[x])
  BY <1>2, OtherRuns
<1>3. CASE RunStep(x)
  <2> USE DEF Go, Leave, TypeOK
  <2>1. CASE Attach(x) \/ AttachResume(x)
    BY <2>1 DEF Attach, AttachResume
  <2>2. CASE Acquire(x) \/ Takeover(x) \/ Prepare(x)
    BY <2>2 DEF Acquire, Takeover, Prepare, Claim
  <2>3. CASE Execute(x) \/ Done(x) \/ Turn(x) \/ Renew(x) \/ Release(x)
    BY <2>3 DEF Execute, Done, StartPublish, Turn, Renew, Release, InSession
  <2>4. CASE HandoffPush(x) \/ HandoffRelease(x) \/ CrashRunner(x)
    BY <2>4 DEF HandoffPush, HandoffRelease, InSession, CrashRunner, Crash, Alive
  <2>5. CASE FetchMain(x) \/ CheckClaim(x) \/ ReadMain(x) \/ Rebase(x)
    BY <2>5 DEF FetchMain, CheckClaim, ReadMain, Rebase, PublishFails, Fenced, Unpublished
  <2>6. CASE Push(x)
    BY <2>6 DEF Push, PublishFails, AnotherAttempt, Unpublished
  <2> QED  BY <1>3, <2>1, <2>2, <2>3, <2>4, <2>5, <2>6 DEF RunStep, PublishStep
<1>4. ASSUME NEW h \in Hosts, LifecycleFetch(h) \/ LifecyclePush(h) \/ CrashServer(h)
      PROVE  pc[x] \in {"idle", "acquire"} /\ (pc'[x] = "idle" => pc[x] = "idle" /\ run'[x] = run[x])
  BY <1>4 DEF LifecycleFetch, LifecyclePush, CrashServer, Crash, Alive, TypeOK
<1> QED  BY <1>1, <1>2, <1>3, <1>4 DEF Next

\* Where a session starts from when it is resumed.
ResumedFrom(r, old) ==
    /\ old \in tickets \ {r} /\ NodeOf[old] = NodeOf[r]
    /\ runRefs[old] # NoRef
    /\ run'[r].wt = runRefs[old] /\ run'[r].from = old

\* What one step does to a worktree: nothing, a fresh one, a resumed one, or one commit.
LEMMA OwnMoves ==
  ASSUME TypeOK, [Next]_vars, NEW x \in Runs
  PROVE  \/ run'[x].wt.own = run[x].wt.own /\ run'[x].from = run[x].from
         \/ pc[x] = "idle" /\ run'[x].wt.own = <<>> /\ run'[x].from = run[x].from
         \/ pc[x] = "idle" /\ \E old \in Runs : ResumedFrom(x, old)
         \/ /\ run'[x].from = run[x].from
            /\ \E k \in Kinds : run'[x].wt.own = Append(run[x].wt.own, CommitOf(x, k))
<1> DEFINE Moves ==
         \/ run'[x].wt.own = run[x].wt.own /\ run'[x].from = run[x].from
         \/ pc[x] = "idle" /\ run'[x].wt.own = <<>> /\ run'[x].from = run[x].from
         \/ pc[x] = "idle" /\ \E old \in Runs : ResumedFrom(x, old)
         \/ /\ run'[x].from = run[x].from
            /\ \E k \in Kinds : run'[x].wt.own = Append(run[x].wt.own, CommitOf(x, k))
<1> SUFFICES Moves
  OBVIOUS
<1>1. CASE run'[x] = run[x]
  BY <1>1
<1>2. CASE RunStep(x)
  <2>1. CASE Attach(x)
    BY <2>1 DEF Attach, TypeOK, RunState
  <2>2. CASE AttachResume(x)
    <3>1. PICK old \in tickets \ {x} :
            /\ NodeOf[old] = NodeOf[x]
            /\ IF runRefs[old] = NoRef
               THEN Go(x, "error") /\ UNCHANGED run
               ELSE /\ Go(x, "acquire")
                    /\ run' = [run EXCEPT ![x].wt = runRefs[old],
                                          ![x].gen = run[old].gen + 1,
                                          ![x].from = old]
      BY <2>2 DEF AttachResume
    <3>2. CASE runRefs[old] # NoRef
      <4>1. run'[x].wt = runRefs[old] /\ run'[x].from = old
        BY <3>1, <3>2 DEF TypeOK, RunState
      <4> QED  BY <2>2, <3>1, <3>2, <4>1 DEF AttachResume, ResumedFrom, TypeOK
    <3> QED  BY <1>1, <3>1, <3>2
  <2>3. ASSUME NEW k \in Kinds, run' = [run EXCEPT ![x].wt = Committed(x, k)]
        PROVE  Moves
    <3>1. run'[x].wt = Committed(x, k) /\ run'[x].from = run[x].from
      BY <2>3 DEF TypeOK, RunState
    <3> QED  BY SMTT(30), <3>1 DEF Committed
  <2>4. CASE Execute(x) \/ Done(x) \/ Turn(x) \/ HandoffPush(x)
    <3>1. "result" \in Kinds /\ "turn" \in Kinds /\ "handoff" \in Kinds
      BY DEF Kinds
    <3> QED  BY <1>1, <2>3, <2>4, <3>1 DEF Execute, Done, StartPublish, Turn, HandoffPush
  <2>5. CASE Acquire(x) \/ Takeover(x) \/ Renew(x)
    BY SMTT(30), <2>5 DEF Acquire, Takeover, Claim, Renew, TypeOK, RunState
  <2>6. CASE Rebase(x)
    BY <2>6 DEF Rebase, TypeOK, RunState, Tip
  <2>7. CASE Prepare(x) \/ Release(x) \/ HandoffRelease(x) \/ FetchMain(x) \/ CheckClaim(x)
             \/ ReadMain(x) \/ Push(x) \/ CrashRunner(x)
    BY <1>1, <2>7 DEF Prepare, Release, HandoffRelease, FetchMain, CheckClaim, ReadMain,
       Push, CrashRunner, Crash
  <2> QED  BY <1>2, <2>1, <2>2, <2>4, <2>5, <2>6, <2>7 DEF RunStep, PublishStep
<1>3. ASSUME NEW r \in Runs, RunStep(r), r # x  PROVE run'[x] = run[x]
  BY <1>3, OtherRuns
<1>4. ASSUME NEW h \in Hosts, LifecycleFetch(h) \/ LifecyclePush(h) \/ CrashServer(h)
      PROVE  run'[x] = run[x]
  BY <1>4, EnvironmentRuns
<1> QED  BY <1>1, <1>2, <1>3, <1>4 DEF Next, vars

\* What one step does to a run ref: it stays, goes, or becomes the worktree HEAD.
LEMMA RefMoves ==
  ASSUME TypeOK, [Next]_vars, NEW x \in Runs, runRefs'[x] # NoRef
  PROVE  \/ /\ runRefs'[x] = runRefs[x]
            /\ pc[x] \in {"handoff"} \cup Ended => run'[x].wt = run[x].wt
         \/ runRefs'[x] = run'[x].wt
<1> DEFINE Same == /\ runRefs'[x] = runRefs[x]
                   /\ pc[x] \in {"handoff"} \cup Ended => run'[x].wt = run[x].wt
<1>1. CASE UNCHANGED vars
  BY <1>1 DEF vars, remote
<1>2. ASSUME NEW r \in Runs, RunStep(r), r # x  PROVE Same
  BY <1>2, OtherRefs, OtherRuns
<1>3. CASE RunStep(x)
  <2>1. CASE Prepare(x) \/ Turn(x) \/ HandoffPush(x)
    <3>1. pc[x] \notin {"handoff"} \cup Ended
      BY <2>1 DEF Prepare, Turn, HandoffPush, InSession, Ended
    <3>2. runRefs'[x] = runRefs[x] \/ runRefs'[x] = run'[x].wt
      BY <2>1 DEF Prepare, Turn, HandoffPush, TypeOK, RunState
    <3> QED  BY <3>1, <3>2
  <2>2. CASE Push(x)
    BY <2>2 DEF Push, AtomicPush, RunRefAfterPush, remote, TypeOK
  <2>3. CASE HandoffRelease(x) \/ CrashRunner(x) \/ Release(x)
    BY <2>3 DEF HandoffRelease, CrashRunner, Crash, Release, remote
  <2>4. CASE Attach(x) \/ AttachResume(x) \/ Acquire(x) \/ Takeover(x)
    BY <2>4 DEF Attach, AttachResume, Acquire, Takeover, remote, Ended
  <2>5. CASE Execute(x) \/ Done(x) \/ Renew(x)
    BY <2>5 DEF Execute, Done, StartPublish, Renew, InSession, remote, Ended
  <2>6. CASE FetchMain(x) \/ CheckClaim(x) \/ ReadMain(x) \/ Rebase(x)
    BY <2>6 DEF FetchMain, CheckClaim, ReadMain, Rebase, remote, Ended
  <2> QED  BY <1>3, <2>1, <2>2, <2>3, <2>4, <2>5, <2>6 DEF RunStep, PublishStep
<1>4. ASSUME NEW h \in Hosts, LifecycleFetch(h) \/ LifecyclePush(h) \/ CrashServer(h)
      PROVE  Same
  BY <1>4, EnvironmentRuns DEF LifecycleFetch, LifecyclePush, CrashServer, Crash, remote
<1> QED  BY <1>1, <1>2, <1>3, <1>4 DEF Next

\* How a session gets to the second half of a handoff, and its ticket out.
LEMMA TicketMoves ==
  ASSUME TypeOK, [Next]_vars, NEW x \in Runs
  PROVE  /\ tickets \subseteq tickets'
         /\ x \in tickets' => x \in tickets \/ (pc[x] = "handoff" /\ pc'[x] \in Ended)
         /\ pc'[x] = "handoff" => pc[x] = "handoff" \/ runRefs'[x] = run'[x].wt
<1> DEFINE Moves ==
         /\ tickets \subseteq tickets'
         /\ x \in tickets' => x \in tickets \/ (pc[x] = "handoff" /\ pc'[x] \in Ended)
         /\ pc'[x] = "handoff" => pc[x] = "handoff" \/ runRefs'[x] = run'[x].wt
<1> USE DEF others
<1>1. CASE UNCHANGED vars
  BY <1>1 DEF vars, remote
<1>2. ASSUME NEW r \in Runs, RunStep(r)  PROVE Moves
  <2>1. tickets' = tickets \/ HandoffRelease(r)
    BY <1>2 DEF RunStep, PublishStep, Attach, AttachResume, Acquire, Takeover, Prepare,
       Execute, Done, StartPublish, Turn, Renew, Release, HandoffPush, FetchMain,
       CheckClaim, ReadMain, Rebase, Push, CrashRunner, Crash
  <2>2. tickets \subseteq tickets'
        /\ (x \in tickets' => x \in tickets \/ (pc[x] = "handoff" /\ pc'[x] \in Ended))
    BY <2>1 DEF HandoffRelease, Go, TypeOK, Ended
  <2>3. CASE r # x
    BY <1>2, <2>2, <2>3, OtherRuns
  <2>4. CASE r = x /\ pc'[x] = "handoff"
    <3>1. CASE HandoffPush(x)
      BY <2>2, <3>1 DEF HandoffPush, Go, TypeOK, RunState
    <3> USE DEF Go, Leave, TypeOK
    <3>2. ~Attach(x) /\ ~AttachResume(x) /\ ~Acquire(x) /\ ~Takeover(x) /\ ~Prepare(x)
      BY <2>4 DEF Attach, AttachResume, Acquire, Takeover, Prepare, Claim
    <3>3. ~Execute(x) /\ ~Done(x) /\ ~Turn(x) /\ ~Renew(x) /\ ~Release(x)
      BY <2>4 DEF Execute, Done, StartPublish, Turn, Renew, Release, InSession
    <3>4. ~HandoffRelease(x) /\ ~CrashRunner(x)
      BY <2>4 DEF HandoffRelease, CrashRunner, Crash, Alive, Ended
    <3>5. ~FetchMain(x) /\ ~CheckClaim(x) /\ ~ReadMain(x) /\ ~Rebase(x)
      BY <2>4 DEF FetchMain, CheckClaim, ReadMain, Rebase, PublishFails, Fenced, Unpublished
    <3>6. ~Push(x)
      BY <2>4 DEF Push, PublishFails, AnotherAttempt, Unpublished
    <3> QED  BY <1>2, <2>4, <3>1, <3>2, <3>3, <3>4, <3>5, <3>6 DEF RunStep, PublishStep
  <2> QED  BY <2>2, <2>3, <2>4
<1>3. ASSUME NEW h \in Hosts, LifecycleFetch(h) \/ LifecyclePush(h) \/ CrashServer(h)
      PROVE  Moves
  BY <1>3, EnvironmentRuns DEF LifecycleFetch, LifecyclePush, CrashServer, Crash, Alive, Ended, TypeOK
<1> QED  BY <1>1, <1>2, <1>3 DEF Next

-----------------------------------------------------------------------------
(* The commits of a run.                                                   *)

\* One more commit of the run itself.
LEMMA OfRunAppend ==
  ASSUME NEW x \in Runs, NEW s \in History, NEW k \in Kinds, NEW over, OfRun(x, s, over)
  PROVE  OfRun(x, Append(s, CommitOf(x, k)), over)
<1>1. CommitOf(x, k) \in Commit /\ s \in Seq(Commit) /\ Len(s) \in Nat
  BY CommitOfType, LenProperties DEF History
<1>2. /\ Len(Append(s, CommitOf(x, k))) = Len(s) + 1
      /\ \A i \in 1 .. Len(s) : Append(s, CommitOf(x, k))[i] = s[i]
      /\ Append(s, CommitOf(x, k))[Len(s) + 1] = CommitOf(x, k)
  BY <1>1, AppendProperties
<1> SUFFICES ASSUME NEW i \in 1 .. Len(s) + 1
             PROVE  /\ Append(s, CommitOf(x, k))[i].node = NodeOf[x]
                    /\ Append(s, CommitOf(x, k))[i].tok \in {x} \cup over
  BY <1>2 DEF OfRun
<1>3. CASE i \in 1 .. Len(s)
  BY <1>2, <1>3 DEF OfRun
<1>4. CASE i = Len(s) + 1
  BY <1>2, <1>4 DEF CommitOf
<1> QED  BY <1>1, <1>3, <1>4

LEMMA OwnCommitsStep ==
  ASSUME TypeOK, OwnCommits, TicketsComplete, [Next]_vars
  PROVE  OwnCommits'
<1> SUFFICES ASSUME NEW x \in Runs
             PROVE  /\ OfRun(x, run'[x].wt.own, Over')
                    /\ runRefs'[x] # NoRef => OfRun(x, runRefs'[x].own, Over')
  BY DEF OwnCommits
<1>1. Over \subseteq Over'
  BY EndedStays DEF Over
\* Who is over stays over, and the session behind a ticket is over.
<1>2. \A s : OfRun(x, s, Over) => OfRun(x, s, Over')
  BY <1>1 DEF OfRun
<1>3. ASSUME NEW old \in Runs, NodeOf[old] = NodeOf[x], old \in Over, NEW s, OfRun(old, s, Over)
      PROVE  OfRun(x, s, Over)
  BY <1>3 DEF OfRun
<1>4. OfRun(x, run[x].wt.own, Over) /\ run[x].wt.own \in History
  BY RunFields DEF OwnCommits
<1>5. OfRun(x, run'[x].wt.own, Over)
  <2>1. CASE run'[x].wt.own = run[x].wt.own
    BY <1>4, <2>1
  <2>2. CASE run'[x].wt.own = <<>>
    BY <2>2, EmptySeq DEF OfRun
  <2>3. ASSUME NEW old \in Runs, ResumedFrom(x, old)
        PROVE  OfRun(x, run'[x].wt.own, Over)
    <3>1. OfRun(old, runRefs[old].own, Over) /\ old \in Over
      BY <2>3 DEF ResumedFrom, OwnCommits, TicketsComplete, Over
    <3> QED  BY <1>3, <2>3, <3>1 DEF ResumedFrom
  <2>4. ASSUME NEW k \in Kinds, run'[x].wt.own = Append(run[x].wt.own, CommitOf(x, k))
        PROVE  OfRun(x, run'[x].wt.own, Over)
    BY <1>4, <2>4, OfRunAppend
  <2> QED  BY <2>1, <2>2, <2>3, <2>4, OwnMoves
<1>6. ASSUME runRefs'[x] # NoRef  PROVE OfRun(x, runRefs'[x].own, Over')
  BY <1>2, <1>5, <1>6, RefMoves DEF OwnCommits
<1> QED  BY <1>2, <1>5, <1>6

LEMMA TicketsCompleteStep ==
  ASSUME TypeOK, TicketsComplete, [Next]_vars
  PROVE  TicketsComplete'
<1> SUFFICES ASSUME NEW x \in Runs
             PROVE  /\ x \in tickets' => pc'[x] \in Ended
                    /\ (pc'[x] = "handoff" \/ x \in tickets') /\ runRefs'[x] # NoRef =>
                         runRefs'[x].own = run'[x].wt.own
  BY DEF TicketsComplete
<1>1. x \in tickets' => pc'[x] \in Ended
  BY TicketMoves, EndedStays DEF TicketsComplete
<1>2. ASSUME pc'[x] = "handoff" \/ x \in tickets', runRefs'[x] # NoRef
      PROVE  runRefs'[x].own = run'[x].wt.own
  <2>1. CASE runRefs'[x] = run'[x].wt
    BY <2>1
  <2>2. CASE runRefs'[x] # run'[x].wt
    <3>1. pc[x] = "handoff" \/ x \in tickets
      BY <1>2, <2>2, TicketMoves
    <3>2. runRefs[x] # NoRef /\ runRefs'[x] = runRefs[x]
      BY <1>2, <2>2, RefMoves
    <3>3. runRefs[x].own = run[x].wt.own /\ pc[x] \in {"handoff"} \cup Ended
      BY <3>1, <3>2 DEF TicketsComplete
    <3>4. run'[x].wt = run[x].wt
      BY <1>2, <2>2, <3>3, RefMoves
    <3> QED  BY <3>2, <3>3, <3>4
  <2> QED  BY <2>1, <2>2
<1> QED  BY <1>1, <1>2

LEMMA ResumedStep ==
  ASSUME TypeOK, TicketsComplete, Resumed, [Next]_vars
  PROVE  Resumed'
<1> SUFFICES ASSUME NEW x \in Runs
             PROVE  /\ pc'[x] = "idle" => run'[x].from = NoRun
                    /\ run'[x].from # NoRun =>
                         /\ run'[x].from \in tickets' \ {x}
                         /\ IsPrefix(run'[run'[x].from].wt.own, run'[x].wt.own)
  BY DEF Resumed
<1>1. pc'[x] = "idle" => run'[x].from = NoRun
  BY IdleMoves DEF Resumed
\* A ticket's session keeps its worktree.
<1>2. ASSUME NEW old \in tickets
      PROVE  old \in Runs /\ old \in tickets' /\ run'[old] = run[old]
             /\ run[old].wt.own \in Seq(Commit)
  <2>1. old \in Runs /\ pc[old] \in Ended
    BY DEF TypeOK, TicketsComplete
  <2> QED  BY <2>1, TicketMoves, EndedStays, RunFields DEF History
<1>3. run[x].wt.own \in Seq(Commit)
  BY RunFields DEF History
<1>4. ASSUME run'[x].from # NoRun, run'[x].from = run[x].from
      PROVE  /\ run[x].from \in tickets \ {x}
             /\ IsPrefix(run[run[x].from].wt.own, run[x].wt.own)
  BY <1>4 DEF Resumed
<1>5. ASSUME run'[x].from # NoRun
      PROVE  /\ run'[x].from \in tickets' \ {x}
             /\ IsPrefix(run'[run'[x].from].wt.own, run'[x].wt.own)
  <2>1. CASE run'[x].wt.own = run[x].wt.own /\ run'[x].from = run[x].from
    BY <1>2, <1>4, <1>5, <2>1
  <2>2. ASSUME NEW old \in Runs, ResumedFrom(x, old)
        PROVE  /\ run'[x].from \in tickets' \ {x}
               /\ IsPrefix(run'[run'[x].from].wt.own, run'[x].wt.own)
    <3>1. old \in tickets \ {x} /\ runRefs[old] # NoRef
          /\ run'[x].from = old /\ run'[x].wt.own = runRefs[old].own
      BY <2>2 DEF ResumedFrom
    <3>2. runRefs[old].own = run[old].wt.own
      BY <3>1 DEF TicketsComplete
    <3> QED  BY <1>2, <3>1, <3>2, PrefixReflexive
  <2>3. ASSUME NEW k \in Kinds, run'[x].from = run[x].from,
               run'[x].wt.own = Append(run[x].wt.own, CommitOf(x, k))
        PROVE  /\ run'[x].from \in tickets' \ {x}
               /\ IsPrefix(run'[run'[x].from].wt.own, run'[x].wt.own)
    <3>1. CommitOf(x, k) \in Commit
      BY CommitOfType
    <3>2. /\ Append(run[x].wt.own, CommitOf(x, k)) \in Seq(Commit)
          /\ IsPrefix(run[x].wt.own, Append(run[x].wt.own, CommitOf(x, k)))
      BY <1>3, <3>1, PrefixOfAppend
    <3>3. run[x].from \in tickets /\ IsPrefix(run[run[x].from].wt.own, run[x].wt.own)
          /\ run[x].from # x
      BY <1>4, <1>5, <2>3
    <3>4. IsPrefix(run[run[x].from].wt.own, Append(run[x].wt.own, CommitOf(x, k)))
      BY <1>2, <1>3, <3>2, <3>3, PrefixTransitive
    <3> QED  BY <1>2, <2>3, <3>3, <3>4
  <2>4. CASE pc[x] = "idle" /\ run'[x].from = run[x].from
    BY <1>5, <2>4 DEF Resumed
  <2> QED  BY <2>1, <2>2, <2>3, <2>4, OwnMoves
<1> QED  BY <1>1, <1>5

-----------------------------------------------------------------------------
(* Who may publish, and what has been published.                           *)

\* A step of a run writes only its own token into a claim.
LEMMA ClaimsByActor ==
  ASSUME TypeOK, ClaimOwned, NEW r \in Runs, RunStep(r), NEW n \in Nodes
  PROVE  \/ claims'[n] = claims[n] \/ claims'[n] = NoClaim
         \/ claims'[n] \in ClaimCommit /\ claims'[n].tok = r
<1> DEFINE Moves == \/ claims'[n] = claims[n] \/ claims'[n] = NoClaim
                    \/ claims'[n] \in ClaimCommit /\ claims'[n].tok = r
<1> SUFFICES Moves
  OBVIOUS
<1>1. ASSUME NEW c \in ClaimCommit, c.tok = r, claims' = [claims EXCEPT ![NodeOf[r]] = c]
      PROVE  Moves
  BY <1>1 DEF TypeOK
<1>2. ASSUME NEW gen \in Nat, claims' = [claims EXCEPT ![NodeOf[r]] = FirstClaim(r, gen)]
      PROVE  Moves
  <2>1. FirstClaim(r, gen) \in ClaimCommit /\ FirstClaim(r, gen).tok = r
    BY DEF FirstClaim, ClaimCommit
  <2> QED  BY <1>1, <1>2, <2>1
<1>3. CASE UNCHANGED claims
  BY <1>3
<1>4. CASE Acquire(r) \/ Takeover(r)
  <2>1. NodeOf[r] \in Nodes /\ run[r].gen \in Nat
    BY ConstantsAssumption, RunFields
  <2>2. claims[NodeOf[r]] # NoClaim => claims[NodeOf[r]].gen + 1 \in Nat
    BY <2>1 DEF TypeOK, ClaimCommit
  <2> QED  BY <1>2, <1>3, <1>4, <2>1, <2>2 DEF Acquire, Takeover, Claim
<1>5. CASE Renew(r)
  <2> DEFINE next == [tok |-> run[r].sha.tok, gen |-> run[r].sha.gen,
                      ver |-> run[r].sha.ver + 1]
  <2>1. run[r].sha \in ClaimCommit /\ run[r].sha.tok = r
    BY <1>5, RunFields DEF Renew, InSession, ClaimOwned, Active
  <2>2. next \in ClaimCommit /\ next.tok = r
    BY <2>1 DEF ClaimCommit
  <2>3. UNCHANGED claims \/ claims' = [claims EXCEPT ![NodeOf[r]] = next]
    BY <1>5 DEF Renew
  <2> HIDE DEF next
  <2> QED  BY <1>1, <1>3, <2>2, <2>3
<1>6. CASE Release(r) \/ HandoffRelease(r) \/ Push(r)
  BY <1>6 DEF Release, HandoffRelease, DeleteClaim, Push, AtomicPush, remote, TypeOK
<1>7. CASE ~(Acquire(r) \/ Takeover(r) \/ Renew(r) \/ Release(r) \/ HandoffRelease(r) \/ Push(r))
  BY <1>3, <1>7 DEF RunStep, PublishStep, remote, Attach, AttachResume, Prepare, Execute,
     Done, StartPublish, Turn, HandoffPush, FetchMain, CheckClaim, ReadMain, Rebase,
     CrashRunner, Crash
<1> QED  BY <1>4, <1>5, <1>6, <1>7

\* While a run lives and its claim is in force, its own steps keep the tenure.
LEMMA OwnTenure ==
  ASSUME TypeOK, ClaimOwned, NEW x \in Runs, RunStep(x), pc[x] \in Active, pc'[x] \in Active,
         claims'[NodeOf[x]] = run'[x].sha, run'[x].sha # NoClaim
  PROVE  claims[NodeOf[x]] = run[x].sha /\ run'[x].since = run[x].since
<1> USE DEF Go, Leave, TypeOK
<1>1. NodeOf[x] \in Nodes
  BY ConstantsAssumption
<1>2. CASE UNCHANGED claims /\ run'[x].sha = run[x].sha /\ run'[x].since = run[x].since
  BY <1>2
<1>3. CASE Renew(x)
  <2>1. claims[NodeOf[x]] = run[x].sha
    BY <1>3 DEF Renew, Active, Publishing
  <2>2. run'[x].since = run[x].since
    BY <1>3 DEF Renew, RunState
  <2> QED  BY <2>1, <2>2
<1>4. CASE Push(x)
  <2>1. UNCHANGED remote
    BY <1>1, <1>4 DEF Push, AtomicPush
  <2> QED  BY <1>2, <1>4, <2>1 DEF Push, remote
<1>5. CASE Prepare(x) \/ FetchMain(x) \/ CheckClaim(x) \/ ReadMain(x) \/ CrashRunner(x)
  BY <1>2, <1>5 DEF Prepare, FetchMain, CheckClaim, ReadMain, CrashRunner, Crash, remote
<1>6. CASE Execute(x) \/ Done(x) \/ Turn(x) \/ HandoffPush(x) \/ Rebase(x)
  <2>1. run'[x].sha = run[x].sha /\ run'[x].since = run[x].since
    BY <1>6 DEF Execute, Done, StartPublish, Turn, HandoffPush, Rebase, RunState
  <2>2. UNCHANGED claims
    BY <1>6 DEF Execute, Done, StartPublish, Turn, HandoffPush, Rebase, remote
  <2> QED  BY <1>2, <2>1, <2>2
<1>7. ~Release(x) /\ ~HandoffRelease(x)
  BY DEF Release, HandoffRelease, Active, Publishing
<1>8. ~Attach(x) /\ ~AttachResume(x) /\ ~Acquire(x) /\ ~Takeover(x)
  BY DEF Attach, AttachResume, Acquire, Takeover, Active, Publishing
<1> QED  BY <1>3, <1>4, <1>5, <1>6, <1>7, <1>8 DEF RunStep, PublishStep

\* The right to publish is acquired once, with the claim, and never regained.
LEMMA MayPublishStep ==
  ASSUME TypeOK, TypeOK', ClaimOwned, ClaimOwned', [Next]_vars, NEW x \in Runs, MayPublish(x)'
  PROVE  /\ MayPublish(x)
         /\ pc'[x] \notin {"idle", "acquire"} =>
              \/ pc[x] \in {"idle", "acquire"} /\ run'[x].since = Len(main) /\ main' = main
              \/ pc[x] \notin {"idle", "acquire"} /\ run'[x].since = run[x].since
<1>1. pc[x] \notin Ended /\ pc'[x] \notin Ended
  BY EndedStays DEF MayPublish
<1>2. pc[x] \in Pcs /\ pc'[x] \in Pcs /\ NodeOf[x] \in Nodes
  BY ConstantsAssumption DEF TypeOK
<1>3. CASE pc[x] \in {"idle", "acquire"} /\ pc'[x] \in {"idle", "acquire"}
  BY <1>1, <1>3 DEF MayPublish
<1>4. CASE pc[x] \in {"idle", "acquire"} /\ pc'[x] \notin {"idle", "acquire"}
  <2>1. ~UNCHANGED vars
    BY <1>4 DEF vars
  <2>2. \A r \in Runs \ {x} : ~RunStep(r)
    BY <1>1, <1>4, OtherRuns DEF Ended
  <2>3. \A h \in Hosts : ~(LifecycleFetch(h) \/ LifecyclePush(h) \/ CrashServer(h))
    BY <1>1, <1>4, EnvironmentRuns
  <2>4. RunStep(x)
    BY <2>1, <2>2, <2>3 DEF Next
  <2> USE DEF Go, TypeOK, Ended
  <2>5. ~Attach(x) /\ ~AttachResume(x)
    BY <1>1, <1>4 DEF Attach, AttachResume
  <2>6. CASE Acquire(x) \/ Takeover(x)
    <3>1. PICK gen : Claim(x, gen) /\ UNCHANGED main
      BY <1>1, <2>6 DEF Acquire, Takeover
    <3>2. run'[x].since = Len(main)
      BY <3>1 DEF Claim, RunState
    <3> QED  BY <1>1, <1>4, <3>1, <3>2 DEF MayPublish
  <2>7. ~Prepare(x) /\ ~Execute(x) /\ ~Done(x) /\ ~Turn(x) /\ ~Renew(x) /\ ~Release(x)
        /\ ~HandoffPush(x) /\ ~HandoffRelease(x) /\ ~FetchMain(x) /\ ~CheckClaim(x)
        /\ ~ReadMain(x) /\ ~Rebase(x) /\ ~Push(x)
    BY <1>4 DEF Prepare, Execute, Done, Turn, Renew, Release, InSession, HandoffPush,
       HandoffRelease, FetchMain, CheckClaim, ReadMain, Rebase, Push
  <2>8. ~CrashRunner(x)
    BY <1>1, <1>4 DEF CrashRunner, Crash
  <2> QED  BY <2>4, <2>5, <2>6, <2>7, <2>8 DEF RunStep, PublishStep
<1>5. CASE pc[x] \notin {"idle", "acquire"}
  <2>1. pc'[x] \notin {"idle", "acquire"}
    BY <1>5, IdleMoves
  <2>2. pc[x] \in Active /\ pc'[x] \in Active
    BY <1>1, <1>2, <1>5, <2>1 DEF Pcs, Active
  <2>3. claims'[NodeOf[x]] = run'[x].sha
    BY <2>1 DEF MayPublish
  <2>4. run'[x].sha # NoClaim /\ run'[x].sha.tok = x
    BY <2>2 DEF ClaimOwned
  <2>5. claims[NodeOf[x]] = run[x].sha /\ run'[x].since = run[x].since
    <3>1. CASE UNCHANGED vars
      BY <2>3, <3>1 DEF vars, remote
    <3>2. CASE RunStep(x)
      BY <2>2, <2>3, <2>4, <3>2, OwnTenure
    <3>3. ASSUME NEW r \in Runs, RunStep(r), r # x
          PROVE  claims[NodeOf[x]] = run[x].sha /\ run'[x].since = run[x].since
      <4>1. run'[x] = run[x]
        BY <3>3, OtherRuns
      <4>2. claims'[NodeOf[x]] = claims[NodeOf[x]]
        BY <1>2, <2>3, <2>4, <3>3, ClaimsByActor
      <4> QED  BY <2>3, <4>1, <4>2
    <3>4. ASSUME NEW h \in Hosts, LifecycleFetch(h) \/ LifecyclePush(h) \/ CrashServer(h)
          PROVE  claims[NodeOf[x]] = run[x].sha /\ run'[x].since = run[x].since
      BY <2>3, <3>4, EnvironmentRuns DEF LifecycleFetch, LifecyclePush, CrashServer, Crash, remote
    <3> QED  BY <3>1, <3>2, <3>3, <3>4 DEF Next
  <2> QED  BY <1>1, <1>5, <2>5 DEF MayPublish
<1> QED  BY <1>3, <1>4, <1>5

\* What a push adds to main is about the run's node, by the run or by runs that are over,
\* and ends with the run's own outcome.
LEMMA PushedCommits ==
  ASSUME ProtocolInv, OwnCommits, NEW r \in Runs, pc[r] = "push", LeasesHold(r), AtomicPush(r)
  PROVE  /\ Last(main').tok = r
         /\ Len(main') \in Nat
         /\ \A i \in 1 .. Len(main') :
              \/ i \in 1 .. Len(main) /\ main'[i] = main[i]
              \/ main'[i].node = NodeOf[r] /\ main'[i].tok \in {r} \cup Over
<1> USE DEF ProtocolInv
<1>1. main \in Seq(Commit) /\ run[r].wt.own \in Seq(Commit)
      /\ Len(main) \in Nat /\ Len(run[r].wt.own) \in Nat
  BY RunFields, LenProperties DEF TypeOK, History
<1>2. main' = Pushed(r)
  BY DEF AtomicPush
<1>3. CASE loop[r].mode = "result"
  <2>1. main' = main \o run[r].wt.own
    BY <1>2, <1>3, PushExtends
  <2>2. run[r].wt.own # <<>> /\ Last(run[r].wt.own) = CommitOf(r, "result")
    BY <1>3 DEF ResultLast, Publishing
  <2>3. Len(run[r].wt.own) # 0
    BY <1>1, <2>2, EmptySeq
  <2>4. /\ Len(main') = Len(main) + Len(run[r].wt.own)
        /\ \A i \in 1 .. Len(main) + Len(run[r].wt.own) :
             main'[i] = IF i <= Len(main) THEN main[i] ELSE run[r].wt.own[i - Len(main)]
    BY <1>1, <2>1, ConcatProperties
  <2>5. Last(main').tok = r
    <3>1. main'[Len(main) + Len(run[r].wt.own)] = run[r].wt.own[Len(run[r].wt.own)]
      BY <1>1, <2>1, <2>3, ConcatProperties
    <3> QED  BY <2>2, <2>4, <3>1 DEF Last, CommitOf
  <2>6. ASSUME NEW i \in 1 .. Len(main'), i > Len(main)
        PROVE  main'[i].node = NodeOf[r] /\ main'[i].tok \in {r} \cup Over
    <3>1. i - Len(main) \in 1 .. Len(run[r].wt.own) /\ main'[i] = run[r].wt.own[i - Len(main)]
      BY <1>1, <2>4, <2>6
    <3> QED  BY <3>1 DEF OwnCommits, OfRun
  <2> QED  BY <1>1, <2>4, <2>5, <2>6
<1>4. CASE loop[r].mode # "result"
  <2>1. main' = Append(main, CommitOf(r, "failure"))
    BY <1>2, <1>4, PushExtends
  <2>2. CommitOf(r, "failure") \in Commit
    BY CommitOfType DEF Kinds
  <2>3. /\ Len(main') = Len(main) + 1
        /\ \A i \in 1 .. Len(main) : main'[i] = main[i]
        /\ main'[Len(main) + 1] = CommitOf(r, "failure")
    BY <1>1, <2>1, <2>2, AppendProperties
  <2>4. Last(main').tok = r
    BY <2>3 DEF Last, CommitOf
  <2>5. ASSUME NEW i \in 1 .. Len(main')
        PROVE  \/ i \in 1 .. Len(main) /\ main'[i] = main[i]
               \/ main'[i].node = NodeOf[r] /\ main'[i].tok \in {r} \cup Over
    <3>1. i \in 1 .. Len(main) \/ i = Len(main) + 1
      BY <1>1, <2>3
    <3> QED  BY <2>3, <3>1 DEF CommitOf
  <2> QED  BY <1>1, <2>3, <2>4, <2>5
<1> QED  BY <1>3, <1>4

\* Where new commits of main come from.
LEMMA NewCommits ==
  ASSUME ProtocolInv, OwnCommits, [Next]_vars
  PROVE  \/ main' = main
         \/ /\ Last(main').tok = NoRun
            /\ \A i \in 1 .. Len(main') :
                 (i \in 1 .. Len(main) /\ main'[i] = main[i]) \/ main'[i].tok = NoRun
         \/ \E r \in Runs :
              /\ pc[r] = "push" /\ MayPublish(r)
              /\ claims'[NodeOf[r]] = NoClaim
              /\ Last(main').tok = r
              /\ \A i \in 1 .. Len(main') :
                   \/ i \in 1 .. Len(main) /\ main'[i] = main[i]
                   \/ main'[i].node = NodeOf[r] /\ main'[i].tok \in {r} \cup Over
<1> USE DEF ProtocolInv
<1>1. main' = main \/ (\E r \in Runs : Push(r)) \/ (\E h \in Hosts : LifecyclePush(h))
  BY MainMoves
<1>2. ASSUME NEW r \in Runs, Push(r), main' # main
      PROVE  /\ pc[r] = "push" /\ MayPublish(r)
             /\ claims'[NodeOf[r]] = NoClaim
             /\ Last(main').tok = r
             /\ \A i \in 1 .. Len(main') :
                  \/ i \in 1 .. Len(main) /\ main'[i] = main[i]
                  \/ main'[i].node = NodeOf[r] /\ main'[i].tok \in {r} \cup Over
  <2>1. pc[r] = "push" /\ LeasesHold(r) /\ AtomicPush(r)
    BY <1>2 DEF Push, remote
  <2>2. NodeOf[r] \in Nodes
    BY ConstantsAssumption
  <2>3. MayPublish(r) /\ claims'[NodeOf[r]] = NoClaim
    BY <2>1, <2>2 DEF MayPublish, LeasesHold, AtomicPush, Ended, TypeOK
  <2> QED  BY <2>1, <2>3, PushedCommits
<1>3. ASSUME NEW h \in Hosts, LifecyclePush(h), main' # main
      PROVE  /\ Last(main').tok = NoRun
             /\ \A i \in 1 .. Len(main') :
                  (i \in 1 .. Len(main) /\ main'[i] = main[i]) \/ main'[i].tok = NoRun
  <2>1. PICK n \in Nodes :
          main' = Append(main, [tok |-> NoRun, node |-> n, kind |-> "lifecycle"])
    BY <1>3 DEF LifecyclePush
  <2>2. main \in Seq(Commit) /\ Len(main) \in Nat
    BY LenProperties DEF TypeOK, History
  <2>3. [tok |-> NoRun, node |-> n, kind |-> "lifecycle"] \in Commit
    BY DEF Commit, Kinds
  <2>4. /\ Len(main') = Len(main) + 1
        /\ \A i \in 1 .. Len(main) : main'[i] = main[i]
        /\ main'[Len(main) + 1].tok = NoRun
    BY <2>1, <2>2, <2>3, AppendProperties
  <2>5. \A i \in 1 .. Len(main') : i \in 1 .. Len(main) \/ i = Len(main) + 1
    BY <2>2, <2>4
  <2> QED  BY <2>4, <2>5 DEF Last
<1> QED  BY <1>1, <1>2, <1>3

\* Of the runs of one node only the holder may publish, and a push ends that.
LEMMA OneMayPublish ==
  ASSUME TypeOK, ClaimOwned, NEW r \in Runs, NEW x \in Runs, NodeOf[x] = NodeOf[r],
         pc[r] = "push", MayPublish(r), MayPublish(x), pc[x] \notin {"idle", "acquire"}
  PROVE  x = r
<1>1. pc[x] \in Active /\ pc[r] \in Active
  BY DEF TypeOK, Pcs, Active, MayPublish, Publishing
<1>2. run[x].sha.tok = x /\ run[r].sha.tok = r
  BY <1>1 DEF ClaimOwned
<1>3. run[x].sha = run[r].sha
  BY DEF MayPublish
<1> QED  BY <1>2, <1>3

\* The pusher's own claim is deleted with its push.
LEMMA PusherDone ==
  ASSUME TypeOK, ClaimOwned, ClaimOwned', TypeOK', [Next]_vars, NEW r \in Runs,
         pc[r] = "push", claims'[NodeOf[r]] = NoClaim
  PROVE  ~MayPublish(r)'
<1> SUFFICES ASSUME MayPublish(r)'  PROVE FALSE
  OBVIOUS
<1>1. pc'[r] \notin {"idle", "acquire"} /\ pc'[r] \in Pcs
  BY IdleMoves DEF TypeOK
<1>2. pc'[r] \in Active /\ run'[r].sha = NoClaim
  BY <1>1 DEF MayPublish, Pcs, Active
<1> QED  BY <1>2 DEF ClaimOwned

LEMMA OutcomeAheadStep ==
  ASSUME ProtocolInv, ProtocolInv', OwnCommits, OutcomeAhead, [Next]_vars
  PROVE  OutcomeAhead'
<1> USE DEF ProtocolInv
<1> SUFFICES ASSUME NEW x \in Runs, MayPublish(x)', NEW i \in 1 .. Len(main'),
                    main'[i].tok = x, main'[i].kind \in {"result", "failure"}
             PROVE  FALSE
  BY DEF OutcomeAhead
<1>1. MayPublish(x)
  BY MayPublishStep
<1>2. ~(i \in 1 .. Len(main) /\ main'[i] = main[i])
  BY <1>1 DEF OutcomeAhead
<1>3. x # NoRun /\ x \notin Over
  BY <1>1, ConstantsAssumption DEF MayPublish, Over
<1>4. main' # main
  BY <1>2
<1>5. PICK r \in Runs : /\ pc[r] = "push" /\ claims'[NodeOf[r]] = NoClaim
                        /\ main'[i].tok \in {r} \cup Over
  BY <1>2, <1>3, <1>4, NewCommits
<1>6. x = r
  BY <1>3, <1>5
<1> QED  BY <1>5, <1>6, PusherDone

LEMMA TenureSoFarStep ==
  ASSUME ProtocolInv, ProtocolInv', OwnCommits, TenureSoFar, [Next]_vars
  PROVE  TenureSoFar'
<1> USE DEF ProtocolInv
<1> SUFFICES ASSUME NEW x \in Runs, MayPublish(x)', pc'[x] \notin {"idle", "acquire"},
                    NEW i \in run'[x].since + 1 .. Len(main'),
                    main'[i].node = NodeOf[x], main'[i].tok # NoRun
             PROVE  FALSE
  BY DEF TenureSoFar
<1>1. Len(main) \in Nat /\ Len(main') \in Nat /\ run'[x].since \in Nat
  BY LenProperties DEF TypeOK, History, RunState
<1>2. MayPublish(x) /\ pc[x] \notin {"idle", "acquire"} /\ run'[x].since = run[x].since
  BY <1>1, MayPublishStep
<1>3. ~(i \in 1 .. Len(main) /\ main'[i] = main[i])
  BY <1>1, <1>2 DEF TenureSoFar
<1>4. i \in 1 .. Len(main') /\ main' # main
  BY <1>1, <1>3
<1>5. PICK r \in Runs : /\ pc[r] = "push" /\ MayPublish(r) /\ claims'[NodeOf[r]] = NoClaim
                        /\ main'[i].node = NodeOf[r]
  BY <1>3, <1>4, NewCommits
<1>6. x = r
  BY <1>2, <1>5, OneMayPublish
<1> QED  BY <1>5, <1>6, PusherDone

LEMMA HistoryInit == Init => HistoryInv
<1> SUFFICES ASSUME Init  PROVE HistoryInv
  OBVIOUS
<1>1. ProtocolInv
  BY InitInv
<1>2. /\ main = <<>> /\ tickets = {} /\ \A r \in Runs : pc[r] = "idle" /\ runRefs[r] = NoRef
      /\ \A r \in Runs : run[r].wt.own = <<>> /\ run[r].from = NoRun
  BY DEF Init, IdleRun
<1>3. OwnCommits /\ TicketsComplete /\ Resumed
  BY <1>2, EmptySeq DEF OwnCommits, OfRun, TicketsComplete, Resumed
<1>4. OutcomeAhead /\ TenureSoFar
  BY <1>2, EmptySeq DEF OutcomeAhead, TenureSoFar
<1> QED  BY <1>1, <1>3, <1>4 DEF HistoryInv

LEMMA HistoryStep == HistoryInv /\ [Next]_vars => HistoryInv'
<1> SUFFICES ASSUME HistoryInv, [Next]_vars  PROVE HistoryInv'
  OBVIOUS
<1> USE DEF HistoryInv
<1>1. ProtocolInv'
  BY InvStep
<1>2. OwnCommits' /\ TicketsComplete' /\ Resumed'
  BY OwnCommitsStep, TicketsCompleteStep, ResumedStep DEF ProtocolInv
<1>3. OutcomeAhead' /\ TenureSoFar'
  BY <1>1, OutcomeAheadStep, TenureSoFarStep
<1> QED  BY <1>1, <1>2, <1>3

\* What the state of a run says about the history on main: a run whose claim is in force
\* has published nothing yet and nobody else published for its node since the acquire,
\* and a resumed session holds all that its ticket stands for (claims.rs, publish.rs,
\* graph.rs).
THEOREM HistoryInvariant == Spec => []HistoryInv
BY HistoryInit, HistoryStep, PTL DEF Spec

\* Who publishes holds a claim in force.
LEMMA PublisherMayPublish ==
  ASSUME HistoryInv, [Next]_vars, NEW r \in Runs, PublishedBy(r)
  PROVE  MayPublish(r) /\ pc[r] \notin {"idle", "acquire"}
<1>1. Last(main').tok # NoRun
  BY ConstantsAssumption DEF PublishedBy
<1> QED  BY <1>1, NewCommits DEF HistoryInv, PublishedBy

\* One run publishes at most one outcome, its result or its failure, whatever replies are
\* lost and whatever is retried (publish.rs: the push deletes the claim it was fenced by;
\* runner.rs, ws.rs).
THEOREM TokensPublishOnce == Spec => TokenPublishesOnce
<1>1. HistoryInv /\ [Next]_vars =>
        [\A r \in Runs : PublishedBy(r) =>
           \A i \in 1 .. Len(main) :
              ~(main[i].tok = r /\ main[i].kind \in {"result", "failure"})]_main
  BY PublisherMayPublish DEF HistoryInv, OutcomeAhead
<1> QED  BY <1>1, HistoryInvariant, PTL DEF Spec, TokenPublishesOnce

\* Between the acquire of a claim and the publish it fences, no other run publishes for the
\* node (claims.rs acquire_claim and renew_or_takeover_claim, publish.rs).
THEOREM TenuresUnbroken == Spec => TenureUnbroken
<1>1. HistoryInv /\ [Next]_vars =>
        [\A r \in Runs : PublishedBy(r) =>
           \A i \in run[r].since + 1 .. Len(main) :
              main[i].node = NodeOf[r] => main[i].tok = NoRun]_main
  BY PublisherMayPublish DEF HistoryInv, TenureSoFar
<1> QED  BY <1>1, HistoryInvariant, PTL DEF Spec, TenureUnbroken

\* A session resumed from a ticket starts from everything the old session committed, also
\* when a crash or a lost reply hit the handoff (graph.rs handoff, ws.rs attach_resume).
THEOREM ResumedInherit == Spec => []ResumeInheritsTurns
<1>1. HistoryInv => ResumeInheritsTurns
  BY DEF HistoryInv, Resumed, ResumeInheritsTurns
<1> QED  BY <1>1, HistoryInvariant, PTL
=============================================================================
