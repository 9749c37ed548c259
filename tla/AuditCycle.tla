---------------------------- MODULE AuditCycle ----------------------------
(***************************************************************************)
(* The audit of a node's results: a pending-audit opens a cycle, in which  *)
(* the auditor asks at most one question, the executor answers it, and a   *)
(* verdict closes the cycle (mt-core/audit.rs).  Whoever runs a command    *)
(* decides by the files of its own checkout, writes the file there and     *)
(* publishes it to main; a publish that runs out of retries leaves the     *)
(* file in the checkout.                                                   *)
(*                                                                         *)
(* One node, the auditor on one host and the executor on another, one      *)
(* command at a time on each.  The auditor's commands are those of a       *)
(* person or of the agent that run_auditor starts, which are not told      *)
(* apart.  A file's content is the event that wrote it, so a file written  *)
(* twice is seen.                                                          *)
(***************************************************************************)
EXTENDS Integers, FiniteSets

CONSTANTS
    Auditor, Executor,  \* the two hosts
    MaxCycles,          \* bound: results that are submitted
    MaxRefused,         \* bound: publishes that run out of retries
    MaxWritten          \* bound: files written

ASSUME AuditAssumption ==
    /\ Auditor # Executor
    /\ {MaxCycles, MaxRefused, MaxWritten} \subseteq Nat

VARIABLES
    published,      \* files of the cycles on main: <<name, number>> -> event
    copy,           \* those in each host's checkout
    result,         \* of each cycle with a verdict: number -> "success", "failed"
    written, refused

auditVars == <<published, copy, result, written, refused>>

AuditFiles == {"pending-audit", "clarification", "amended", "audit-result"} \X (1 .. MaxCycles)

LastCycle(files) ==
    LET cycles == {k \in 1 .. MaxCycles : <<"pending-audit", k>> \in DOMAIN files}
    IN  IF cycles = {} THEN 0 ELSE CHOOSE k \in cycles : \A j \in cycles : j <= k

\* Mutant: a cycle with a verdict is still open.
OpenAuditEver(files) == LastCycle(files)

\* open_audit: the last cycle, 0 if there is none or it has its verdict.
OpenAudit(files) ==
    IF <<"audit-result", LastCycle(files)>> \in DOMAIN files THEN 0 ELSE LastCycle(files)

AuditPut(files, name, event) ==
    [f \in DOMAIN files \cup {name} |-> IF f = name THEN event ELSE files[f]]

\* Every file of one set, and of the other what it adds.
AuditOver(new, old) ==
    [f \in DOMAIN new \cup DOMAIN old |-> IF f \in DOMAIN new THEN new[f] ELSE old[f]]

AuditInit ==
    /\ published = <<>>
    /\ copy = [h \in {Auditor, Executor} |-> <<>>]
    /\ result = <<>>
    /\ written = 0
    /\ refused = 0

\* The executor's mt audit, or its run: a result with a pending-audit, once the last was
\* sent back.
Submit ==
    LET last == LastCycle(published)
    IN  /\ written < MaxWritten
        /\ last < MaxCycles
        /\ last > 0 => /\ <<"audit-result", last>> \in DOMAIN published
                       /\ result[last] = "failed"
        /\ written' = written + 1
        /\ published' = AuditPut(published, <<"pending-audit", last + 1>>, written')
        /\ UNCHANGED <<copy, result, refused>>

\* git pull: what main has replaces what the checkout has.
PullAudit(h) ==
    /\ copy' = [copy EXCEPT ![h] = AuditOver(published, @)]
    /\ copy' # copy
    /\ UNCHANGED <<published, result, written, refused>>

\* write_atomic, then publish_artifact.
PublishArtifact(h, name) ==
    /\ written < MaxWritten
    /\ written' = written + 1
    /\ copy' = [copy EXCEPT ![h] = AuditPut(@, name, written')]
    /\ \/ /\ published' = AuditPut(published, name, written')
          /\ UNCHANGED refused
       \/ /\ refused < MaxRefused
          /\ refused' = refused + 1
          /\ UNCHANGED published

\* mt verdict, of the agent or of a person.
GiveVerdict ==
    LET k == OpenAudit(copy[Auditor])
    IN  /\ k # 0
        /\ PublishArtifact(Auditor, <<"audit-result", k>>)
        /\ \E r \in {"success", "failed"} : result' = AuditPut(result, k, r)

\* mt clarify: once in a cycle.
Clarify ==
    LET k == OpenAudit(copy[Auditor])
    IN  /\ k # 0
        /\ <<"clarification", k>> \notin DOMAIN copy[Auditor]
        /\ PublishArtifact(Auditor, <<"clarification", k>>)
        /\ UNCHANGED result

\* mt amend: after the question, once.
AmendAudit ==
    LET files == copy[Executor]
        k == OpenAudit(files)
    IN  /\ k # 0
        /\ <<"clarification", k>> \in DOMAIN files
        /\ <<"amended", k>> \notin DOMAIN files
        /\ PublishArtifact(Executor, <<"amended", k>>)
        /\ UNCHANGED result

\* expire_clarification: the time is up for a question that has no answer here.
Expire ==
    LET files == copy[Auditor]
        k == OpenAudit(files)
    IN  /\ k # 0
        /\ <<"clarification", k>> \in DOMAIN files
        /\ <<"amended", k>> \notin DOMAIN files
        /\ PublishArtifact(Auditor, <<"audit-result", k>>)
        /\ result' = AuditPut(result, k, "failed")

AuditCommand == GiveVerdict \/ Clarify \/ AmendAudit

AuditNext ==
    \/ Submit \/ AuditCommand \/ Expire
    \/ \E h \in {Auditor, Executor} : PullAudit(h)

AuditSpec == AuditInit /\ [][AuditNext]_auditVars

-----------------------------------------------------------------------------
(* Properties.                                                             *)

\* What a cycle says on main stays as it was said, by one auditor: no second verdict, no
\* second question, and no answer that lacks its question or that another replaces, also
\* when a publish failed and the command was repeated (audit.rs open_audit and the guards
\* of clarification and amend).
CycleGrows ==
    [][/\ \A f \in DOMAIN published : f \in DOMAIN published' /\ published'[f] = published[f]
       /\ \A k \in 1 .. MaxCycles :
            <<"amended", k>> \in DOMAIN published' =>
                <<"clarification", k>> \in DOMAIN published']_auditVars
=============================================================================
