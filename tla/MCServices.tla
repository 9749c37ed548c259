---------------------------- MODULE MCServices ----------------------------
(* Small instances of the components that share no state with the others in the models:   *)
(* one of them moves in a behavior, part says which.                                      *)
EXTENDS Mandates, Decisions, Orchestrator, AuditCycle, Attempt, Worktrees, Texts,
        SandboxPolicy, Masking, ExecutorFlags

VARIABLE part

-----------------------------------------------------------------------------
(* Values of constants.                                                                   *)

CONSTANTS ann, bob, bot, w1, w2, a, b
Grant(refs, types, cap, irr, aud) ==
    [refs |-> refs, types |-> types, caps |-> [budget |-> cap, risk |-> NoCap],
     irreversible |-> irr, audacity |-> aud]
Wide   == Grant({"**", "ops/*"}, {AnyType}, NoCap, TRUE, NoCap)
Narrow == Grant({"ops/*"}, {"ops"}, 1, FALSE, NoCap)
Free   == Grant({"ops/*"}, {"ops"}, NoCap, FALSE, NoCap)
Other  == Grant({"**"}, {AnyType}, 1, FALSE, 2)
TheGrants == {Wide, Narrow, Free, Other}
ThePatterns == {"**", "ops/*"}
TheRefs == {"ops/a", "dev/b"}
TheMatches == {<<"**", "ops/a">>, <<"**", "dev/b">>, <<"ops/*", "ops/a">>}
TheLength == [p \in ThePatterns |-> IF p = "**" THEN 2 ELSE 5]
Chain3 == {[owner |-> ann, kind |-> "person", grant |-> Wide, to |-> NoOne],
           [owner |-> bob, kind |-> "person", grant |-> Narrow, to |-> ann],
           [owner |-> bot, kind |-> "model", grant |-> Narrow, to |-> bob]}
Pair == {[owner |-> bob, kind |-> "person", grant |-> Free, to |-> NoOne],
         [owner |-> bot, kind |-> "model", grant |-> Other, to |-> bob]}
Start == {Chain3, Pair}

ClisListedTwice == <<"claude", "codex", "unknown">>

ShortValues == {<<>>, <<a>>, <<b>>, <<a, b>>, <<b, a>>}

-----------------------------------------------------------------------------
Parts == {"mandates", "decisions", "orchestrator", "audit", "attempt", "worktrees", "texts", "sandbox", "masking", "flags"}

\* Of a component that does not move, one initial state is enough.
ServicesInit ==
    /\ part \in Parts
    /\ MandatesInit
    /\ part # "mandates" => mandates = Chain3
    /\ DecisionsInit
    /\ OrchestratorInit
    /\ part # "orchestrator" => workState = [w \in Work |-> "waiting"]
    /\ AuditInit
    /\ AttemptInit
    /\ part # "attempt" => stage = "planning" /\ isolation = "off"
    /\ WorktreesInit
    /\ TextsInit
    /\ part # "texts" => schema = "none"
    /\ SandboxInit
    /\ part # "sandbox" => ~configured
    /\ MaskingInit
    /\ part # "masking" => store = <<>> /\ asks = [i \in 1 .. Cardinality(Keys) |-> CHOOSE k \in Keys : TRUE]
    /\ FlagsInit

ServicesNext ==
    /\ UNCHANGED part
    /\ \/ /\ part = "mandates" /\ MandatesNext
          /\ UNCHANGED <<decisionsVars, orchestratorVars, auditVars, attemptVars, worktreesVars,
                         textsVars, sandboxVars, maskingVars, flagsVars>>
       \/ /\ part = "decisions" /\ DecisionsNext
          /\ UNCHANGED <<mandatesVars, orchestratorVars, auditVars, attemptVars, worktreesVars,
                         textsVars, sandboxVars, maskingVars, flagsVars>>
       \/ /\ part = "orchestrator" /\ OrchestratorNext
          /\ UNCHANGED <<mandatesVars, decisionsVars, auditVars, attemptVars, worktreesVars,
                         textsVars, sandboxVars, maskingVars, flagsVars>>
       \/ /\ part = "audit" /\ AuditNext
          /\ UNCHANGED <<mandatesVars, decisionsVars, orchestratorVars, attemptVars, worktreesVars,
                         textsVars, sandboxVars, maskingVars, flagsVars>>
       \/ /\ part = "attempt" /\ AttemptNext
          /\ UNCHANGED <<mandatesVars, decisionsVars, orchestratorVars, auditVars, worktreesVars,
                         textsVars, sandboxVars, maskingVars, flagsVars>>
       \/ /\ part = "worktrees" /\ WorktreesNext
          /\ UNCHANGED <<mandatesVars, decisionsVars, orchestratorVars, auditVars, attemptVars,
                         textsVars, sandboxVars, maskingVars, flagsVars>>
       \/ /\ part = "texts" /\ TextsNext
          /\ UNCHANGED <<mandatesVars, decisionsVars, orchestratorVars, auditVars, attemptVars,
                         worktreesVars, sandboxVars, maskingVars, flagsVars>>
       \/ /\ part = "sandbox" /\ SandboxNext
          /\ UNCHANGED <<mandatesVars, decisionsVars, orchestratorVars, auditVars, attemptVars,
                         worktreesVars, textsVars, maskingVars, flagsVars>>
       \/ /\ part = "masking" /\ MaskingNext
          /\ UNCHANGED <<mandatesVars, decisionsVars, orchestratorVars, auditVars, attemptVars,
                         worktreesVars, textsVars, sandboxVars, flagsVars>>
       \/ /\ part = "flags" /\ FlagsNext
          /\ UNCHANGED <<mandatesVars, decisionsVars, orchestratorVars, auditVars, attemptVars,
                         worktreesVars, textsVars, sandboxVars, maskingVars>>

ServicesVars == <<part, mandatesVars, decisionsVars, orchestratorVars, auditVars,
                  attemptVars, worktreesVars, textsVars, sandboxVars, maskingVars, flagsVars>>

ServicesSpec == ServicesInit /\ [][ServicesNext]_ServicesVars
=============================================================================
