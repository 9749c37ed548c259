--------------------------- MODULE SandboxPolicy ---------------------------
(***************************************************************************)
(* What the skills of a node allow its agent (mt-core/sandbox.rs): the     *)
(* profiles of the project's configuration, the skills its a.md declares,  *)
(* and the policy of a room, of a run and of the host.                     *)
(***************************************************************************)
EXTENDS FiniteSets

CONSTANTS
    Skills,         \* names that profiles and nodes use
    Programs

VARIABLES
    configured,     \* the configuration has skill_profiles
    profiles,       \* those of some skills
    hasFlag,        \* the node has an a.md
    declared        \* its skills

sandboxVars == <<configured, profiles, hasFlag, declared>>

Profile == [allow : SUBSET Programs, network : BOOLEAN]
Permissive == [enforcing |-> FALSE, allow |-> {}, network |-> TRUE]

\* Mutant: a skill without a profile is not restricted.
UnionUnlessUnknown(skills) ==
    IF \E s \in skills : s \notin DOMAIN profiles THEN Permissive
    ELSE [enforcing |-> TRUE,
          allow |-> UNION {profiles[s].allow : s \in skills},
          network |-> \E s \in skills : profiles[s].network]

\* What any of the skills allows; one without a profile adds nothing.
ProfilesUnion(skills) ==
    LET known == skills \cap DOMAIN profiles
    IN  [enforcing |-> TRUE,
         allow |-> UNION {profiles[s].allow : s \in known},
         network |-> \E s \in known : profiles[s].network]

\* policy_for: a project without profiles is not restricted.
PolicyFor(skills) == IF configured THEN ProfilesUnion(skills) ELSE Permissive

HostCeiling == PolicyFor(DOMAIN profiles)

\* policy_for_node: a room without declared skills has the host's.
PolicyForNode == IF hasFlag /\ declared # {} THEN PolicyFor(declared) ELSE HostCeiling

\* What run_node gives a run in its environment.
PolicyOfRun == PolicyFor(IF hasFlag THEN declared ELSE {})

\* check_command of a policy; a command that is only white space passes.
Allowed(policy, program) == ~policy.enforcing \/ program \in policy.allow

NetworkAllowed(policy) == ~policy.enforcing \/ policy.network

SandboxInit ==
    /\ configured \in BOOLEAN
    /\ profiles \in UNION {[known -> Profile] : known \in SUBSET Skills}
    /\ ~configured => profiles = <<>>
    /\ hasFlag = FALSE /\ declared = {}

\* a.md is written while the host keeps the configuration it started with.
Declare ==
    /\ hasFlag' = TRUE
    /\ declared' \in SUBSET Skills
    /\ UNCHANGED <<configured, profiles>>

SandboxNext == Declare

-----------------------------------------------------------------------------
(* Properties.                                                             *)

\* No node has more than the host: whatever skills a node declares, known or not, its rooms
\* and its runs may do only what some profile of the project allows (policy_for,
\* policy_for_node, host_ceiling).
PolicyWithinCeiling ==
    \A policy \in {PolicyForNode, PolicyOfRun} :
        /\ \A p \in Programs : Allowed(policy, p) => Allowed(HostCeiling, p)
        /\ NetworkAllowed(policy) => NetworkAllowed(HostCeiling)
=============================================================================
