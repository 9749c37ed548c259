----------------------------- MODULE Worktrees -----------------------------
(***************************************************************************)
(* Worktrees of one clone: those of developers, each on a branch mt/<name> *)
(* that mt made for it, and the detached ones of runs (mt-core/worktree.rs,*)
(* mt/commands/worktree.rs).  A worktree is known by the last part of its  *)
(* path; git keeps a record of it after its directory is gone, until it is *)
(* pruned.                                                                 *)
(*                                                                         *)
(* People work in a worktree and may switch it to another branch.          *)
(***************************************************************************)
EXTENDS Integers, FiniteSets

CONSTANTS
    DevNames, RunNames,     \* of worktrees; the name of a run ends in its token
    OtherBranch             \* a branch mt did not make

\* Nobody names a worktree by hand as those of runs are named, <node-hash>-<token>.
ASSUME WorktreesAssumption == DevNames \cap RunNames = {}

Branches == DevNames \cup {OtherBranch}     \* <name> stands for mt/<name>
Detached == "detached HEAD"

VARIABLES
    entries,        \* git worktree list: name -> [branch, edited, there]
    branches,       \* branches there are
    mtCommand       \* the last mt command: its name and the worktree it was for

worktreesVars == <<entries, branches, mtCommand>>

NoCommandYet == <<"none", "none">>

Entry(branch) == [branch |-> branch, edited |-> FALSE, there |-> TRUE]

WithoutEntry(name) == [w \in DOMAIN entries \ {name} |-> entries[w]]

WorktreesInit ==
    /\ entries = <<>>
    /\ branches = {OtherBranch}
    /\ mtCommand = NoCommandYet

\* git worktree add -b: neither the branch nor the worktree may exist.
AddWorktree(name, branch) ==
    /\ name \notin DOMAIN entries
    /\ entries' = [w \in DOMAIN entries \cup {name} |->
                     IF w = name THEN Entry(branch) ELSE entries[w]]

\* mt worktree create.  If the description cannot be set, the clean worktree and its branch
\* are removed again.
CreateDev(name) ==
    /\ name \notin branches
    /\ name \notin DOMAIN entries
    /\ \/ AddWorktree(name, name) /\ branches' = branches \cup {name}
       \/ UNCHANGED <<entries, branches>>
    /\ mtCommand' = <<"create", name>>

CreateRun(name) ==
    /\ AddWorktree(name, Detached)
    /\ mtCommand' = <<"run", name>>
    /\ UNCHANGED branches

\* Mutant: whatever has the name is removed.
BelongsByName(name) == TRUE

\* The worktree is still on the branch mt made for it.
Belongs(name) == entries[name].branch = name

\* mt worktree remove: git refuses edits unless forced; then the branch is deleted, which
\* can fail by itself.
RemoveDev(name, force) ==
    /\ name \in DOMAIN entries
    /\ Belongs(name)
    /\ entries[name].there /\ entries[name].edited => force
    /\ entries' = WithoutEntry(name)
    /\ branches' \in {branches \ {name}, branches}
    /\ mtCommand' = <<IF force THEN "remove --force" ELSE "remove", name>>

\* remove_run_worktree, forced, after a run.
RemoveRun(name) ==
    /\ name \in DOMAIN entries
    /\ entries' = WithoutEntry(name)
    /\ mtCommand' = <<"run ended", name>>
    /\ UNCHANGED branches

\* git worktree prune drops the records of what is not there.
Prune ==
    /\ entries' = [w \in {v \in DOMAIN entries : entries[v].there} |-> entries[w]]
    /\ mtCommand' = <<"prune", "none">>
    /\ UNCHANGED branches

\* A person edits, commits, switches to a branch no worktree is on, or deletes the directory.
Person(name) ==
    /\ name \in DOMAIN entries
    /\ entries[name].there
    /\ \/ entries' = [entries EXCEPT ![name].edited = ~@]
       \/ \E b \in branches :
            /\ \A w \in DOMAIN entries : entries[w].branch # b
            /\ ~entries[name].edited
            /\ entries' = [entries EXCEPT ![name].branch = b]
       \/ entries' = [entries EXCEPT ![name].there = FALSE]
    /\ mtCommand' = NoCommandYet
    /\ UNCHANGED branches

WorktreesNext ==
    \/ Prune
    \/ \E name \in DevNames : CreateDev(name) \/ \E force \in BOOLEAN : RemoveDev(name, force)
    \/ \E name \in RunNames : CreateRun(name) \/ RemoveRun(name)
    \/ \E name \in DevNames \cup RunNames : Person(name)

-----------------------------------------------------------------------------
(* Properties.                                                             *)

\* mt takes away a branch only with the worktree that was on it, never one that people
\* moved to another branch or one that is checked out elsewhere, and no edits unless it is
\* told to (remove_dev_worktree: "іншу гілку не видаляє навіть за збігу імені").
OnlyOwnRemoved ==
    [][/\ \A b \in branches \ branches' :
            \E w \in DOMAIN entries \ DOMAIN entries' : entries[w].branch = b
       /\ \A w \in DevNames \cap (DOMAIN entries \ DOMAIN entries') :
            entries[w].there => /\ entries[w].branch = w
                                /\ entries[w].edited => mtCommand'[1] = "remove --force"]_worktreesVars
=============================================================================
