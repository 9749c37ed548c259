--------------------------- MODULE ExecutorFlags ---------------------------
(***************************************************************************)
(* The executor of a node is a flag file, a.md or h.md, with its settings  *)
(* in front matter (mt-core/lib.rs write_executor_flag), which people edit *)
(* and the runner and the sandbox read back through a parser of their own  *)
(* (mt-core/frontmatter.rs, a port of a JavaScript one).                   *)
(*                                                                         *)
(* A front matter is a sequence of lines.  Of a line the parser looks at   *)
(* its indentation, at a dash or a key, and at the text after them, with   *)
(* or without quotes; texts are classes: plain ones, those that look like  *)
(* a number, a Boolean or null, and those that need quotes.  Maps that are *)
(* items of a list, inline lists and escaped quotes are left out.          *)
(***************************************************************************)
EXTENDS Naturals, Sequences, TLC, SequencesExt

CONSTANTS
    Plain,          \* texts that are read back as they are
    Typed,          \* texts that look like a number, a Boolean or null
    Special,        \* texts with YAML_SPECIAL characters
    Tiers,          \* model tiers
    MaxSkills,      \* bound on the skills of a node
    MaxNotes        \* bound on the lines people add

NoText == "none"

ASSUME FlagsAssumption ==
    /\ {MaxSkills, MaxNotes} \subseteq Nat
    /\ Tiers \subseteq Plain
    /\ Plain \cap Typed = {}
    /\ NoText \notin Plain

VARIABLES
    agentFlag,      \* the lines of a.md, or NoFile
    humanFlag,      \* those of h.md
    given,          \* what the last command was given
    torn,           \* that command has not removed the other flag, or died before it
    notes           \* lines people added to a.md since it was written

flagsVars == <<agentFlag, humanFlag, given, torn, notes>>

-----------------------------------------------------------------------------
(* serialize_yaml and parse_yaml_block.                                    *)

NoFile == <<>>
FlagLine(kind, indent, key, text, quoted) ==
    [kind |-> kind, indent |-> indent, key |-> key, text |-> text, quoted |-> quoted]
BlankLine == FlagLine("blank", 0, "none", NoText, FALSE)
Comment   == FlagLine("comment", 0, "none", NoText, FALSE)

\* Mutant: no text is quoted.
NeverQuoted(text) == FALSE

\* serialize_scalar
Quoted(text) == text \in Special

Field(key, text) == FlagLine("entry", 0, key, text, Quoted(text))

ListField(key, texts) ==
    <<FlagLine("entry", 0, key, NoText, FALSE)>>
        \o [i \in DOMAIN texts |-> FlagLine("item", 2, "none", texts[i], Quoted(texts[i]))]

AgentFields(tier, skills) ==
    <<Field("model_tier", tier)>> \o ListField("skills", skills) \o <<Field("interactive", "false")>>
HumanFields(qualification) == <<Field("qualification", qualification)>>

\* A text without quotes that is no text to the parser: js_number, true, null, a list.
Misread(text) == text \in Typed \cup Special

\* parse_scalar
Scalar(line) ==
    IF ~line.quoted /\ Misread(line.text)
    THEN [type |-> "other", texts |-> <<>>]
    ELSE [type |-> "text", texts |-> <<line.text>>]

Nothing == [type |-> "null", texts |-> <<>>]

\* The lines of a list or a map that follow the key before them.
Inner(lines) ==
    LET ends == {i \in DOMAIN lines : lines[i].kind # "blank" /\ lines[i].indent = 0}
    IN  IF ends = {} THEN lines
        ELSE SubSeq(lines, 1, (CHOOSE i \in ends : \A j \in ends : i <= j) - 1)

\* An item with lines that are no items of their own under it is a map, not a text.
Items(inner) ==
    LET some   == {i \in DOMAIN inner : inner[i].kind # "blank"}
        begins == {i \in some : /\ inner[i].kind = "item"
                                /\ \A j \in some : \/ inner[i].indent <= inner[j].indent
                                                    \/ \E k \in some : k < j}
        alone  == {i \in begins : \A j \in some \ begins :
                                    i < j => \E k \in begins : i < k /\ k < j}
        texts  == {i \in alone : Scalar(inner[i]).type = "text"}
    IN  [type  |-> "list",
         texts |-> [k \in 1 .. Cardinality(texts) |->
                       inner[CHOOSE i \in texts : Cardinality({j \in texts : j <= i}) = k].text]]

\* Lines before a key of the first level are passed over, a later key replaces an earlier.
ParseBlock(lines) ==
    LET entries == {i \in DOMAIN lines : lines[i].kind = "entry" /\ lines[i].indent = 0}
        value(i) ==
            LET next == SubSeq(lines, i + 1, Len(lines)) IN
            IF lines[i].text # NoText THEN Scalar(lines[i])
            ELSE IF next = <<>> THEN Nothing
            ELSE IF next[1].kind = "blank" \/ next[1].indent = 0 THEN Nothing
            ELSE IF next[1].kind = "item" THEN Items(Inner(next))
            ELSE [type |-> "map", texts |-> <<>>]
    IN  [key \in {lines[i].key : i \in entries} |->
            value(CHOOSE i \in entries :
                      lines[i].key = key /\ \A j \in entries : lines[j].key = key => j <= i)]

-----------------------------------------------------------------------------
(* The readers.                                                            *)

\* scan_dir: a.md counts first.
Mode == IF agentFlag # NoFile THEN "agent" ELSE IF humanFlag # NoFile THEN "human" ELSE "unassigned"

\* read_executor_flag, node_skills: items that are no texts are dropped.
SkillsRead ==
    LET fields == ParseBlock(agentFlag)
    IN  IF "skills" \in DOMAIN fields /\ fields["skills"].type = "list"
        THEN fields["skills"].texts ELSE <<>>

\* flag_str
TierRead ==
    LET fields == ParseBlock(agentFlag)
    IN  IF "model_tier" \in DOMAIN fields /\ fields["model_tier"].type = "text"
        THEN fields["model_tier"].texts ELSE <<>>

-----------------------------------------------------------------------------
FlagsInit ==
    /\ agentFlag = NoFile /\ humanFlag = NoFile
    /\ given = [mode |-> "unassigned", tier |-> NoText, skills |-> <<>>]
    /\ torn = FALSE
    /\ notes = 0

\* set_executor up to the rename of the new flag.
WriteFlag ==
    /\ torn' = TRUE
    /\ \/ \E tier \in Tiers, skills \in SeqOf(Plain \cup Special, MaxSkills) :
             /\ agentFlag' = AgentFields(tier, skills)
             /\ given' = [mode |-> "agent", tier |-> tier, skills |-> skills]
             /\ notes' = 0
             /\ UNCHANGED humanFlag
       \/ \E qualification \in Plain \cup Special \cup Typed :
             /\ humanFlag' = HumanFields(qualification)
             /\ given' = [mode |-> "human", tier |-> NoText, skills |-> <<>>]
             /\ UNCHANGED <<agentFlag, notes>>

\* The other flag goes second; a process that dies before leaves both.
RemoveOther ==
    /\ torn
    /\ torn' = FALSE
    /\ IF given.mode = "agent"
       THEN humanFlag' = NoFile /\ UNCHANGED <<agentFlag, notes>>
       ELSE agentFlag' = NoFile /\ notes' = 0 /\ UNCHANGED humanFlag
    /\ UNCHANGED given

\* People add a comment or an empty line between two entries, or indent a list otherwise.
EditFlag ==
    /\ agentFlag # NoFile
    /\ notes < MaxNotes
    /\ notes' = notes + 1
    /\ \/ \E i \in 1 .. Len(agentFlag) + 1, note \in {BlankLine, Comment} :
             /\ i <= Len(agentFlag) => agentFlag[i].kind = "entry"
             /\ agentFlag' = InsertAt(agentFlag, i, note)
       \/ \E indent \in {1, 4} :
             agentFlag' = [i \in DOMAIN agentFlag |->
                              IF agentFlag[i].kind = "item"
                              THEN [agentFlag[i] EXCEPT !.indent = indent]
                              ELSE agentFlag[i]]
    /\ UNCHANGED <<humanFlag, given, torn>>

FlagsNext == WriteFlag \/ RemoveOther \/ EditFlag

-----------------------------------------------------------------------------
(* Properties.                                                             *)

\* The parser reads back what the command wrote, through comments, empty lines and another
\* indentation: the runner's tier and the skills that become the policy of the node are the
\* ones given, in order, and a command that came to its end leaves one flag, of its mode
\* (write_executor_flag, parse_yaml_block).
FlagReadBack ==
    /\ given.mode = "agent" => TierRead = <<given.tier>> /\ SkillsRead = given.skills
    /\ ~torn => /\ Mode = given.mode
                /\ agentFlag = NoFile \/ humanFlag = NoFile
=============================================================================
