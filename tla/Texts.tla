------------------------------- MODULE Texts -------------------------------
(***************************************************************************)
(* Translated texts of a node (mt-core/i18n.rs): a file is cut into what a *)
(* translator may change and what stays verbatim, and a translation is put *)
(* over the file only as long as it is of that version.  The reader that a *)
(* translation must not disturb is signal.rs check_commands.               *)
(*                                                                         *)
(* A line is what the two readers tell apart, with its number as its text: *)
(* a code fence, the heading of ## Check, of a section of prose, a smaller *)
(* heading, or any other line.  A translator turns a line it is given into *)
(* another one of that kind.                                               *)
(***************************************************************************)
EXTENDS Integers, Sequences

CONSTANTS
    MaxLines        \* bound: lines of the file

ASSUME TextsAssumption == MaxLines \in Nat

LineKinds == {"fence", "check", "section", "heading", "text"}

VARIABLES
    schema,         \* the frontmatter: "none", of the known schema, or "unknown"
    base,           \* the lines of the file in base language
    made,           \* what the last translation was made from
    shown           \* the file in the worktree

textsVars == <<schema, base, made, shown>>

Line(kind, k) == [kind |-> kind, text |-> k, translated |-> FALSE]

\* Mutant: every heading ends a machine section.
HeadingEndsSection(kind) == kind \in {"check", "section", "heading"}

\* Only a heading of the second level begins another section.
BeginsSection(kind) == kind \in {"check", "section"}

\* segment_body: whether line k of the body is in a fence, and in a machine section.
Scanned(lines) ==
    LET at[k \in 0 .. Len(lines)] ==
            IF k = 0 THEN [fence |-> FALSE, machine |-> FALSE]
            ELSE LET before == at[k - 1]
                     kind == lines[k].kind
                 IN  [fence |-> IF kind = "fence" THEN ~before.fence ELSE before.fence,
                      machine |-> IF ~before.fence /\ BeginsSection(kind) THEN kind = "check"
                                  ELSE before.machine]
    IN  at

\* segment: fail closed on an unknown schema.
Translatable(lines) ==
    {k \in DOMAIN lines : /\ schema # "unknown"
                          /\ lines[k].kind = "text"
                          /\ ~Scanned(lines)[k].fence
                          /\ ~Scanned(lines)[k].machine}

Translated(lines) ==
    [k \in DOMAIN lines |->
        IF k \in Translatable(lines) THEN [lines[k] EXCEPT !.translated = TRUE] ELSE lines[k]]

\* check_commands: from the heading to the next section, fences or not.
CheckCommands(lines) ==
    {lines[k] : k \in {j \in DOMAIN lines :
        /\ lines[j].kind \in {"text", "fence"}
        /\ \E i \in 1 .. (j - 1) :
             /\ lines[i].kind = "check"
             /\ \A h \in (i + 1) .. j : lines[h].kind # "section"}}

\* Mutant: a translation is as good as its file.
FreshAlways(of) == TRUE

\* is_fresh: source_hash is the hash of the file in the worktree.
Fresh(of) == of = shown

TextsInit ==
    /\ schema \in {"none", "known", "unknown"}
    /\ base = <<>>
    /\ made = <<>>
    /\ shown = <<>>

\* Somebody edits the file; the worktree gets the new version.
WriteLine ==
    /\ Len(base) < MaxLines
    /\ \E kind \in LineKinds : base' = Append(base, Line(kind, Len(base) + 1))
    /\ shown' = base'
    /\ UNCHANGED <<schema, made>>

Translate ==
    /\ made' = base
    /\ UNCHANGED <<schema, base, shown>>

\* materialize: over the file of the worktree, as long as that is what was translated.
Materialize ==
    /\ Fresh(made)
    /\ shown' = Translated(made)
    /\ UNCHANGED <<schema, base, made>>

TextsNext == WriteLine \/ Translate \/ Materialize

-----------------------------------------------------------------------------
(* Properties.                                                             *)

\* Headings stand outside of fences: what is between them is an example.
HeadingsOutside(lines) ==
    \A k \in DOMAIN lines : BeginsSection(lines[k].kind) => ~Scanned(lines)[k].fence

\* Whatever a translator makes of the text, the machine reads what it read in the base
\* language, of the version that is there now: the commands of ## Check are the same
\* (i18n.rs segment, materialize; signal.rs check_commands).
CheckReadAsBase == HeadingsOutside(base) => CheckCommands(shown) = CheckCommands(base)
=============================================================================
