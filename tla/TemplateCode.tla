---------------------------- MODULE TemplateCode ----------------------------
(***************************************************************************)
(* The conditional commands in the code of a template, !!if, !!elif, !!else*)
(* and !!endif: Template::ParseHelper()                                    *)
(* (Src/WWhizTemplateManager/Template.cpp).                                *)
(*                                                                         *)
(* The code is a sequence of such commands; a condition is its value.  The *)
(* text between two commands is put out if it is not Ignored where it      *)
(* stands.  Not here: the evaluation of a condition, tags and the other    *)
(* commands.                                                               *)
(***************************************************************************)
EXTENDS Naturals, Sequences, FiniteSets, SequencesExt, FiniteSetsExt

CONSTANT MaxCommands    \* bound: commands of a code

Command(kind, cond) == [kind |-> kind, cond |-> cond]
Commands == {Command(k, c) : k \in {"if", "elif"}, c \in BOOLEAN}
            \cup {Command(k, FALSE) : k \in {"else", "endif"}}

VARIABLES
    code,       \* the commands read so far
    stack,      \* conditionalStack: of each !!if, is its present branch put out (cur), and
                \* was one of its branches (level)
    nested,     \* nestedFalseConditionals
    failed      \* the exception CONDSTACK_EMPTY was thrown

codeVars == <<code, stack, nested, failed>>

CodeInit == code = << >> /\ stack = << >> /\ nested = 0 /\ failed = FALSE

Ignored == stack # << >> /\ ~Last(stack).cur

\* Within a branch that is not put out, an !!if and all up to its !!endif are skipped.
Skipped(c) == Ignored /\ (c.kind = "if" \/ nested > 0)
Skip(c) ==
    /\ nested' = CASE c.kind = "if" -> nested + 1
                   [] c.kind = "endif" -> nested - 1
                   [] OTHER -> nested
    /\ UNCHANGED <<stack, failed>>

Push(s, cur, level) == Append(s, [cur |-> cur, level |-> level])

\* What a command makes of the stack.
If(c) == Push(stack, c.cond, c.cond)
ElifForgetsLevel(c) ==      \* mutant: no look at the branches before
    Push(Front(stack), c.cond, Last(stack).level \/ c.cond)
Elif(c) ==
    LET cur == c.cond /\ ~Last(stack).level
    IN Push(Front(stack), cur, Last(stack).level \/ cur)
Else == Push(Front(stack), ~Last(stack).level, Last(stack).level)

Obey(c) ==
    /\ IF c.kind # "if" /\ stack = << >>
       THEN failed' = TRUE /\ UNCHANGED stack
       ELSE /\ stack' = CASE c.kind = "if" -> If(c)
                           [] c.kind = "elif" -> Elif(c)
                           [] c.kind = "else" -> Else
                           [] c.kind = "endif" -> Front(stack)
            /\ UNCHANGED failed
    /\ UNCHANGED nested

ParseHelper(c) ==
    /\ ~failed
    /\ Len(code) < MaxCommands
    /\ code' = Append(code, c)
    /\ IF Skipped(c) THEN Skip(c) ELSE Obey(c)

CodeEnd ==
    /\ code # << >>
    /\ code' = << >> /\ stack' = << >> /\ nested' = 0 /\ failed' = FALSE

CodeNext == CodeEnd \/ \E c \in Commands : ParseHelper(c)
CodeSpec == CodeInit /\ [][CodeNext]_codeVars

-----------------------------------------------------------------------------
(***************************************************************************)
(* What the commands mean                                                  *)
(***************************************************************************)
Positions(kinds) == {i \in DOMAIN code : code[i].kind \in kinds}
Depth(n) == Cardinality({i \in Positions({"if"}) : i <= n})
            - Cardinality({i \in Positions({"endif"}) : i <= n})

\* Every !!elif, !!else and !!endif is in a block.
Balanced == \A i \in Positions({"elif", "else", "endif"}) : Depth(i - 1) > 0

\* The blocks that are open at the end of the code, by their !!if, and their branches.
OpenBlocks == {i \in Positions({"if"}) : \A n \in i .. Len(code) : Depth(n) >= Depth(i)}
Branches(i) == {k \in Positions({"if", "elif", "else"}) : k >= i /\ Depth(k) = Depth(i)}

\* The branch the end of the code is in is the first one with a true condition, or
\* the !!else and there is none.
Chosen(i) ==
    LET k == Max(Branches(i))
    IN /\ code[k].kind = "else" \/ code[k].cond
       /\ \A j \in Branches(i) \ {k} : ~code[j].cond

\* Text is put out exactly where every block around it has come to the branch its
\* conditions choose, and a command without its !!if is an error exactly where it is
\* one, though the reader counts the blocks in a branch it skips and keeps no more
\* than two bits of the others.
BranchesChosen ==
    /\ failed <=> ~Balanced
    /\ Balanced => (Ignored <=> \E i \in OpenBlocks : ~Chosen(i))
=============================================================================
