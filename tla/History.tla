------------------------------- MODULE History -------------------------------
(***************************************************************************)
(* The navigation history of the add-in (Src/WorkspaceWhiz/History.cpp)    *)
(* and the commands that jump through it (WWhizCommands.cpp,               *)
(* HistoryDialog.cpp).  A place is a file and a position in it.            *)
(***************************************************************************)
EXTENDS Integers, Sequences

CONSTANTS
    Places,
    MaxStackSize,   \* s_maxStackSize, 100 in the code
    NoText          \* no text document is active

ASSUME StackAssumption == MaxStackSize \in Nat \ {0, 1}

ASSUME NoTextAssumption == NoText \notin Places

VARIABLES
    stack,     \* s_stack, from head to tail
    cur,       \* the index of s_curPos; 0 when it is NULL
    here       \* external: where the caret of the active document is

vars == <<stack, cur, here>>

Init == stack = << >> /\ cur = 0 /\ here = NoText

(***************************************************************************)
(* History::Add() and UndoAdd() on a history h                             *)
(***************************************************************************)
Hist == [stack |-> stack, cur |-> cur]

KeptShort(h) == SubSeq(h.stack, 1, h.cur - 1)    \* mutant: the current entry goes too
\* What is left after the entries that follow the current one, and the head when
\* the list is full, are removed.
Kept(h) == IF h.cur = MaxStackSize THEN SubSeq(h.stack, 2, h.cur)
                                   ELSE SubSeq(h.stack, 1, h.cur)
NeverAtCurrent(s, p) == FALSE      \* mutant: duplicates are added
AtCurrent(s, p) == s # << >> /\ s[Len(s)] = p

DidAdd(h, p) == p # NoText /\ ~AtCurrent(Kept(h), p)
Add(h, p) ==
    LET s == IF DidAdd(h, p) THEN Append(Kept(h), p) ELSE Kept(h)
    IN IF p = NoText THEN h ELSE [stack |-> s, cur |-> Len(s)]

UndoAddKeepsCur(h) ==              \* mutant: s_curPos is not set to the tail
    IF h.stack = << >> THEN h
    ELSE [stack |-> SubSeq(h.stack, 1, Len(h.stack) - 1), cur |-> h.cur]
UndoAdd(h) ==
    IF h.stack = << >> THEN h
    ELSE [stack |-> SubSeq(h.stack, 1, Len(h.stack) - 1), cur |-> Len(h.stack) - 1]

Becomes(h) == stack' = h.stack /\ cur' = h.cur

(***************************************************************************)
(* The commands                                                            *)
(***************************************************************************)
\* The user moves the caret, opens or closes a document.
Move(p) == here' = p /\ UNCHANGED <<stack, cur>>

\* A jump that gets to p (GotoTag(), the header flip, the previous or next file,
\* which need not open as text): PreAdd(), the jump, Add().
Jump(p) == /\ Becomes(Add(Add(Hist, here), p))
           /\ here' = p

\* GotoTag() or the header flip fails: UndoAdd() if PreAdd() added.  The document
\* may be open at p all the same, when the tag is not found in it.
JumpFails(p) ==
    /\ Becomes(IF DidAdd(Hist, here) THEN UndoAdd(Add(Hist, here)) ELSE Add(Hist, here))
    /\ here' = p

\* Previous and next file: nothing is undone when the document does not open.
OpenFails == Becomes(Add(Hist, here)) /\ UNCHANGED here

\* Goto() the entry i, which may not open.
Goto(i) == /\ cur' = i /\ here' \in {here, stack[i]}
           /\ UNCHANGED stack

Back == cur > 1 /\ Goto(cur - 1)
Forward == cur < Len(stack) /\ Goto(cur + 1)
\* OK in the History dialog.
Select(i) == Goto(i)

Reset == /\ stack' = << >> /\ cur' = 0
         /\ UNCHANGED here

Next ==
    \/ \E p \in Places \cup {NoText} : Move(p) \/ Jump(p) \/ JumpFails(p)
    \/ OpenFails \/ Back \/ Forward \/ Reset
    \/ \E i \in 1 .. Len(stack) : Select(i)

Spec == Init /\ [][Next]_vars

(***************************************************************************)
(* Properties                                                              *)
(***************************************************************************)
\* The list never grows over its limit, and s_curPos points to one of its entries
\* whatever was dropped from either end: it is NULL exactly when the list is
\* empty.
CurInStack ==
    /\ stack \in Seq(Places) /\ Len(stack) <= MaxStackSize
    /\ cur \in 0 .. Len(stack) /\ (cur = 0 <=> stack = << >>)
    /\ here \in Places \cup {NoText}

\* Two entries in a row are never the same place, so that each Back and each
\* Forward leads somewhere else; Add() only compares with one of them.
NoRepeat == \A i \in 1 .. Len(stack) - 1 : stack[i] # stack[i + 1]

\* After a jump that leads elsewhere, the entry Back leads to is the place the
\* user came from, also when the list was full or the user had gone back in it.
JumpComesBack ==
    [][\A p \in Places :
          Jump(p) /\ here \notin {p, NoText} =>
             cur' > 1 /\ stack'[cur'] = p /\ stack'[cur' - 1] = here]_vars
=============================================================================
