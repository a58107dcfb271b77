----------------------------- MODULE FileSearch -----------------------------
(***************************************************************************)
(* The searches for the variants of a file: FileList::FindExact(),         *)
(* FindNext() and FindPrevious() (Src/WWhizInterface/FileList.cpp), and    *)
(* the header flip built on them (Src/WorkspaceWhiz/WWhizCommands.cpp).    *)
(*                                                                         *)
(* A file is a record of its directory, its title up to the first dot, the *)
(* extensions between the dots ("inner") and the last extension; 0 stands  *)
(* for none.  Names are compared as the code compares them, in lower case. *)
(***************************************************************************)
EXTENDS Entries, FiniteSetsExt

CONSTANTS
    Exts    \* the extensions of the header flip preferences, in their order
ASSUME ExtsAssumption == Exts \in Seq(Nat)

NoExt == 0
\* SetExt("")
WithoutExt(f) == [f EXCEPT !.inner = NoExt, !.ext = NoExt]
\* The name up to its last dot, when f has an extension.
Base(f) == <<f.title, f.inner>>
SameExt(f, g) == f.inner = g.inner /\ f.ext = g.ext

\* The order of a list, by title, extensions and directory: CompareElements().
ExtKey(f) == IF f.inner = NoExt THEN <<f.ext, NoExt>> ELSE <<f.inner, f.ext>>
SortKey(f) == <<f.title, ExtKey(f)[1], ExtKey(f)[2], f.dir>>
FileBefore(f, g) ==
    \E k \in 1 .. 4 : /\ SortKey(f)[k] < SortKey(g)[k]
                      /\ \A m \in 1 .. k - 1 : SortKey(f)[m] = SortKey(g)[m]
Sort(S) == SetToSortSeq(S, FileBefore)

\* A list of files as the code keeps it: sorted, with no file twice.  A name with
\* something between two dots has an extension.
IsFileList(l) ==
    /\ l \in Seq([dir : Nat, title : Nat, inner : Nat, ext : Nat])
    /\ \A i, j \in DOMAIN l : i < j => FileBefore(l[i], l[j])
    /\ \A i \in DOMAIN l : l[i].ext = NoExt => l[i].inner = NoExt

(***************************************************************************)
(* FileList: positions in a list, 0 when there is none (-1 in the code)    *)
(***************************************************************************)
FirstOf(S) == IF S = {} THEN 0 ELSE Min(S)
LastOf(S) == IF S = {} THEN 0 ELSE Max(S)

FindExact(l, f) ==
    FirstOf({i \in 1 .. Len(l) : /\ f.ext # NoExt => SameExt(f, l[i])
                                 /\ f.title = l[i].title /\ f.dir = l[i].dir})

Variants(l, f) == {i \in 1 .. Len(l) : Base(l[i]) = Base(f)}

FindNextNoWrap(l, start, f) ==      \* mutant: the second loop is missing
    FirstOf({i \in Variants(l, f) : i > start})
FindNext(l, start, f) ==
    LET after == {i \in Variants(l, f) : i > start}
    IN IF after # {} THEN Min(after) ELSE FirstOf({i \in Variants(l, f) : i < start})

FindPrevious(l, start, f) ==
    LET before == {i \in Variants(l, f) : i < start}
    IN IF before # {} THEN Max(before) ELSE LastOf({i \in Variants(l, f) : i > start})

\* WWFileFindNext and WWFileFindPrev look for the file with its extension, then
\* without it.
CurrentPos(l, f) == IF FindExact(l, f) # 0 THEN FindExact(l, f)
                                           ELSE FindExact(l, WithoutExt(f))
SearchedAs(l, f) == IF FindExact(l, f) # 0 THEN f ELSE WithoutExt(f)
NextFile(l, f) ==
    IF CurrentPos(l, f) = 0 THEN 0 ELSE FindNext(l, CurrentPos(l, f), SearchedAs(l, f))
PreviousFile(l, f) ==
    IF CurrentPos(l, f) = 0 THEN 0 ELSE FindPrevious(l, CurrentPos(l, f), SearchedAs(l, f))

(***************************************************************************)
(* The header flip                                                         *)
(***************************************************************************)
ExtIndex(f) == FirstOf({k \in 1 .. Len(Exts) : Exts[k] = f.ext})
\* The extensions after f's own, around the list to the one before it.  With one
\* extension the loop looks at that one.
FlipExts(f) ==
    LET n == Len(Exts)
        k == ExtIndex(f)
    IN IF n = 1 THEN Exts ELSE [d \in 1 .. n - 1 |-> Exts[((k + d - 1) % n) + 1]]

\* Where FindNext() leads from start, one step after the other.
Walk(l, start, f) ==
    LET at[k \in 0 .. Len(l)] ==
            IF k = 0 THEN start
            ELSE IF at[k - 1] = 0 THEN 0 ELSE FindNext(l, at[k - 1], f)
    IN at
\* The steps of the loop in MatchFromFileList(), until it is back at the start, that
\* lead to a file the flip may open.
FlipSteps(l, f, disk) ==
    LET start == FindExact(l, f)
        at == Walk(l, start, f)
        exts == ToSet(FlipExts(f))
    IN {k \in 1 .. Len(l) : /\ \A m \in 1 .. k : at[m] \notin {0, start}
                            /\ l[at[k]].ext \in exts /\ l[at[k]] \in disk}

\* Mutant: the directory is not looked at.
FromFileListAnywhere(l, f, disk) ==
    LET at == Walk(l, FindExact(l, f), f)
        good == FlipSteps(l, f, disk)
    IN IF good = {} THEN << >> ELSE <<l[at[Min(good)]]>>

\* MatchFromFileList(): the first variant with another extension of the list that
\* exists, in f's directory if there is one, else in any; a sequence of that file.
FromFileList(l, f, disk) ==
    LET at == Walk(l, FindExact(l, f), f)
        good == FlipSteps(l, f, disk)
        near == {k \in good : l[at[k]].dir = f.dir}
    IN IF good = {} THEN << >> ELSE <<l[at[Min(IF near # {} THEN near ELSE good)]]>>

\* The files beside f on disk, whose name is f's title and one of the extensions.
Siblings(f, disk) ==
    LET beside == [d \in 1 .. Len(FlipExts(f)) |->
                      [f EXCEPT !.inner = NoExt, !.ext = FlipExts(f)[d]]]
    IN EntriesAt(beside, {d \in DOMAIN beside : beside[d] \in disk})

\* The files HeaderFlip() tries to open, in this order, on the workspace w.
FlipTargets(w, f) ==
    LET found(l) == FromFileList(l, f, w.disk)
    IN IF f.ext = NoExt \/ ExtIndex(f) = 0 THEN << >>
       ELSE found(w.project) \o found(w.active) \o Siblings(f, w.disk) \o found(w.global)
=============================================================================
