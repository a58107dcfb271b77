----------------------------- MODULE Templates -----------------------------
(***************************************************************************)
(* The code templates: the groups read from *.WWTpl files                  *)
(* (Src/WWhizTemplateManager/TemplateManager.cpp, TemplateGroup.cpp), the  *)
(* registry they are kept in, and the two dialogs on them                  *)
(* (Src/WorkspaceWhiz/TemplateSelectDialog.cpp, TemplateFileListDialog.cpp)*)
(* and WWTemplateComplete.                                                 *)
(*                                                                         *)
(* A file is written in versions; the version is its time stamp.  Other    *)
(* programs write, delete and lock files at any time, in the middle of a   *)
(* refresh as well.                                                        *)
(***************************************************************************)
EXTENDS Entries, FiniteSetsExt

CONSTANTS
    Files,      \* template files, numbers in the order of their names
    Local,      \* those in the Templates directory of the add-in
    Text,       \* of each version, the kinds of its lines
    MaxTime     \* bound: the number of versions

\* The words with !! that begin a part of a template; the kinds of lines.
Sections == {"code", "memo", "params", "dialog", "key"}
Kinds == Sections \cup {"block", "open", "end", "next", "text"}

ASSUME FilesAssumption == Files \subseteq Nat /\ IsFiniteSet(Files) /\ Local \subseteq Files
ASSUME TextAssumption == MaxTime \in Nat /\ Text \in Seq(Seq(Kinds)) /\ MaxTime <= Len(Text)

VARIABLES
    now,        \* the last version written
    disk,       \* of each file its version, 0 when it is not there
    locked,     \* external: the files another program keeps from being opened
    groups,     \* m_files: the file, m_active, m_timeStamp (0 at first) and the
                \* version m_templates are of (read; 0 when there are none)
    registry,   \* FileList2
    open,       \* the dialogs: "none", "select", "list", or the list over the
                \* selection, "both"
    wanted      \* history: the groups and checks of the last OK that are to be there

vars == <<now, disk, locked, groups, registry, open, wanted>>
diskVars == <<now, disk, locked>>

FilesOf(gs) == {gs[k].file : k \in DOMAIN gs}

(***************************************************************************)
(* TemplateGroup::Refresh(), the parser.  A line is of a kind: "block" is  *)
(* [name], "open" begins like one, "code", "memo", "dialog", "params",     *)
(* "key", "end" and "next" are the words with !!, "text" is all others.    *)
(* The first line is the group's name.  Of a template, each part is the    *)
(* numbers of its lines.                                                   *)
(***************************************************************************)
NewTemplate(n) == [line |-> n, code |-> << >>, memo |-> << >>, params |-> << >>,
                   pages |-> << >>, key |-> 0]

StartsOnce(p, k) == k = "block" /\ p.state = "find"   \* mutant: the end of one is no start
Starts(p, k) == k = "block" /\ p.state \in {"find", "template"}
\* One line, in the state and with the templates found so far; "page" is the dialog
\* with curDialog set.
ParseLine(p, n, k) ==
    LET cur == Len(p.list)
        pages == p.list[cur].pages
    IN CASE Starts(p, k) -> [state |-> "template", list |-> Append(p.list, NewTemplate(n))]
         [] p.state = "template" /\ ~Starts(p, k) /\ k \in {"block", "open"} ->
              [p EXCEPT !.state = "find"]
         [] p.state = "template" /\ k \in Sections -> [p EXCEPT !.state = k]
         [] p.state \in {"code", "memo", "params", "dialog", "page"} /\ k = "end" ->
              [p EXCEPT !.state = "template"]
         [] p.state \in {"code", "memo", "params"} /\ k # "end" ->
              [p EXCEPT !.list[cur][p.state] = Append(@, n)]
         [] p.state \in {"dialog", "page"} /\ k = "next" ->
              [p EXCEPT !.state = "page", !.list[cur].pages = Append(@, << >>)]
         [] p.state = "dialog" /\ k \notin {"end", "next"} ->
              [p EXCEPT !.state = "page", !.list[cur].pages = Append(@, <<n>>)]
         [] p.state = "page" /\ k \notin {"end", "next"} ->
              [p EXCEPT !.list[cur].pages[Len(pages)] = Append(@, n)]
         [] p.state = "key" -> [p EXCEPT !.state = "template", !.list[cur].key = n]
         [] OTHER -> p

Parse(lines) ==
    LET upTo[n \in 0 .. Len(lines)] ==
            IF n <= 1 THEN [state |-> "find", list |-> << >>]
            ELSE ParseLine(upTo[n - 1], n, lines[n])
    IN upTo[Len(lines)].list

(***************************************************************************)
(* TemplateGroup::Refresh(), the file.  It is looked at in the disk d1 and *)
(* opened in the disk d2.                                                  *)
(***************************************************************************)
ReloadedStampFirst(g, d1, d2) ==      \* mutant: the stamp is set before Open()
    IF d1[g.file] \in {0, g.stamp} THEN g
    ELSE [g EXCEPT !.stamp = d1[g.file],
                   !.read = IF g.file \in locked THEN 0 ELSE d2[g.file]]
Reloaded(g, d1, d2) ==
    IF d1[g.file] \in {0, g.stamp} THEN g
    ELSE IF d2[g.file] = 0 \/ g.file \in locked THEN [g EXCEPT !.read = 0]
    ELSE [g EXCEPT !.stamp = d1[g.file], !.read = d2[g.file]]

\* A new group; m_active is not initialized, so it is any value of on.
NewGroup(f, on) == Reloaded([file |-> f, active |-> on, stamp |-> 0, read |-> 0], disk, disk)

(***************************************************************************)
(* TemplateManager                                                         *)
(***************************************************************************)
\* What Refresh() may make of the groups gs while the disk becomes d: the files of
\* the directory that are not known are added, in the order of their names, then
\* each group is refreshed.
Refreshed(gs, d) ==
    LET new == InOrder({f \in Local \ FilesOf(gs) : disk[f] # 0})
    IN {LET all == gs \o [k \in DOMAIN new |-> NewGroup(new[k], on[k])]
        IN [k \in DOMAIN all |-> Reloaded(all[k], disk, d)] : on \in [DOMAIN new -> BOOLEAN]}

\* Refresh() of gs; a file may change after it was looked at and before it is opened.
RefreshOf(gs) ==
    /\ \/ UNCHANGED <<now, disk>>
       \/ \E f \in Files \ locked :
             \/ /\ now < MaxTime /\ now' = now + 1
                /\ disk' = [disk EXCEPT ![f] = now']
             \/ /\ disk[f] # 0 /\ UNCHANGED now
                /\ disk' = [disk EXCEPT ![f] = 0]
    /\ groups' \in Refreshed(gs, disk')

Saved(gs) == [k \in DOMAIN gs |-> [file |-> gs[k].file, active |-> gs[k].active]]

\* The entries LoadRegistry() reads: up to one whose file is missing, as the time
\* stamp behind that name is taken for the next entry.
Readable(reg) ==
    LET gone == {k \in DOMAIN reg : disk[reg[k].file] = 0}
    IN SubSeq(reg, 1, IF gone = {} THEN Len(reg) ELSE Min(gone) - 1)

LoadAllActive(reg) ==     \* mutant: SetActive() is not called
    [k \in DOMAIN Readable(reg) |-> NewGroup(Readable(reg)[k].file, TRUE)]
\* LoadRegistry() of FileList2.
Load(reg) ==
    [k \in DOMAIN Readable(reg) |-> NewGroup(Readable(reg)[k].file, Readable(reg)[k].active)]

WantedIn(S) == wanted' = {w \in wanted : w[1] \in S}

Init ==
    /\ now = 0 /\ disk = [f \in Files |-> 0] /\ locked = {}
    /\ groups = << >> /\ registry = << >> /\ open = "none" /\ wanted = {}

\* OnShutdown() or a crash, and the next session.
Restart(crash) ==
    /\ crash \/ open = "none"
    /\ registry' = IF crash THEN registry ELSE Saved(groups)
    /\ groups' = Load(registry') /\ open' = "none"
    /\ WantedIn(FilesOf(Readable(registry')))
    /\ UNCHANGED diskVars

(***************************************************************************)
(* The commands and the dialogs                                            *)
(***************************************************************************)
\* WWTemplateComplete
TemplateComplete ==
    /\ open = "none" /\ RefreshOf(groups)
    /\ UNCHANGED <<locked, registry, open, wanted>>

\* The Code Templates dialog; without a group, the file list is shown first.
SelectOpens ==
    /\ open = "none" /\ groups # << >>
    /\ RefreshOf(groups) /\ open' = "select"
    /\ UNCHANGED <<locked, registry, wanted>>
SelectCloses ==
    /\ open = "select" /\ open' = "none"
    /\ UNCHANGED <<diskVars, groups, registry, wanted>>

\* The Template File List dialog reads the registry again.
ListOpens ==
    /\ \/ open = "none" /\ groups = << >> /\ open' = "list"
       \/ open = "select" /\ open' = "both"
    /\ RefreshOf(Load(registry))
    /\ WantedIn(FilesOf(Readable(registry)))
    /\ UNCHANGED <<locked, registry>>

InList == open \in {"list", "both"}

AddTwice(f, on) == Append(groups, NewGroup(f, on))     \* mutant: the list is not searched
\* Add()
Added(f, on) ==
    IF f \in FilesOf(groups)
    THEN [k \in DOMAIN groups |-> IF groups[k].file # f THEN groups[k]
                                  ELSE Reloaded(groups[k], disk, disk)]
    ELSE Append(groups, NewGroup(f, on))
ListAdd(f) ==
    /\ InList /\ disk[f] # 0
    /\ \E on \in BOOLEAN : groups' = Added(f, on)
    /\ UNCHANGED <<diskVars, registry, open, wanted>>

\* Remove: the selected rows s in their order on the screen, each with the index its
\* group had before the removal began.  An index behind the end ends the program.
Removed(s) ==
    LET upTo[k \in 0 .. Len(s)] == IF k = 0 THEN groups ELSE RemoveAt(upTo[k - 1], s[k])
    IN upTo[Len(s)]
InRange(s) == \A k \in DOMAIN s : s[k] <= Len(groups) - (k - 1)
ListRemove(S) ==
    /\ InList /\ S # {}
    /\ \E s \in SetToSeqs(S) :
          \/ /\ InRange(s) /\ groups' = Removed(s)
             /\ WantedIn(FilesOf(groups'))
             /\ UNCHANGED <<diskVars, registry, open>>
          \/ ~InRange(s) /\ Restart(TRUE)

\* OK or, on a selected group, Edit, which closes both dialogs.
ListOK(edit) ==
    /\ InList /\ edit => groups # << >>
    /\ \E on \in [DOMAIN groups -> BOOLEAN] :
          LET gs == [k \in DOMAIN groups |-> [groups[k] EXCEPT !.active = on[k]]]
          IN /\ registry' = Saved(gs)
             /\ wanted' = {<<g.file, g.active>> : g \in ToSet(gs)}
             /\ IF edit /\ open = "both"
                THEN groups' = gs /\ open' = "none" /\ UNCHANGED <<now, disk>>
                ELSE /\ RefreshOf(gs)
                     /\ open' = IF gs = << >> /\ open = "list" THEN "list" ELSE "select"
    /\ UNCHANGED locked

\* What was added and removed stays so until the registry is read again.
ListCancel ==
    /\ InList /\ open' = IF open = "both" THEN "select" ELSE "none"
    /\ UNCHANGED <<diskVars, groups, registry, wanted>>

\* Other programs; a locked file is neither written nor deleted.
Environment ==
    /\ \E f \in Files :
          \/ /\ f \notin locked /\ now < MaxTime
             /\ now' = now + 1 /\ disk' = [disk EXCEPT ![f] = now'] /\ UNCHANGED locked
          \/ /\ f \notin locked /\ disk[f] # 0
             /\ disk' = [disk EXCEPT ![f] = 0] /\ UNCHANGED <<now, locked>>
          \/ /\ disk[f] # 0
             /\ locked' \in {locked \cup {f}, locked \ {f}} /\ UNCHANGED <<now, disk>>
    /\ UNCHANGED <<groups, registry, open, wanted>>

Next ==
    \/ \E crash \in BOOLEAN : Restart(crash)
    \/ TemplateComplete \/ SelectOpens \/ SelectCloses \/ ListOpens
    \/ \E f \in Files : ListAdd(f)
    \/ \E S \in SUBSET DOMAIN groups : ListRemove(S)
    \/ \E edit \in BOOLEAN : ListOK(edit)
    \/ ListCancel
    \/ Environment

Spec == Init /\ [][Next]_vars

(***************************************************************************)
(* Properties                                                              *)
(***************************************************************************)
\* Types; each file has one group and one entry of the registry.
TemplatesTypeOK ==
    /\ disk \in [Files -> 0 .. now] /\ now \in 0 .. MaxTime /\ locked \subseteq Files
    /\ \A g \in ToSet(groups) : /\ g.file \in Files /\ g.active \in BOOLEAN
                                /\ g.stamp \in 0 .. now /\ g.read \in 0 .. now
    /\ open \in {"none", "select", "list", "both"}
    /\ Cardinality(FilesOf(groups)) = Len(groups)
    /\ Cardinality(FilesOf(registry)) = Len(registry)

\* The templates a command or the dialog offers are those of the file, for every file
\* of the Templates directory and every other group, after whatever failed attempts
\* and writes in the middle of earlier refreshes; of a file that cannot be opened,
\* nothing that is older.
TemplatesCurrent ==
    [][TemplateComplete \/ SelectOpens =>
          \A f \in Files : disk[f] # 0 /\ disk'[f] = disk[f] =>
             /\ f \in Local => f \in FilesOf(groups')
             /\ \A g \in ToSet(groups') :
                   g.file = f => \/ g.read = disk[f]
                                 \/ g.read = 0 /\ f \in locked]_vars

\* The groups the user has accepted with OK stay in the list and keep their checks, over
\* refreshes, dialogs left with Cancel, shutdowns and crashes, until they are removed or
\* the registry is read while the file of the group or of one before it is missing.
ChoiceKept == wanted \subseteq {<<g.file, g.active>> : g \in ToSet(groups)}

\* No block of a file is lost: its first line begins a template or is one of the lines
\* inside a part of the template before it, whatever precedes it, or the keyword that a
\* later !!key of that template replaced; and no template has lines outside its block.
LinesOf(t) == ToSet(t.code) \cup ToSet(t.memo) \cup ToSet(t.params) \cup {t.key}
                 \cup UNION {ToSet(t.pages[k]) : k \in DOMAIN t.pages}
BlocksKept ==
    \A g \in {h \in ToSet(groups) : h.read # 0} :
       LET lines == Text[g.read]
           ts == Parse(lines)
       IN /\ \A n \in 2 .. Len(lines) : lines[n] = "block" =>
                \E k \in DOMAIN ts : \/ ts[k].line = n \/ n \in LinesOf(ts[k])
                                     \/ lines[n - 1] = "key" /\ ts[k].line < n /\ n < ts[k].key
          /\ \A k \in DOMAIN ts : \A n \in LinesOf(ts[k]) \ {0} :
                ts[k].line < n /\ (k < Len(ts) => n < ts[k + 1].line)

\* Remove takes the selected groups out of the list, and no others; the dialog stays
\* open.
RemoveTakesSelected ==
    [][\A S \in SUBSET DOMAIN groups :
          ListRemove(S) /\ open' = open =>
             FilesOf(groups') = FilesOf(groups) \ {groups[k].file : k \in S}]_vars
=============================================================================
