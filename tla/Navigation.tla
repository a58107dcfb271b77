----------------------------- MODULE Navigation -----------------------------
(***************************************************************************)
(* The commands that move the caret: to a tag, to the next match, between  *)
(* declaration and implementation, to another variant of a file            *)
(* (Src/WorkspaceWhiz/WWhizCommands.cpp, FindTagDialog.cpp), on the        *)
(* history, the file lists and the list of all tags.  A place is a number  *)
(* At gives its file and line.                                             *)
(***************************************************************************)
EXTENDS History, FileSearch, TagMatch

CONSTANTS
    Worlds,     \* the workspaces: lists project, active and global, the files on
                \* disk, the tags, and what the user does there: the places gone
                \* to, the queries typed or completed, the words at the caret, a
                \* record of scope and ident
    At,         \* of each place, its file and line
    Types       \* the types of tags

\* A tag's number is never that of NULL.
ASSUME WorldsAssumption ==
    \A w \in DOMAIN Worlds : /\ Worlds[w].places \subseteq Places
                             /\ Worlds[w].tags \subseteq Nat \ {NoTag}
                             /\ IsFiniteSet(Worlds[w].tags)
\* Names are those of a language like C.
ASSUME NamesAssumption ==
    \A w \in DOMAIN Worlds : \A t \in Worlds[w].tags :
       /\ {Info[t].ident, Info[t].parent, Info[t].ns} \subseteq Seq(Nat)
       /\ Info[t].ident # << >> => Info[t].ident[1] \in Letters \cup Digits \cup Symbols
       /\ Info[t].path \in Seq(Nat \ {0})
\* What is typed comes from MakeCopy(): a capital makes the case count.
IsPart(p) ==
    /\ p.text \in Seq(Nat) /\ p.subs \in Seq(Seq(Nat))
    /\ p.exact \in BOOLEAN /\ p.case \in BOOLEAN
    /\ p.exact \/ p.case \/ \A i \in DOMAIN p.text : p.text[i] \notin Upper
IsQuery(q) == IsPart(q.name) /\ IsPart(q.parent) /\ IsPart(q.ns) /\ q.path \in Seq(Nat)
ASSUME QueriesAssumption ==
    \A w \in DOMAIN Worlds :
       /\ \A q \in Worlds[w].queries : IsQuery(q)
       /\ \A wd \in Worlds[w].words :
             wd.scope \in Seq(Nat) /\ wd.ident \in Seq(Nat) \ {<< >>}
\* A list of the projects' files is sorted whenever it is made anew.
ASSUME ListsAssumption ==
    \A w \in DOMAIN Worlds : IsFileList(Worlds[w].active) /\ IsFileList(Worlds[w].project)

VARIABLES
    world,      \* the workspace; it does not change
    tags,       \* s_tags in its order (list), and m_buddy, m_matchNext and
                \* m_matchPrev of each tag (buddy, next, prev)
    matches,    \* the chain of matches from s_matchHead to s_matchTail
    last,       \* s_lastMatchedTag
    query       \* history: the last search and the list it was made in

tagVars == <<tags, matches, last, query>>
histVars == <<stack, cur, here>>
navVars == <<stack, cur, here, world, tags, matches, last, query>>

Wild == -1          \* a pointer that is not a tag's
NoLine == -1        \* of a tag that only has a search string
W == Worlds[world]
NoQuery == [q |-> << >>, list |-> << >>]
All == ToSet(tags.list)
Position(s, x) == CHOOSE i \in DOMAIN s : s[i] = x

(***************************************************************************)
(* What is typed: MakeCopy()                                               *)
(***************************************************************************)
Colon == 58
Exactly(text) == [text |-> text, exact |-> TRUE, case |-> TRUE, subs |-> << >>]
\* Without switches: a capital makes the case and the symbols count.
Typed(text, subs) ==
    LET case == \E s \in {text} \cup ToSet(subs) : ToSet(s) \cap Upper # {}
        kept(s) == Sifted(s, Letters \cup Digits
                             \cup IF case THEN Symbols \cup {Colon} ELSE {})
    IN [text |-> kept(text), exact |-> FALSE, case |-> case,
        subs |-> [k \in DOMAIN subs |-> kept(subs[k])]]
Query(name, parent, ns, types) ==
    [name |-> name, parent |-> parent, ns |-> ns, path |-> << >>, types |-> types]

\* The searches of WWTagFindAtCursor for the word wd, in their order.
Attempts(wd) ==
    LET qualified == wd.scope \o <<Colon, Colon>>
        partly == Typed(<< >>, <<<<Colon, Colon>> \o wd.scope>>)
    IN IF wd.scope = << >>
       THEN <<Query(Exactly(wd.ident), NoPart, NoPart, Types)>>
       ELSE <<Query(Exactly(qualified \o wd.ident), NoPart, NoPart, Types),
              Query(Exactly(wd.ident), Exactly(wd.scope), NoPart, Types),
              Query(Exactly(wd.ident), partly, NoPart, Types),
              Query(Exactly(wd.ident), NoPart, Exactly(wd.scope), Types),
              Query(Typed(wd.ident, << >>), NoPart, partly, Types)>>

(***************************************************************************)
(* The tags in memory                                                      *)
(***************************************************************************)
\* ReadTags() of the files S.  The match links of a tag just read are its number in
\* its file, 0 for the first, and whatever the memory held; the links of the others
\* to those of S lead to freed memory.  The list is made anew of the same tags, which
\* the sort puts in the same order.
Reread(S, k) ==
    LET first(t) == \A i \in 1 .. Len(k.list) :
                       Info[k.list[i]].file = Info[t].file => Position(k.list, t) <= i
        kept(x) == IF x \notin {NoTag, Wild} /\ Info[x].file \in S THEN Wild ELSE x
    IN [k EXCEPT !.next = [t \in DOMAIN @ |-> IF Info[t].file \notin S THEN kept(@[t])
                                              ELSE IF first(t) THEN NoTag ELSE Wild],
                 !.prev = [t \in DOMAIN @ |-> IF Info[t].file \in S THEN Wild
                                              ELSE kept(@[t])]]
RereadFiles == SUBSET {Info[t].file : t \in All}

LinkedOpen(k, m) ==     \* mutant: m_matchNext of the last match is not cleared
    [k EXCEPT !.next = [t \in DOMAIN @ |-> IF t \in ToSet(m) /\ t # m[Len(m)]
                                           THEN m[Position(m, t) + 1] ELSE @[t]],
              !.prev = [t \in DOMAIN @ |-> IF t \notin ToSet(m) THEN @[t]
                                           ELSE IF t = m[1] THEN NoTag
                                           ELSE m[Position(m, t) - 1]]]
\* The links of the tags k after the tags m were found.
Linked(k, m) ==
    [k EXCEPT !.next = [t \in DOMAIN @ |-> IF t \notin ToSet(m) THEN @[t]
                                           ELSE IF t = m[Len(m)] THEN NoTag
                                           ELSE m[Position(m, t) + 1]],
              !.prev = [t \in DOMAIN @ |-> IF t \notin ToSet(m) THEN @[t]
                                           ELSE IF t = m[1] THEN NoTag
                                           ELSE m[Position(m, t) - 1]]]

\* The tag of the file at p that the line of p is in: GetTagScope().
TagScope(l, p) ==
    LET above == {t \in ToSet(l) : Info[t].file = At[p].file /\ Info[t].line <= At[p].line}
    IN IF At[p].file \notin ToSet(W.active) \/ above = {} THEN NoTag
       ELSE CHOOSE t \in above : \A u \in above : Info[u].line <= Info[t].line

NavInit ==
    /\ Init
    /\ world \in DOMAIN Worlds
    /\ \E l \in Orders(W.tags) :
          LET none == [t \in W.tags |-> NoTag]
          IN tags = Reread({Info[t].file : t \in W.tags},
                           [list |-> l, buddy |-> MatchBuddies(l), next |-> none, prev |-> none])
    /\ matches = << >> /\ last = NoTag /\ query = NoQuery

(***************************************************************************)
(* Commands on tags                                                        *)
(***************************************************************************)
\* Where the caret may get to: the line of t, or where its text is found.
TextOf(t) == {p \in W.places : At[p].file = Info[t].file /\ Info[t].line \in {At[p].line, NoLine}}

GotoTagNoUndo(t, before) ==     \* mutant: nothing is undone when the text is not found
    \/ JumpFails(here) /\ last' = NoTag
    \/ /\ t # NoTag /\ Info[t].line = NoLine
       /\ Becomes(Add(Hist, here)) /\ here' \in {r \in W.places : At[r].file = Info[t].file}
       /\ last' = before
    \/ t # NoTag /\ (\E p \in TextOf(t) : Jump(p)) /\ last' = t

\* GotoTag(), with the last matched tag set to before: the document does not open,
\* or the text is not found in it, or the caret gets to the tag.
GotoTag(t, before) ==
    \/ JumpFails(here) /\ last' = NoTag
    \/ /\ t # NoTag /\ Info[t].line = NoLine
       /\ \E p \in {r \in W.places : At[r].file = Info[t].file} : JumpFails(p)
       /\ last' = before
    \/ t # NoTag /\ (\E p \in TextOf(t) : Jump(p)) /\ last' = t

\* RefreshTagList(), from a dialog or the tag completion.
RefreshTags ==
    /\ \E S \in RereadFiles : tags' = Reread(S, tags)
    /\ matches' = << >> /\ last' = NoTag /\ query' = NoQuery
    /\ UNCHANGED <<histVars, world>>

\* The lists the dialog searches: of the file, the project, the workspace.
Scopes ==
    LET l == tags.list
        of(S) == EntriesAt(l, {i \in DOMAIN l : Info[l[i]].file \in S})
    IN {tags.list, of(ToSet(W.project))}
       \cup IF here = NoText THEN {} ELSE {of({At[here].file})}

\* MatchTag() of the Find Tag dialog and of the tag completion.
Search(q, l) ==
    /\ matches' = Matches(l, q, tags.buddy)
    /\ tags' = Linked(tags, matches')
    /\ last' = NoTag /\ query' = [q |-> q, list |-> l]
    /\ UNCHANGED <<histVars, world>>

\* OK in the Find Tag dialog with the match t selected, or the button that leads
\* to its declaration.
FindTagSelect(t, declaration) ==
    /\ t \in ToSet(matches)
    /\ GotoTag(IF declaration /\ tags.buddy[t] # NoTag THEN tags.buddy[t] ELSE t, last)
    /\ UNCHANGED <<world, tags, matches, query>>

\* The one match that is neither a declaration nor a typedef, if there is one.
OnlyDefinition(m) ==
    LET good == {t \in ToSet(m) : Info[t].type \notin {"declaration", "typedef"}}
    IN IF Cardinality(good) = 1 THEN good ELSE {}

\* WWTagFindAtCursor on the word wd: the first search that finds tags.  When no match
\* is to be preferred the dialog opens, if the options want it (dialog).
FindAtCursor(wd, dialog) ==
    LET found(n) == Matches(tags.list, Attempts(wd)[n], tags.buddy)
        hits == {n \in DOMAIN Attempts(wd) : found(n) # << >>}
    IN \E n \in {IF hits = {} THEN Len(Attempts(wd)) ELSE Min(hits)} : \E m \in {found(n)} :
          LET goals == IF Len(m) = 1 \/ (m # << >> /\ ~dialog) THEN {m[1]}
                       ELSE OnlyDefinition(m)
          IN /\ here # NoText
             /\ \E S \in RereadFiles : tags' = Linked(Reread(S, tags), m)
             /\ matches' = m /\ query' = [q |-> Attempts(wd)[n], list |-> tags.list]
             /\ IF goals = {} THEN last' = NoTag /\ UNCHANGED histVars
                ELSE \E t \in goals : GotoTag(t, NoTag)
             /\ UNCHANGED world

\* WWTagFindNext and WWTagFindPrev, with the links and the end they wrap to.  A
\* wild pointer may lead to any tag (or end the program).
Follow(link, end) ==
    /\ last # NoTag
    /\ \E t \in IF link[last] = Wild THEN All
                ELSE IF link[last] # NoTag THEN {link[last]} ELSE {end} :
          GotoTag(t, last)
    /\ UNCHANGED <<world, tags, matches, query>>
TagFindNext == Follow(tags.next, IF matches = << >> THEN NoTag ELSE matches[1])
TagFindPrev == Follow(tags.prev, IF matches = << >> THEN NoTag ELSE matches[Len(matches)])

\* WWTagFlip: from the tag the caret is in to its partner, or to its own line.
TagFlip ==
    /\ here # NoText
    /\ LET s == TagScope(tags.list, here)
           t == IF s = NoTag \/ tags.buddy[s] = NoTag THEN s ELSE tags.buddy[s]
       IN \/ last' = NoTag /\ UNCHANGED here
          \/ /\ t # NoTag /\ Info[t].line = NoLine /\ last' = NoTag
             /\ here' \in {p \in W.places : At[p].file = Info[t].file}
          \/ t # NoTag /\ last' = t /\ here' \in TextOf(t)
    /\ \E S \in RereadFiles : tags' = Reread(S, tags)
    /\ matches' = << >> /\ query' = NoQuery
    /\ UNCHANGED <<stack, cur, world>>

(***************************************************************************)
(* Commands on files                                                       *)
(***************************************************************************)
\* The file of the active document, of any kind.
CurrentFiles == IF here = NoText THEN ToSet(W.active) ELSE {At[here].file}

\* A document of g becomes the active one, at the line it was left at.
Opens(g) == \/ \E p \in W.places : At[p].file = g /\ Jump(p)
            \/ Jump(NoText)

\* WWFileFindNext and WWFileFindPrev.
FileFind(Which(_, _)) ==
    /\ \E f \in CurrentFiles :
          LET k == Which(W.active, f)
          IN k # 0 /\ (OpenFails \/ Opens(W.active[k]))
    /\ UNCHANGED <<world, tagVars>>
FileFindNext == FileFind(NextFile)
FileFindPrev == FileFind(PreviousFile)

\* The header flip: the first target that opens.
HeaderFlip ==
    /\ \/ \E f \in CurrentFiles : \E g \in ToSet(FlipTargets(W, f)) : Opens(g)
       \/ JumpFails(here)
    /\ UNCHANGED <<world, tagVars>>

\* The commands of the history, and the user.
Others ==
    /\ \/ \E p \in W.places \cup {NoText} : Move(p)
       \/ Back \/ Forward \/ Reset
       \/ \E i \in 1 .. Len(stack) : Select(i)
    /\ UNCHANGED <<world, tagVars>>

NavNext ==
    \/ RefreshTags
    \/ \E q \in W.queries, l \in Scopes : Search(q, l)
    \/ \E t \in All, declaration \in BOOLEAN : FindTagSelect(t, declaration)
    \/ \E wd \in W.words, dialog \in BOOLEAN : FindAtCursor(wd, dialog)
    \/ TagFindNext \/ TagFindPrev \/ TagFlip
    \/ FileFindNext \/ FileFindPrev \/ HeaderFlip
    \/ Others

NavSpec == NavInit /\ [][NavNext]_navVars

(***************************************************************************)
(* Properties                                                              *)
(***************************************************************************)
\* What a query asks for, said of one name and one part: the text in front, then
\* the strings one after the other.
Asks(p, name) ==
    LET id == Checked(p, name)
        fold(s) == IF p.case THEN s ELSE Lower(s)
        n == Len(p.text)
        from[k \in 0 .. Len(p.subs)] ==    \* where the k-th string may end
            IF k = 0 THEN {n}
            ELSE {e \in n .. Len(id) :
                     \E b \in from[k - 1] : \E a \in b .. e :
                        fold(SubSeq(id, a + 1, e)) = fold(p.subs[k])}
    IN /\ Len(id) >= n /\ fold(SubSeq(id, 1, n)) = fold(p.text)
       /\ p.exact => Len(id) = n
       /\ from[Len(p.subs)] # {}
\* The parent and the namespace may be asked for nothing.
AsksOuter(p, name) ==
    \/ ~HasText(p) /\ \A k \in DOMAIN p.subs : p.subs[k] = << >>
    \/ Checked(p, name) # << >> /\ Asks(p, name)

\* No name that begins with an underscore, no strings in the namespace, no empty
\* string before others in the parent, and no exact length of nothing.
PlainQuery(q) ==
    /\ ~(HasText(q.name) /\ (q.name.exact \/ q.name.case) /\ q.name.text[1] = Underscore)
    /\ q.ns.subs = << >>
    /\ Len(q.parent.subs) > 1 => q.parent.subs[1] # << >>
    /\ \A p \in {q.name, q.parent, q.ns} : p.exact => HasText(p)

\* A search stops at the first tag past its text, yet it finds all tags of the list
\* that the text, the strings, the parent, the namespace and the path ask for,
\* whatever symbols and capitals are in the names, if the query is a plain one.
MatchFindsAll ==
    LET q == query.q
    IN query # NoQuery /\ PlainQuery(q) =>
          ToSet(matches) =
             {t \in ToSet(query.list) :
                 /\ Shown(t, q, tags.buddy) /\ Asks(q.name, Info[t].ident)
                 /\ AsksOuter(q.parent, Info[t].parent) /\ AsksOuter(q.ns, Info[t].ns)
                 /\ q.path = << >> \/ Stands(q.path, Info[t].path)}

\* From a match, the next match leads once around all matches, and the previous one
\* the other way, whatever links earlier searches and refreshes left in the tags
\* (unless the tag's file does not open or its text is not found).
MatchesCycle ==
    [][\A i \in 1 .. Len(matches) :
          last = matches[i] =>
             LET n == Len(matches)
             IN /\ TagFindNext => last' \in {matches[(i % n) + 1], NoTag, last}
                /\ TagFindPrev => last' \in {matches[((i + n - 2) % n) + 1], NoTag, last}]_navVars

\* Declarations and implementations are paired both ways, one with one, within one
\* name and parent, in whatever order the sort left the tags.
BuddiesMutual ==
    \A t \in All : LET b == tags.buddy[t]
                   IN b # NoTag => /\ tags.buddy[b] = t
                                   /\ Declaration(t) # Declaration(b)
                                   /\ Info[b].ident = Info[t].ident /\ Info[b].parent = Info[t].parent

\* A declaration has its implementation as partner when no other tag has their
\* short name and parent; the sort alone brings the two together.
BuddyFound ==
    \A d, t \in All :
       /\ Declaration(d) /\ ~Declaration(t)
       /\ Info[d].ident = Info[t].ident /\ Info[d].parent = Info[t].parent /\ Info[d].ns = Info[t].ns
       /\ \A u \in All \ {d, t} : Keys(u) # Keys(d)
       => tags.buddy[d] = t

\* At any file of the workspace, the next and the previous file undo each other,
\* and each of them leads once around all files of the name.
VariantsCycle ==
    LET l == W.active
        reach(i) == LET at[k \in 0 .. Len(l)] ==
                            IF k = 0 THEN i
                            ELSE IF at[k - 1] = 0 THEN 0 ELSE NextFile(l, l[at[k - 1]])
                    IN {at[k] : k \in 0 .. Len(l)}
    IN \A i \in 1 .. Len(l) :
          here # NoText /\ At[here].file = l[i] /\ Variants(l, l[i]) # {i} =>
             /\ reach(i) = Variants(l, l[i])
             /\ PreviousFile(l, l[NextFile(l, l[i])]) = i

\* A header and its source in one directory flip to each other, whatever files of
\* their name other directories of the workspace hold; unless the project has such
\* a file and not the two.
FlipsToPartner ==
    LET files == ToSet(W.active) \cap W.disk
        mine == ToSet(W.project)
    IN here # NoText /\ At[here].file \in files
       /\ At[here].file.inner = NoExt /\ At[here].file.ext # NoExt =>
          LET f == At[here].file
              named == {h \in W.disk : h.title = f.title /\ h.ext \in ToSet(Exts)}
          IN \A g \in {h \in files : h.inner = NoExt} \ {f} :
                /\ {h \in named : h.dir = f.dir} = {f, g}
                /\ named \cap mine = {} \/ {f, g} \subseteq mine
                => FlipTargets(W, f) # << >> /\ FlipTargets(W, f)[1] = g

\* Seen from the history, every command is one of the history's own: what is
\* proved of module History holds here.
CommandsUseHistory == Spec
=============================================================================
