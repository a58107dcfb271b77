------------------------------ MODULE FileGlob ------------------------------
(***************************************************************************)
(* The files a project names with a wildcard: FileGlobBase::MatchPattern() *)
(* and GlobHelper() (Src/Shared/FileGlobBase.cpp), which the readers of    *)
(* project files call for every file name with a star or a question mark.  *)
(*                                                                         *)
(* A path is the sequence of the names between its slashes, and a name is  *)
(* a sequence of character codes; the path of a directory ends with an     *)
(* empty name, as "src/" does.  Not here: the options after an @, "..."    *)
(* and network paths.                                                      *)
(***************************************************************************)
EXTENDS WildMatch, SequencesExt, FiniteSetsExt

CONSTANTS
    Tree,       \* the paths of the files there are
    Written     \* the patterns a project file may hold

IsFileName(n) == n \in Seq(Nat \ {0, Star, Question}) \ {<< >>}
NamesIn(paths) == UNION {ToSet(p) : p \in paths}

ASSUME TreeAssumption ==
    IsFiniteSet(Tree) /\ \A f \in Tree : /\ f \in Seq(Seq(Nat)) \ {<< >>}
                                        /\ \A i \in DOMAIN f : IsFileName(f[i])
\* ResolveFilename() makes a pattern a full path: only its last part may be empty.
ASSUME PatternsAssumption ==
    \A p \in Written : /\ p \in Seq(Seq(Nat)) \ {<< >>}
                       /\ \A i \in 1 .. Len(p) - 1 : p[i] # << >>
\* Windows does not tell names apart by their case: a name has one spelling, in a
\* pattern as on the disk.
ASSUME SpellingAssumption ==
    \A n \in NamesIn(Tree), x \in NamesIn(Tree \cup Written) : Lower(x) = Lower(n) => x = n

VARIABLES
    pattern,    \* the pattern that was written
    todo,       \* the calls of GlobHelper() to come, by their patterns
    found       \* the FileGlobList

globVars == <<pattern, todo, found>>

DoubleStar == <<Star, Star>>
Slash == <<<< >>>>      \* what follows the name of a directory

Wild(name) == Star \in ToSet(name) \/ Question \in ToSet(name)

(***************************************************************************)
(* MatchPattern(): a part with "**" in it becomes parts where "**" stands  *)
(* alone: "a**b" is a*, **, *b.                                            *)
(***************************************************************************)
\* ends: nothing but a slash comes after the part, so that "**" at its end is "**/*".
ExpandedPart(part, ends) ==
    LET doubled(i) == i < Len(part) /\ SubSeq(part, i, i + 1) = DoubleStar
        onto(name, parts) == <<name \o Head(parts)>> \o Tail(parts)
        from[i \in 1 .. Len(part) + 1] ==
            IF i > Len(part) THEN <<<< >>>>
            ELSE IF ~doubled(i) THEN onto(<<part[i]>>, from[i + 1])
            ELSE <<<<Star>>, DoubleStar>> \o
                 (IF i + 1 < Len(part) THEN onto(<<Star>>, from[i + 2])
                  ELSE IF ends THEN <<<<Star>>>> ELSE << >>)
    IN IF doubled(1) THEN Tail(from[1]) ELSE from[1]

Expanded(p) ==
    FlattenSeq([i \in DOMAIN p |->
        ExpandedPart(p[i], SubSeq(p, i + 1, Len(p)) \in {<< >>, Slash})])

(***************************************************************************)
(* GlobHelper(): the first part with a wildcard is looked up in the        *)
(* directory the parts before it name, and the rest of the pattern in the  *)
(* directories found.  A "**" is taken out first, and put back below every *)
(* directory of the base afterwards.  A pattern without a wildcard is a    *)
(* match, be there such a file or not.                                     *)
(***************************************************************************)
FilesIn(base) == {Last(f) : f \in {g \in Tree : Front(g) = base}}
DirsIn(base) == {f[Len(base) + 1] : f \in {g \in Tree : Len(g) > Len(base) + 1
                                                       /\ IsPrefix(base, g)}}

OneBelow(p, w) == SubSeq(p, 1, w - 1) \o <<<<Star>>>> \o SubSeq(p, w + 1, Len(p))
                                                \* mutant: "**" becomes "*"
Below(p, w) == SubSeq(p, 1, w - 1) \o <<<<Star>>>> \o SubSeq(p, w, Len(p))

\* One call, or one round of it: the patterns it goes on with, and what it finds.
Globbed(p) ==
    LET w == Min({i \in DOMAIN p : Wild(p[i])})
        doubled == p[w] = DoubleStar
        q == IF doubled THEN RemoveAt(p, w) ELSE p
        base == SubSeq(q, 1, w - 1)
        fitting(names) == {n \in names : WildMatch(q[w], n)}
        in(dir) == base \o <<dir>> \o SubSeq(q, w + 1, Len(q))
    IN [finds |-> IF w = Len(q) THEN {Append(base, f) : f \in fitting(FilesIn(base))} ELSE {},
        calls |-> (IF w < Len(q) THEN SetToSeq({in(d) : d \in fitting(DirsIn(base))}) ELSE << >>)
                  \o (IF doubled THEN <<Below(p, w)>> ELSE << >>)]

GlobInit == pattern = << >> /\ todo = << >> /\ found = {}

MatchPattern(p) ==
    /\ pattern = << >>
    /\ pattern' = p
    /\ todo' = <<Expanded(p)>>
    /\ UNCHANGED found

GlobHelper ==
    /\ todo # << >>
    /\ LET p == Head(todo) IN
       IF \E i \in DOMAIN p : Wild(p[i])
       THEN /\ todo' = Globbed(p).calls \o Tail(todo)
            /\ found' = found \cup Globbed(p).finds
       ELSE todo' = Tail(todo) /\ found' = found \cup {p}
    /\ UNCHANGED pattern

\* The reader has taken the files, and its FileGlobList is gone.
GlobEnd ==
    /\ pattern # << >> /\ todo = << >>
    /\ pattern' = << >> /\ found' = {}
    /\ UNCHANGED todo

GlobNext == GlobHelper \/ GlobEnd \/ \E p \in Written : MatchPattern(p)
GlobSpec == GlobInit /\ [][GlobNext]_globVars

-----------------------------------------------------------------------------
(***************************************************************************)
(* What the comment of MatchPattern() promises                             *)
(***************************************************************************)
Dirs == UNION {{SubSeq(f, 1, n) \o Slash : n \in 1 .. Len(f) - 1} : f \in Tree}
There == Tree \cup Dirs

\* "**" is any number of directories, any other part one name.
StandsForPath(parts, path) ==
    LET upTo[i \in 0 .. Len(parts)] ==     \* how many names the first i parts may be
            IF i = 0 THEN {0}
            ELSE LET part == parts[i]
                     before == upTo[i - 1]
                 IN {j \in 0 .. Len(path) :
                       IF part = DoubleStar THEN \E k \in before : k <= j
                       ELSE /\ j - 1 \in before
                            /\ (part = << >>) = (path[j] = << >>) /\ Stands(part, path[j])}
    IN Len(path) \in upTo[Len(parts)]

\* A pattern finds all the files, or with a slash at its end all the directories, it
\* stands for and no others, however the walk over the pattern, which is rewritten
\* under the pointer, cuts it up; unless one "**" follows another.  It names nothing
\* that is not there but where its last part is a plain name.
GlobFindsAll ==
    LET parts == Expanded(pattern) IN
    /\ pattern # << >> /\ todo = << >>
    /\ \A i \in 1 .. Len(parts) - 1 : ~(parts[i] = DoubleStar /\ parts[i + 1] = DoubleStar)
    => /\ found \cap There = {path \in There : StandsForPath(parts, path)}
       /\ Wild(Last(parts)) => found \subseteq There
=============================================================================
