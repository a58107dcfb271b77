------------------------------ MODULE TagMatch ------------------------------
(***************************************************************************)
(* The searches in the list of all tags and the pairing of declarations    *)
(* with implementations: MatchTag() and MatchBuddies()                     *)
(* (Src/WWhizInterface/WorkspaceTags.cpp), on the order of TagList.cpp.    *)
(*                                                                         *)
(* A string is a sequence of character codes.  A tag is a number; Info     *)
(* says its identifier, parent and namespace (ident, parent, ns), its type *)
(* and the path of its file.  A query has three parts with the same        *)
(* switches, for the identifier, the parent and the namespace, a wildcard  *)
(* path and the types shown.                                               *)
(***************************************************************************)
EXTENDS WildMatch, Entries, FiniteSetsExt

CONSTANTS
    Info    \* of each tag, a record

NoTag == 0  \* NULL

Letters == Upper \cup 97 .. 122
Digits == 48 .. 57
Underscore == 95
Tilde == 126
Symbols == {Underscore, Tilde}

\* The characters of s that are in C.
Sifted(s, C) ==
    LET upTo[k \in 0 .. Len(s)] ==
            IF k = 0 THEN << >>
            ELSE IF s[k] \in C THEN Append(upTo[k - 1], s[k]) ELSE upTo[k - 1]
    IN upTo[Len(s)]

\* The short form of a name: its letters and digits, in lower case.
Short(s) == Lower(Sifted(s, Letters \cup Digits))

\* strcmp(s, t) < 0
Before(s, t) ==
    \E n \in 0 .. Min({Len(s), Len(t)}) :
        /\ SubSeq(s, 1, n) = SubSeq(t, 1, n)
        /\ IF n = Len(s) THEN n < Len(t) ELSE n < Len(t) /\ s[n + 1] < t[n + 1]

Declaration(t) == Info[t].type = "declaration"

(***************************************************************************)
(* The order of a list: CompareArray()                                     *)
(***************************************************************************)
Keys(t) == <<Short(Info[t].ident), Short(Info[t].parent)>>

AfterByName(t, u) ==    \* mutant: the type is not compared
    \E k \in 1 .. 2 : /\ \A i \in 1 .. k - 1 : Keys(t)[i] = Keys(u)[i]
                      /\ Before(Keys(u)[k], Keys(t)[k])
\* CompareArray(t, u) > 0.  An empty namespace is after the others, but equal to
\* them when it is the second one; of two tags that are no declarations each is
\* before the other.
After(t, u) ==
    LET tn == Short(Info[t].ns)
        un == Short(Info[u].ns)
    IN IF Keys(t) # Keys(u)
       THEN LET k == Min({i \in 1 .. 2 : Keys(t)[i] # Keys(u)[i]})
            IN Before(Keys(u)[k], Keys(t)[k])
       ELSE \/ tn = << >> /\ un # << >>
            \/ tn # << >> /\ un # << >> /\ Before(un, tn)
            \/ /\ un = << >> \/ tn = un
               /\ ~Declaration(t) /\ Declaration(u)

\* What qsort() may make of a set of tags: the orders with no pair that both
\* comparisons put the other way round.  Where the comparisons contradict each
\* other, either order.
Sorted(l) == \A i, j \in 1 .. Len(l) :
                i < j => ~(After(l[i], l[j]) /\ ~After(l[j], l[i]))
Orders(S) == {l \in SetToSeqs(S) : Sorted(l)}

(***************************************************************************)
(* The comparison of a name with one part of a query.  A part has a text   *)
(* the name begins with, the strings that follow somewhere after it (subs),*)
(* and says if the length (exact) and the case (case) count.               *)
(***************************************************************************)
NoPart == [text |-> << >>, exact |-> FALSE, case |-> FALSE, subs |-> << >>]

\* All characters count, or only letters and digits.
Checked(p, name) == IF p.exact \/ p.case THEN name ELSE Short(name)
LengthFits(p, id) == IF p.exact THEN Len(id) = Len(p.text) ELSE Len(id) >= Len(p.text)

PastAnyLetter(p, id) ==     \* mutant: symbols in front of the name are forgotten
    LowerChar(p.text[1]) < LowerChar(id[1])
PastLetter(p, id) == LowerChar(p.text[1]) < LowerChar(id[1]) /\ id[1] \notin Symbols

\* CompareTag() returns 0: no later tag can match.
Past(p, id) ==
    /\ LengthFits(p, id)
    /\ IF p.exact \/ p.case THEN PastLetter(p, id)
       ELSE Before(p.text, SubSeq(id, 1, Len(p.text)))

\* CompareTag() returns 2.
TextFits(p, id) ==
    /\ LengthFits(p, id) /\ ~Past(p, id)
    /\ IF p.exact /\ ~p.case THEN Lower(id) = Lower(p.text)
       ELSE SubSeq(id, 1, Len(p.text)) = p.text

Lost == -1
\* The end of the first place of sub after position from.
EndOf(id, sub, from) ==
    LET at == {k \in from .. Len(id) - Len(sub) : SubSeq(id, k + 1, k + Len(sub)) = sub}
    IN IF from = Lost \/ at = {} THEN Lost ELSE Min(at) + Len(sub)

\* CompareSubstring()
SubsFit(p, id) ==
    LET fold(s) == IF p.case THEN s ELSE Lower(s)
        end[k \in 0 .. Len(p.subs)] ==     \* curSubPos after the k-th string
            IF k = 0 THEN Len(p.text) ELSE EndOf(fold(id), fold(p.subs[k]), end[k - 1])
    IN end[Len(p.subs)] # Lost

(***************************************************************************)
(* MatchTag() on the list l, with buddy the partner of each tag            *)
(***************************************************************************)
HasText(p) == p.text # << >>

\* A part that is looked at in the parent or the namespace.
Tested(p) == HasText(p) \/ (p.subs # << >> /\ p.subs[1] # << >>) \/ p.exact

\* The test of the parent and of the namespace, name is the tag's; other is the
\* part whose strings an empty name is tested with.
OuterFits(p, name, other) ==
    Tested(p) =>
       IF Checked(p, name) = << >>
       THEN ~HasText(p) /\ \A k \in DOMAIN other.subs : other.subs[k] = << >>
       ELSE /\ HasText(p) \/ p.exact => TextFits(p, Checked(p, name))
            /\ SubsFit(p, Checked(p, name))

Shown(t, q, buddy) ==
    Info[t].type \in q.types /\ ~(Declaration(t) /\ buddy[t] # NoTag)

TagFits(t, q) ==
    /\ HasText(q.name) => TextFits(q.name, Checked(q.name, Info[t].ident))
    /\ SubsFit(q.name, Checked(q.name, Info[t].ident))
    /\ OuterFits(q.parent, Info[t].parent, q.parent)
    /\ OuterFits(q.ns, Info[t].ns, q.parent)
    /\ q.path # << >> => WildMatch(q.path, Info[t].path)

\* The tags found, in the order of the list, up to the first one past the text.
Matches(l, q, buddy) ==
    LET shown == {i \in DOMAIN l : Shown(l[i], q, buddy)}
        stops == {i \in shown :
                     HasText(q.name) /\ Past(q.name, Checked(q.name, Info[l[i]].ident))}
    IN EntriesAt(l, {i \in shown : TagFits(l[i], q) /\ \A k \in stops : i < k})

(***************************************************************************)
(* MatchBuddies()                                                          *)
(***************************************************************************)
\* How the scan for the declaration d takes the tag t.
BuddyVerdict(d, t) ==
    CASE Len(Info[t].ident) # Len(Info[d].ident) -> "stop"
      [] Len(Info[t].ident) = Len(Info[d].ident) /\ Info[t].ident # Info[d].ident ->
            IF Tilde \in {Info[t].ident[1], Info[d].ident[1]} THEN "skip" ELSE "stop"
      [] /\ Info[t].ident = Info[d].ident
         /\ Info[t].parent # Info[d].parent \/ Len(Info[t].ns) # Len(Info[d].ns) -> "stop"
      [] OTHER -> IF Info[t].ns = Info[d].ns THEN "pair" ELSE "close"

FreeOrPaired(t, buddy) == ~Declaration(t)      \* mutant: a tag is paired twice
Free(t, buddy) == ~Declaration(t) /\ buddy[t] = NoTag

\* The positions of the tags the scan for l[i] looks at.
Candidates(l, i, buddy) == {k \in i + 1 .. Len(l) : Free(l[k], buddy)}

\* The implementation of l[i], which is a declaration; NoTag if there is none.
PartnerOf(l, i, buddy) ==
    LET c == Candidates(l, i, buddy)
        ends == {k \in c : BuddyVerdict(l[i], l[k]) \in {"stop", "pair"}}
        close == {k \in c : /\ BuddyVerdict(l[i], l[k]) = "close"
                           /\ \A e \in ends : k < e}
    IN IF ends # {} /\ BuddyVerdict(l[i], l[Min(ends)]) = "pair" THEN l[Min(ends)]
       ELSE IF close # {} THEN l[Max(close)] ELSE NoTag

Pair(buddy, d, t) == IF t = NoTag THEN buddy
                     ELSE [buddy EXCEPT ![d] = t, ![t] = d]

MatchBuddies(l) ==
    LET upTo[i \in 0 .. Len(l)] ==
            IF i = 0 THEN [t \in ToSet(l) |-> NoTag]
            ELSE LET b == upTo[i - 1]
                 IN IF Declaration(l[i]) /\ b[l[i]] = NoTag
                    THEN Pair(b, l[i], PartnerOf(l, i, b)) ELSE b
    IN upTo[Len(l)]
=============================================================================
