--------------------------- MODULE NavigationProofs ---------------------------
(***************************************************************************)
(* Proofs about modules History and Navigation.  First the history, for    *)
(* every set of places and every limit of the list: the three properties   *)
(* are shown of one operation on a history at a time (Add(), UndoAdd()),   *)
(* and then of the commands that call them.  Then the commands of the      *)
(* add-in, which keep to the history, and the links between the tags that  *)
(* they follow, for any workspaces, tags and queries.                      *)
(***************************************************************************)
EXTENDS Navigation, ProofLemmas

\* What CurInStack says of one history, and what NoRepeat says of one list.
Good(h) == /\ h.stack \in Seq(Places) /\ Len(h.stack) <= MaxStackSize
           /\ h.cur \in 0 .. Len(h.stack) /\ (h.cur = 0 <=> h.stack = << >>)
Steps(s) == \A i \in 1 .. Len(s) - 1 : s[i] # s[i + 1]

\* What Add() keeps of the list is a part of it with room for one more entry, and
\* the current entry is its last one.
LEMMA KeptPart ==
    ASSUME NEW h, Good(h)
    PROVE  /\ Kept(h) \in Seq(Places)
           /\ Len(Kept(h)) < MaxStackSize
           /\ h.cur = 0 => Kept(h) = << >>
           /\ h.cur # 0 => Kept(h) # << >> /\ Kept(h)[Len(Kept(h))] = h.stack[h.cur]
           /\ Steps(h.stack) => Steps(Kept(h))
<1> DEFINE s == h.stack
           c == h.cur
<1>1. s \in Seq(Places) /\ c \in Nat /\ c <= Len(s) /\ Len(s) <= MaxStackSize
      /\ Len(s) \in Nat /\ (c = 0 <=> s = << >>)
  BY DEF Good
<1>2. MaxStackSize \in Nat /\ MaxStackSize >= 2
  BY StackAssumption
<1> HIDE DEF s, c
<1>3. CASE c = MaxStackSize
  <2>1. Kept(h) = SubSeq(s, 2, c)
    BY <1>3 DEF Kept, s, c
  <2>2. /\ SubSeq(s, 2, c) \in Seq(Places) /\ Len(SubSeq(s, 2, c)) = c - 1
        /\ \A i \in 1 .. c - 1 : SubSeq(s, 2, c)[i] = s[i + 1]
    BY <1>1, <1>2, <1>3
  <2>3. SubSeq(s, 2, c) # << >> /\ SubSeq(s, 2, c)[c - 1] = s[c]
    BY <1>1, <1>2, <1>3, <2>2
  <2>4. Steps(s) => Steps(SubSeq(s, 2, c))
    BY <1>1, <1>2, <1>3, <2>2 DEF Steps
  <2> QED BY <1>1, <1>2, <1>3, <2>1, <2>2, <2>3, <2>4 DEF s, c
<1>4. CASE c # MaxStackSize
  <2>1. Kept(h) = SubSeq(s, 1, c)
    BY <1>4 DEF Kept, s, c
  <2>2. /\ SubSeq(s, 1, c) \in Seq(Places) /\ Len(SubSeq(s, 1, c)) = c
        /\ \A i \in 1 .. c : SubSeq(s, 1, c)[i] = s[i]
    BY <1>1
  <2>3. /\ c = 0 => SubSeq(s, 1, c) = << >>
        /\ c # 0 => SubSeq(s, 1, c) # << >> /\ SubSeq(s, 1, c)[c] = s[c]
    BY <1>1, <2>2
  <2>4. Steps(s) => Steps(SubSeq(s, 1, c))
    BY <1>1, <2>2 DEF Steps
  <2> QED BY <1>1, <1>2, <1>4, <2>1, <2>2, <2>3, <2>4 DEF s, c
<1> QED BY <1>3, <1>4

\* Add() keeps the list well formed and without repetition, and p is then its
\* current and last entry.
LEMMA AddGood ==
    ASSUME NEW h, Good(h), NEW p \in Places
    PROVE  /\ Good(Add(h, p))
           /\ Steps(h.stack) => Steps(Add(h, p).stack)
           /\ Add(h, p).cur # 0 /\ Add(h, p).cur = Len(Add(h, p).stack)
           /\ Add(h, p).stack[Add(h, p).cur] = p
<1> DEFINE k == Kept(h)
           s == IF DidAdd(h, p) THEN Append(k, p) ELSE k
<1>1. k \in Seq(Places) /\ Len(k) < MaxStackSize /\ Len(k) \in Nat
      /\ (Steps(h.stack) => Steps(k))
  BY KeptPart
<1>2. MaxStackSize \in Nat /\ p # NoText
  BY StackAssumption, NoTextAssumption
<1>3. Add(h, p) = [stack |-> s, cur |-> Len(s)]
  BY <1>2 DEF Add
<1> HIDE DEF k
<1>4. CASE DidAdd(h, p)
  <2>1. s = Append(k, p)
    BY <1>4
  <2>2. /\ s \in Seq(Places) /\ Len(s) = Len(k) + 1 /\ s[Len(k) + 1] = p
        /\ \A i \in 1 .. Len(k) : s[i] = k[i]
        /\ s # << >>
    BY <1>1, <2>1
  <2>3. k = << >> \/ k[Len(k)] # p
    BY <1>4 DEF DidAdd, AtCurrent, k
  <2>4. Steps(k) => Steps(s)
    <3>1. SUFFICES ASSUME Steps(k), NEW i \in 1 .. Len(k) PROVE s[i] # s[i + 1]
      BY <1>1, <2>2 DEF Steps
    <3>2. CASE i = Len(k)
      BY <1>1, <2>2, <2>3, <3>2
    <3>3. CASE i # Len(k)
      BY <1>1, <2>2, <3>1, <3>3 DEF Steps
    <3> QED BY <3>2, <3>3
  <2> HIDE DEF s
  <2> QED BY <1>1, <1>2, <1>3, <2>2, <2>4 DEF Good
<1>5. CASE ~DidAdd(h, p)
  <2>1. s = k /\ k # << >> /\ k[Len(k)] = p
    BY <1>2, <1>5 DEF DidAdd, AtCurrent, k
  <2>2. Len(k) # 0
    BY <1>1, <2>1
  <2> HIDE DEF s
  <2> QED BY <1>1, <1>2, <1>3, <2>1, <2>2 DEF Good
<1> QED BY <1>4, <1>5

\* PreAdd() at any caret, also with no text document active.
LEMMA PreAddGood ==
    ASSUME NEW h, Good(h), NEW p \in Places \cup {NoText}
    PROVE  Good(Add(h, p)) /\ (Steps(h.stack) => Steps(Add(h, p).stack))
<1>1. CASE p = NoText
  BY <1>1 DEF Add
<1>2. CASE p \in Places
  BY <1>2, AddGood
<1> QED BY <1>1, <1>2

\* UndoAdd() takes the last entry away.
LEMMA UndoAddGood ==
    ASSUME NEW h, Good(h)
    PROVE  Good(UndoAdd(h)) /\ (Steps(h.stack) => Steps(UndoAdd(h).stack))
<1> DEFINE s == h.stack
           t == SubSeq(s, 1, Len(s) - 1)
<1>1. s \in Seq(Places) /\ Len(s) <= MaxStackSize /\ Len(s) \in Nat
  BY DEF Good
<1>2. MaxStackSize \in Nat
  BY StackAssumption
<1>3. CASE s = << >>
  BY <1>3 DEF UndoAdd
<1>4. CASE s # << >>
  <2>1. UndoAdd(h) = [stack |-> t, cur |-> Len(s) - 1]
    BY <1>4 DEF UndoAdd
  <2> HIDE DEF s
  <2>2. Len(s) >= 1
    BY <1>1, <1>4
  <2>3. /\ t \in Seq(Places) /\ Len(t) = Len(s) - 1
        /\ \A i \in 1 .. Len(s) - 1 : t[i] = s[i]
    <3>1. ASSUME NEW n \in Nat, n <= Len(s)
          PROVE  /\ SubSeq(s, 1, n) \in Seq(Places) /\ Len(SubSeq(s, 1, n)) = n
                 /\ \A i \in 1 .. n : SubSeq(s, 1, n)[i] = s[i]
      BY <1>1, <3>1
    <3>2. Len(s) - 1 \in Nat /\ Len(s) - 1 <= Len(s)
      BY <1>1, <2>2
    <3> QED BY <3>1, <3>2
  <2>4. Len(s) - 1 = 0 <=> t = << >>
    <3> HIDE DEF t
    <3> QED BY <1>1, <2>2, <2>3
  <2>5. Steps(s) => Steps(t)
    BY <1>1, <2>2, <2>3 DEF Steps
  <2> HIDE DEF t
  <2> QED BY <1>1, <1>2, <2>1, <2>2, <2>3, <2>4, <2>5 DEF Good, s
<1> QED BY <1>3, <1>4

(***************************************************************************)
(* The commands                                                            *)
(***************************************************************************)
Inv == CurInStack /\ NoRepeat

\* The invariant is the two properties of the one history the program has.
LEMMA InvGood ==
    Inv <=> Good(Hist) /\ Steps(stack) /\ here \in Places \cup {NoText}
BY DEF Inv, CurInStack, NoRepeat, Good, Steps, Hist

\* A command whose outcome is a good history keeps the invariant.
LEMMA BecomesInv ==
    ASSUME NEW h, Good(h), Steps(h.stack), Becomes(h), here' \in Places \cup {NoText}
    PROVE  Inv'
BY DEF Becomes, Inv, CurInStack, NoRepeat, Good, Steps

\* Every command keeps the invariant.
LEMMA NextInv == Inv /\ [Next]_vars => Inv'
<1> SUFFICES ASSUME Inv, [Next]_vars PROVE Inv'
  OBVIOUS
<1>1. Good(Hist) /\ Steps(Hist.stack) /\ here \in Places \cup {NoText}
  BY InvGood DEF Hist
<1>2. Good(Add(Hist, here)) /\ Steps(Add(Hist, here).stack)
  BY <1>1, PreAddGood
<1>3. ASSUME NEW p \in Places \cup {NoText}, Jump(p) PROVE Inv'
  <2>1. Good(Add(Add(Hist, here), p)) /\ Steps(Add(Add(Hist, here), p).stack)
    BY <1>2, PreAddGood
  <2> QED BY <1>3, <2>1, BecomesInv DEF Jump
<1>4. ASSUME NEW p \in Places \cup {NoText}, JumpFails(p) PROVE Inv'
  <2>1. Good(UndoAdd(Add(Hist, here))) /\ Steps(UndoAdd(Add(Hist, here)).stack)
    BY <1>2, UndoAddGood
  <2>2. here' \in Places \cup {NoText}
    BY <1>4 DEF JumpFails
  <2>3. CASE DidAdd(Hist, here)
    BY <1>4, <2>1, <2>2, <2>3, BecomesInv DEF JumpFails
  <2>4. CASE ~DidAdd(Hist, here)
    BY <1>2, <1>4, <2>2, <2>4, BecomesInv DEF JumpFails
  <2> QED BY <2>3, <2>4
<1>5. CASE OpenFails
  BY <1>1, <1>2, <1>5, BecomesInv DEF OpenFails
<1>6. ASSUME NEW i \in 1 .. Len(stack), Goto(i) PROVE Inv'
  <2>1. stack \in Seq(Places) /\ stack' = stack /\ cur' = i /\ i # 0
        /\ here' \in {here, stack[i]} /\ Len(stack) \in Nat
    BY <1>6 DEF Goto, Inv, CurInStack
  <2>2. stack[i] \in Places /\ stack # << >> /\ i \in 0 .. Len(stack)
    BY <2>1
  <2> QED BY <2>1, <2>2 DEF Inv, CurInStack, NoRepeat
<1>7. CASE Back \/ Forward
  BY <1>6, <1>7 DEF Back, Forward, Inv, CurInStack
<1>8. CASE Reset
  BY <1>8, StackAssumption DEF Reset, Inv, CurInStack, NoRepeat
<1>9. CASE \/ \E p \in Places \cup {NoText} : Move(p)
           \/ UNCHANGED vars
  BY <1>9 DEF Move, vars, Inv, CurInStack, NoRepeat
<1> QED BY <1>3, <1>4, <1>5, <1>6, <1>7, <1>8, <1>9 DEF Next, Select

\* A history starts empty.
LEMMA InitInv == Init => Inv
BY StackAssumption DEF Init, Inv, CurInStack, NoRepeat

\* The position never leaves the list and the list never outgrows its limit,
\* whatever commands succeed or fail in whatever order.
THEOREM PositionInHistory == Spec => []CurInStack
<1>1. Spec => []Inv
  BY InitInv, NextInv, PTL DEF Spec
<1> QED BY <1>1, PTL DEF Inv

\* No command ever leaves the same place twice in a row in the list.
THEOREM HistoryHasNoRepeat == Spec => []NoRepeat
<1>1. Spec => []Inv
  BY InitInv, NextInv, PTL DEF Spec
<1> QED BY <1>1, PTL DEF Inv

\* One jump: the place it left is the entry before the current one.
LEMMA JumpStepComesBack ==
    ASSUME Inv, NEW p \in Places, Jump(p), here \notin {p, NoText}
    PROVE  cur' > 1 /\ stack'[cur'] = p /\ stack'[cur' - 1] = here
<1> DEFINE h == Add(Hist, here)
           g == Add(h, p)
           k == Kept(h)
<1>1. here \in Places /\ Good(Hist)
  BY InvGood
<1>2. /\ Good(h) /\ h.cur # 0 /\ h.cur = Len(h.stack) /\ h.stack[h.cur] = here
  BY <1>1, AddGood
<1>3. Good(g) /\ g.cur = Len(g.stack) /\ g.stack[g.cur] = p /\ g.cur # 0
  BY <1>2, AddGood
<1>4. k \in Seq(Places) /\ k # << >> /\ k[Len(k)] = here
  BY <1>2, KeptPart
<1>5. DidAdd(h, p) /\ p # NoText
  BY <1>4, NoTextAssumption DEF DidAdd, AtCurrent
<1>6. g.stack = Append(k, p) /\ g.cur = Len(Append(k, p))
  BY <1>5 DEF Add
<1>7. cur' = g.cur /\ stack' = g.stack
  BY DEF Jump, Becomes
<1> HIDE DEF g, h, k
<1>8. Len(k) \in Nat /\ Len(k) # 0
  BY <1>4
<1>9. /\ Len(Append(k, p)) = Len(k) + 1 /\ Append(k, p)[Len(k)] = k[Len(k)]
      /\ Append(k, p)[Len(k) + 1] = p
  BY <1>4, <1>8
<1> QED BY <1>4, <1>6, <1>7, <1>8, <1>9

\* Back after a jump returns to where the jump was made, for every limit of the
\* list of at least two entries.
THEOREM JumpsComeBack == Spec => JumpComesBack
<1>1. Spec => []Inv
  BY InitInv, NextInv, PTL DEF Spec
<1> DEFINE Step == \A p \in Places :
                      Jump(p) /\ here \notin {p, NoText} =>
                         cur' > 1 /\ stack'[cur'] = p /\ stack'[cur' - 1] = here
<1>2. Inv => Step
  BY JumpStepComesBack
<1> QED BY <1>1, <1>2, PTL DEF JumpComesBack

(***************************************************************************)
(* The commands of the add-in and the history                              *)
(***************************************************************************)
\* A jump to a tag is one of the history's jumps, or one that fails.
LEMMA GotoTagUsesHistory ==
    ASSUME here \in Places \cup {NoText}, world \in DOMAIN Worlds, NEW t, NEW before,
           GotoTag(t, before)
    PROVE  Next
<1>1. W.places \subseteq Places
  BY WorldsAssumption DEF W
<1>2. CASE JumpFails(here)
  BY <1>2 DEF Next
<1>3. CASE \E p \in {r \in W.places : At[r].file = Info[t].file} : JumpFails(p)
  BY <1>1, <1>3 DEF Next
<1>4. CASE \E p \in TextOf(t) : Jump(p)
  BY <1>1, <1>4 DEF Next, TextOf
<1> QED BY <1>2, <1>3, <1>4 DEF GotoTag

LEMMA OpensUsesHistory ==
    ASSUME world \in DOMAIN Worlds, NEW g, Opens(g)
    PROVE  Next
<1>1. W.places \subseteq Places
  BY WorldsAssumption DEF W
<1> QED BY <1>1 DEF Opens, Next

\* Every command of the add-in is one of the history's commands or leaves it alone.
LEMMA StepUsesHistory ==
    ASSUME here \in Places \cup {NoText}, world \in DOMAIN Worlds, [NavNext]_navVars
    PROVE  [Next]_vars
<1>1. W.places \subseteq Places
  BY WorldsAssumption DEF W
<1>2. CASE UNCHANGED navVars \/ RefreshTags \/ \E q \in W.queries, l \in Scopes : Search(q, l)
  BY <1>2 DEF navVars, RefreshTags, Search, histVars, vars
<1>3. CASE \/ \E t \in All, declaration \in BOOLEAN : FindTagSelect(t, declaration)
           \/ TagFindNext \/ TagFindPrev
  BY <1>3, GotoTagUsesHistory DEF FindTagSelect, TagFindNext, TagFindPrev, Follow
<1>4. CASE \E wd \in W.words, dialog \in BOOLEAN : FindAtCursor(wd, dialog)
  <2>1. UNCHANGED histVars \/ \E t : GotoTag(t, NoTag)
    BY <1>4 DEF FindAtCursor
  <2> QED BY <2>1, GotoTagUsesHistory DEF histVars, vars
<1>5. CASE TagFlip
  <2>1. here' = here \/ \E p \in W.places : here' = p
    BY <1>5 DEF TagFlip, TextOf
  <2>2. UNCHANGED <<stack, cur>>
    BY <1>5 DEF TagFlip
  <2> QED BY <1>1, <2>1, <2>2 DEF Next, Move, vars
<1>6. CASE FileFindNext \/ FileFindPrev
  <2>1. OpenFails \/ \E g : Opens(g)
    BY <1>6 DEF FileFindNext, FileFindPrev, FileFind
  <2> QED BY <2>1, OpensUsesHistory DEF Next
<1>7. CASE HeaderFlip
  BY <1>7, OpensUsesHistory DEF HeaderFlip, Next
<1>8. CASE Others
  <2>1. CASE \E p \in W.places \cup {NoText} : Move(p)
    BY <1>1, <2>1 DEF Next
  <2>2. CASE Back \/ Forward \/ Reset \/ \E i \in 1 .. Len(stack) : Select(i)
    BY <2>2, SMTT(30) DEF Next
  <2> QED BY <1>8, <2>1, <2>2, Zenon DEF Others
<1> QED BY <1>2, <1>3, <1>4, <1>5, <1>6, <1>7, <1>8 DEF NavNext

LEMMA WorldStays == world \in DOMAIN Worlds /\ [NavNext]_navVars => world' = world
BY DEF NavNext, navVars, RefreshTags, Search, FindTagSelect, FindAtCursor, TagFindNext,
       TagFindPrev, Follow, TagFlip, FileFindNext, FileFindPrev, FileFind, HeaderFlip, Others

\* What the invariant of the history needs, and what the commands keep of it.
HistoryInv == Inv /\ world \in DOMAIN Worlds
LEMMA HistoryInvHolds == NavSpec => []HistoryInv
<1>1. NavInit => HistoryInv
  BY InitInv DEF NavInit, HistoryInv
<1>2. HistoryInv /\ [NavNext]_navVars => HistoryInv'
  <2> SUFFICES ASSUME HistoryInv, [NavNext]_navVars PROVE HistoryInv'
    OBVIOUS
  <2>1. here \in Places \cup {NoText} /\ world \in DOMAIN Worlds
    BY DEF HistoryInv, Inv, CurInStack
  <2>2. Inv'
    BY <2>1, StepUsesHistory, NextInv DEF HistoryInv
  <2> QED BY <2>1, <2>2, WorldStays DEF HistoryInv
<1> QED BY <1>1, <1>2, PTL DEF NavSpec

\* The add-in implements the history: whatever is searched, found, opened or fails to
\* open, the list of places changes only as Add(), UndoAdd() and the commands of the
\* history change it, so that its theorems hold of the add-in.
THEOREM AddInUsesHistory == NavSpec => CommandsUseHistory
<1>1. NavInit => Init
  BY DEF NavInit
<1>2. HistoryInv /\ [NavNext]_navVars => [Next]_vars
  BY StepUsesHistory DEF HistoryInv, Inv, CurInStack
<1> QED BY <1>1, <1>2, HistoryInvHolds, PTL DEF NavSpec, CommandsUseHistory, Spec

\* In the add-in, too, the position stays in the list, no place is twice in a row, and
\* Back returns from a jump.
THEOREM HistoryOfAddIn == NavSpec => []CurInStack /\ []NoRepeat /\ JumpComesBack
BY AddInUsesHistory, PositionInHistory, HistoryHasNoRepeat, JumpsComeBack, PTL
   DEF CommandsUseHistory

(***************************************************************************)
(* Declarations and implementations                                        *)
(***************************************************************************)
\* The partners b of the tags S are mutual, and of one name and parent.
Mutual(b, S) ==
    /\ b \in [S -> S \cup {NoTag}]
    /\ \A t \in S : b[t] # NoTag =>
          /\ b[b[t]] = t /\ Declaration(t) # Declaration(b[t])
          /\ Info[b[t]].ident = Info[t].ident /\ Info[b[t]].parent = Info[t].parent

\* The implementation found for a declaration is of the list, has no partner yet, and
\* has the name and the parent of the declaration.
LEMMA PartnerFits ==
    ASSUME NEW l, Len(l) \in Nat, DOMAIN l = 1 .. Len(l), NEW i \in 1 .. Len(l), NEW b,
           NEW p, p = PartnerOf(l, i, b), p # NoTag
    PROVE  /\ p \in ToSet(l) /\ Free(p, b)
           /\ Info[p].ident = Info[l[i]].ident /\ Info[p].parent = Info[l[i]].parent
<1> DEFINE c == Candidates(l, i, b)
           ends == {k \in c : BuddyVerdict(l[i], l[k]) \in {"stop", "pair"}}
           close == {k \in c : /\ BuddyVerdict(l[i], l[k]) = "close"
                               /\ \A e \in ends : k < e}
<1>1. c \in SUBSET (1 .. Len(l)) /\ \A k \in c : l[k] \in ToSet(l) /\ Free(l[k], b)
  BY DEF Candidates, ToSet
<1>2. \A k \in c : BuddyVerdict(l[i], l[k]) \in {"pair", "close"} =>
         Info[l[k]].ident = Info[l[i]].ident /\ Info[l[k]].parent = Info[l[i]].parent
  BY DEF BuddyVerdict
<1>3. CASE ends # {} /\ BuddyVerdict(l[i], l[Min(ends)]) = "pair"
  <2>1. PICK k \in ends : \A y \in ends : k <= y
    <3>1. ends \in SUBSET Nat /\ ends # {}
      BY <1>1, <1>3
    <3> HIDE DEF ends
    <3> QED BY <3>1, MinExists
  <2>2. Min(ends) \in ends
    BY <2>1 DEF Min
  <2>3. p = l[Min(ends)]
    BY <1>3 DEF PartnerOf
  <2> QED BY <1>1, <1>2, <1>3, <2>2, <2>3
<1>4. CASE ~(ends # {} /\ BuddyVerdict(l[i], l[Min(ends)]) = "pair")
  <2>1. close # {} /\ p = l[Max(close)]
    BY <1>4 DEF PartnerOf
  <2>2. PICK k \in close : \A y \in close : y <= k
    <3>1. close \in SUBSET (1 .. Len(l)) /\ 1 \in Nat /\ Len(l) \in Int
      BY <1>1
    <3> HIDE DEF close
    <3> QED BY <2>1, <3>1, MaxExists
  <2>3. Max(close) \in close
    BY <2>2 DEF Max
  <2> QED BY <1>1, <1>2, <2>1, <2>3
<1> QED BY <1>3, <1>4

\* One pair more.
LEMMA PairMutual ==
    ASSUME NEW S \in SUBSET (Nat \ {NoTag}), NEW b, Mutual(b, S),
           NEW d \in S, Declaration(d), b[d] = NoTag, NEW t \in S, Free(t, b),
           Info[t].ident = Info[d].ident, Info[t].parent = Info[d].parent
    PROVE  Mutual(Pair(b, d, t), S)
<1> DEFINE f == [b EXCEPT ![d] = t, ![t] = d]
<1>1. t # NoTag /\ d # t /\ ~Declaration(t) /\ b[t] = NoTag
  BY DEF Free
<1>2. Pair(b, d, t) = f
  BY <1>1 DEF Pair
<1>3. b \in [S -> S \cup {NoTag}]
  BY DEF Mutual
<1>4. /\ f \in [S -> S \cup {NoTag}] /\ f[d] = t /\ f[t] = d
      /\ \A x \in S \ {d, t} : f[x] = b[x]
  BY <1>1, <1>3
<1> HIDE DEF f
<1>5. ASSUME NEW x \in S, f[x] # NoTag
      PROVE  /\ f[f[x]] = x /\ Declaration(x) # Declaration(f[x])
             /\ Info[f[x]].ident = Info[x].ident /\ Info[f[x]].parent = Info[x].parent
  <2>1. CASE x = d
    <3>1. f[x] = t /\ f[f[x]] = x
      BY <1>4, <2>1
    <3> QED BY <1>1, <2>1, <3>1
  <2>2. CASE x = t
    <3>1. f[x] = d /\ f[f[x]] = x
      BY <1>4, <2>2
    <3> QED BY <1>1, <2>2, <3>1
  <2>3. CASE x \notin {d, t}
    <3>1. f[x] = b[x] /\ b[x] \in S /\ b[b[x]] = x /\ x # NoTag
      BY <1>3, <1>4, <1>5, <2>3 DEF Mutual
    <3>2. b[x] \notin {d, t}
      BY <1>1, <3>1
    <3>3. f[f[x]] = x
      BY <1>4, <3>1, <3>2
    <3>4. /\ Declaration(x) # Declaration(b[x])
          /\ Info[b[x]].ident = Info[x].ident /\ Info[b[x]].parent = Info[x].parent
      BY <1>5, <3>1 DEF Mutual
    <3> QED BY <3>1, <3>3, <3>4
  <2> QED BY <2>1, <2>2, <2>3
<1> QED BY <1>2, <1>4, <1>5 DEF Mutual

\* The partners after each of the first n tags of the list.
BuddyStep(l, i, b) == IF Declaration(l[i]) /\ b[l[i]] = NoTag
                      THEN Pair(b, l[i], PartnerOf(l, i, b)) ELSE b
PairedUpTo(f, n, l) ==
    f = [i \in 0 .. n |-> IF i = 0 THEN [t \in ToSet(l) |-> NoTag]
                          ELSE BuddyStep(l, i, f[i - 1])]

LEMMA PairedExists == ASSUME NEW l, NEW n \in Nat PROVE \E f : PairedUpTo(f, n, l)
<1> DEFINE B == {m \in Nat : ~\E f : PairedUpTo(f, m, l)}
           none == [t \in ToSet(l) |-> NoTag]
<1> SUFFICES ASSUME ~\E f : PairedUpTo(f, n, l) PROVE FALSE
  OBVIOUS
<1>1. B \in SUBSET Nat /\ B # {}
  OBVIOUS
<1>2. PICK m \in B : \A x \in B : m <= x
  <2> HIDE DEF B
  <2> QED BY <1>1, MinExists
<1>3. m \in Nat /\ ~\E f : PairedUpTo(f, m, l)
  OBVIOUS
<1>4. m # 0
  <2>1. PairedUpTo([k \in 0 .. 0 |-> none], 0, l)
    BY DEF PairedUpTo
  <2> QED BY <1>3, <2>1
<1>5. m - 1 \in Nat /\ ~(m <= m - 1)
  BY <1>3, <1>4
<1>6. PICK g : PairedUpTo(g, m - 1, l)
  <2>1. m - 1 \notin B
    <3> HIDE DEF B
    <3> QED BY <1>2, <1>5
  <2> QED BY <1>5, <2>1
<1> HIDE DEF none
<1> DEFINE Step(b, k) == IF k = 0 THEN none ELSE BuddyStep(l, k, b)
           f == [k \in 0 .. m |-> IF k = m THEN Step(g[m - 1], m) ELSE g[k]]
<1>7. ASSUME NEW k \in 0 .. m
      PROVE  f[k] = Step(f[k - 1], k)
  <2>1. ASSUME NEW i \in 0 .. m - 1
        PROVE  f[i] = g[i]
    <3>1. i \in 0 .. m /\ i # m
      BY <1>3, <1>5
    <3> HIDE DEF Step
    <3> QED BY <3>1
  <2>2. CASE k = m
    <3>1. f[k] = Step(g[m - 1], m)
      BY <2>2, Zenon
    <3>2. m - 1 \in 0 .. m - 1 /\ k - 1 = m - 1
      BY <1>3, <1>4, <2>2
    <3> HIDE DEF f, Step
    <3> QED BY <2>1, <2>2, <3>1, <3>2
  <2>3. CASE k # m
    <3>1. k \in 0 .. m - 1 /\ (k # 0 => k - 1 \in 0 .. m - 1)
      BY <1>3, <2>3
    <3>2. g[k] = IF k = 0 THEN none ELSE BuddyStep(l, k, g[k - 1])
      BY <1>6, <3>1, Zenon DEF PairedUpTo, none
    <3> HIDE DEF f
    <3> QED BY <2>1, <3>1, <3>2
  <2> QED BY <2>2, <2>3
<1>8. PairedUpTo(f, m, l)
  <2>1. f = [k \in 0 .. m |-> f[k]]
    OBVIOUS
  <2> HIDE DEF f
  <2> QED BY <1>7, <2>1 DEF PairedUpTo, none
<1> QED BY <1>3, <1>8

LEMMA BuddySteps ==
    ASSUME NEW l, Len(l) \in Nat
    PROVE  \E f : PairedUpTo(f, Len(l), l) /\ MatchBuddies(l) = f[Len(l)]
<1> DEFINE F == CHOOSE f : f = [i \in 0 .. Len(l) |->
                                  IF i = 0 THEN [t \in ToSet(l) |-> NoTag]
                                  ELSE LET b == f[i - 1]
                                       IN IF Declaration(l[i]) /\ b[l[i]] = NoTag
                                          THEN Pair(b, l[i], PartnerOf(l, i, b)) ELSE b]
<1>1. \E f : f = [i \in 0 .. Len(l) |->
                    IF i = 0 THEN [t \in ToSet(l) |-> NoTag]
                    ELSE LET b == f[i - 1]
                         IN IF Declaration(l[i]) /\ b[l[i]] = NoTag
                            THEN Pair(b, l[i], PartnerOf(l, i, b)) ELSE b]
  BY PairedExists, SMTT(30) DEF PairedUpTo, BuddyStep
<1>2. PairedUpTo(F, Len(l), l)
  BY <1>1, Zenon DEF PairedUpTo, BuddyStep
<1>3. MatchBuddies(l) = F[Len(l)]
  BY DEF MatchBuddies
<1> QED BY <1>2, <1>3

\* One tag of the list keeps the partners mutual.
LEMMA BuddyStepMutual ==
    ASSUME NEW l, Len(l) \in Nat, DOMAIN l = 1 .. Len(l), ToSet(l) \in SUBSET (Nat \ {NoTag}),
           NEW i \in 1 .. Len(l), NEW b, Mutual(b, ToSet(l))
    PROVE  Mutual(BuddyStep(l, i, b), ToSet(l))
<1> DEFINE d == l[i]
           p == PartnerOf(l, i, b)
<1>1. d \in ToSet(l)
  BY DEF ToSet
<1>2. CASE ~(Declaration(d) /\ b[d] = NoTag)
  BY <1>2 DEF BuddyStep
<1>3. CASE Declaration(d) /\ b[d] = NoTag
  <2>1. BuddyStep(l, i, b) = Pair(b, d, p)
    BY <1>3 DEF BuddyStep
  <2>2. CASE p = NoTag
    BY <2>1, <2>2 DEF Pair
  <2>3. CASE p # NoTag
    <3>1. /\ p \in ToSet(l) /\ Free(p, b)
          /\ Info[p].ident = Info[d].ident /\ Info[p].parent = Info[d].parent
      BY <2>3, PartnerFits
    <3> HIDE DEF d, p
    <3> QED BY <1>1, <1>3, <2>1, <3>1, PairMutual
  <2> QED BY <2>2, <2>3
<1> QED BY <1>2, <1>3

\* After all tags of the list they are mutual: there is no first one after which they
\* are not.
LEMMA PairedMutual ==
    ASSUME NEW S \in SUBSET (Nat \ {NoTag}), NEW l \in Seq(S), ToSet(l) = S,
           NEW f, PairedUpTo(f, Len(l), l)
    PROVE  \A i \in 0 .. Len(l) : Mutual(f[i], S)
<1> DEFINE c == Len(l)
<1>1. c \in Nat /\ DOMAIN l = 1 .. c
  OBVIOUS
<1>2. PairedUpTo(f, c, l)
  OBVIOUS
<1> HIDE DEF c
<1>3. \A i \in 0 .. c : f[i] = IF i = 0 THEN [t \in ToSet(l) |-> NoTag]
                                ELSE BuddyStep(l, i, f[i - 1])
  BY <1>2, Zenon DEF PairedUpTo
<1>4. ASSUME NEW i \in 0 .. c, ~Mutual(f[i], S)
      PROVE  FALSE
  <2> DEFINE B == {m \in 0 .. c : ~Mutual(f[m], S)}
  <2>1. B \in SUBSET Nat /\ B # {}
    BY <1>1, <1>4
  <2>2. PICK m \in B : \A x \in B : m <= x
    <3> HIDE DEF B
    <3> QED BY <2>1, MinExists
  <2>3. m \in 0 .. c /\ ~Mutual(f[m], S)
    OBVIOUS
  <2>4. CASE m = 0
    <3>1. f[m] = [t \in S |-> NoTag]
      BY <1>3, <2>3, <2>4
    <3> QED BY <2>3, <3>1 DEF Mutual
  <2>5. CASE m # 0
    <3>1. m \in 1 .. c /\ m - 1 \in 0 .. c /\ ~(m <= m - 1)
      BY <1>1, <2>3, <2>5
    <3>2. Mutual(f[m - 1], S)
      <4>1. m - 1 \notin B
        <5> HIDE DEF B
        <5> QED BY <2>2, <3>1
      <4> QED BY <3>1, <4>1
    <3>3. f[m] = BuddyStep(l, m, f[m - 1])
      BY <1>3, <2>3, <2>5
    <3>4. Mutual(BuddyStep(l, m, f[m - 1]), S)
      BY <1>1, <3>1, <3>2, BuddyStepMutual DEF c
    <3> QED BY <2>3, <3>3, <3>4
  <2> QED BY <2>4, <2>5
<1> QED BY <1>4 DEF c

LEMMA BuddiesOfList ==
    ASSUME NEW S \in SUBSET (Nat \ {NoTag}), NEW l \in Seq(S), ToSet(l) = S
    PROVE  Mutual(MatchBuddies(l), S)
<1>1. Len(l) \in Nat /\ Len(l) \in 0 .. Len(l)
  OBVIOUS
<1>2. PICK f : PairedUpTo(f, Len(l), l) /\ MatchBuddies(l) = f[Len(l)]
  BY <1>1, BuddySteps
<1> QED BY <1>1, <1>2, PairedMutual

(***************************************************************************)
(* The links between the matches                                           *)
(***************************************************************************)
\* Different tags of the set S, in some order.
Distinct(m, S) == m \in Seq(S) /\ \A i, j \in 1 .. Len(m) : m[i] = m[j] => i = j

\* The links of the tags k lead along the matches m.
LinkOf(m, i) == IF i \in DOMAIN m THEN m[i] ELSE NoTag
LinksOK(k, m) ==
    \A i \in 1 .. Len(m) : /\ k.next[m[i]] = LinkOf(m, i + 1)
                           /\ k.prev[m[i]] = LinkOf(m, i - 1)

\* The tags S in memory.
Fields(k) == k = [list |-> k.list, buddy |-> k.buddy, next |-> k.next, prev |-> k.prev]
TagsOK(k, S) ==
    /\ Fields(k) /\ Distinct(k.list, S) /\ ToSet(k.list) = S /\ Mutual(k.buddy, S)
    /\ DOMAIN k.next = S /\ DOMAIN k.prev = S

\* The positions of different entries.
LEMMA PositionIs ==
    ASSUME NEW S, NEW m, Distinct(m, S), NEW i \in 1 .. Len(m)
    PROVE  Position(m, m[i]) = i
<1>1. DOMAIN m = 1 .. Len(m) /\ \A j \in 1 .. Len(m) : m[j] = m[i] => j = i
  BY DEF Distinct
<1> QED BY <1>1 DEF Position

\* Entries at different positions of a list without repetition.
LEMMA EntriesDistinct ==
    ASSUME NEW S, NEW l, Distinct(l, S), NEW P \in SUBSET DOMAIN l
    PROVE  Distinct(EntriesAt(l, P), S)
<1> DEFINE at == InOrder(P)
           m == EntriesAt(l, P)
<1>1. l \in Seq(S)
  BY DEF Distinct
<1>2. /\ m \in Seq(S) /\ Len(m) = Len(at)
      /\ \A k \in 1 .. Len(m) : at[k] \in P /\ at[k] \in 1 .. Len(l) /\ m[k] = l[at[k]]
      /\ \A i, j \in 1 .. Len(m) : at[i] = at[j] => i = j
  BY <1>1, EntriesOf
<1> HIDE DEF at, m
<1>3. ASSUME NEW i \in 1 .. Len(m), NEW j \in 1 .. Len(m), m[i] = m[j] PROVE i = j
  <2>1. l[at[i]] = l[at[j]] /\ at[i] \in 1 .. Len(l) /\ at[j] \in 1 .. Len(l)
    BY <1>2, <1>3
  <2>2. at[i] = at[j]
    BY <2>1 DEF Distinct
  <2> QED BY <1>2, <2>2
<1> QED BY <1>2, <1>3 DEF Distinct, m

\* The match after and before the i-th of n, around the ring.
LEMMA AroundTheRing ==
    ASSUME NEW n \in Nat, NEW i \in 1 .. n
    PROVE  /\ (i % n) + 1 = IF i = n THEN 1 ELSE i + 1
           /\ ((i + n - 2) % n) + 1 = IF i = 1 THEN n ELSE i - 1
<1>1. n > 0
  OBVIOUS
<1>2. CASE i < n
  BY <1>1, <1>2
<1>3. CASE i = n
  BY <1>1, <1>3
<1> QED BY <1>2, <1>3

\* Files read again keep the list and the partners.
LEMMA RereadTags ==
    ASSUME NEW T, NEW k, TagsOK(k, T), NEW S
    PROVE  TagsOK(Reread(S, k), T)
<1> DEFINE r == Reread(S, k)
           first(t) == \A i \in 1 .. Len(k.list) :
                          Info[k.list[i]].file = Info[t].file => Position(k.list, t) <= i
           kept(x) == IF x \notin {NoTag, Wild} /\ Info[x].file \in S THEN Wild ELSE x
           nx(t) == IF Info[t].file \notin S THEN kept(k.next[t])
                    ELSE IF first(t) THEN NoTag ELSE Wild
           pv(t) == IF Info[t].file \in S THEN Wild ELSE kept(k.prev[t])
<1>1. Fields(k) /\ DOMAIN k.next = T /\ DOMAIN k.prev = T
  BY DEF TagsOK
<1>2. r = [k EXCEPT !.next = [t \in T |-> nx(t)], !.prev = [t \in T |-> pv(t)]]
  BY <1>1, Zenon DEF Reread
<1> HIDE DEF r, nx, pv
<1>3. /\ Fields(r) /\ r.list = k.list /\ r.buddy = k.buddy
      /\ DOMAIN r.next = T /\ DOMAIN r.prev = T
  BY <1>1, <1>2 DEF Fields
<1> QED BY <1>3 DEF TagsOK, r

\* A search leaves the links along its matches.
LEMMA LinkedTags ==
    ASSUME NEW T, NEW k, TagsOK(k, T), NEW m, Distinct(m, T)
    PROVE  TagsOK(Linked(k, m), T) /\ LinksOK(Linked(k, m), m)
<1> DEFINE r == Linked(k, m)
           nx(t) == IF t \notin ToSet(m) THEN k.next[t]
                    ELSE IF t = m[Len(m)] THEN NoTag ELSE m[Position(m, t) + 1]
           pv(t) == IF t \notin ToSet(m) THEN k.prev[t]
                    ELSE IF t = m[1] THEN NoTag ELSE m[Position(m, t) - 1]
<1>1. Fields(k) /\ DOMAIN k.next = T /\ DOMAIN k.prev = T
  BY DEF TagsOK
<1>2. r = [k EXCEPT !.next = [t \in T |-> nx(t)], !.prev = [t \in T |-> pv(t)]]
  BY <1>1, Zenon DEF Linked
<1> HIDE DEF nx, pv, r
<1>3. /\ Fields(r) /\ r.list = k.list /\ r.buddy = k.buddy
      /\ r.next = [t \in T |-> nx(t)] /\ r.prev = [t \in T |-> pv(t)]
  BY <1>1, <1>2 DEF Fields
<1>4. TagsOK(r, T)
  BY <1>3 DEF TagsOK
<1>5. ASSUME NEW i \in 1 .. Len(m)
      PROVE  r.next[m[i]] = LinkOf(m, i + 1) /\ r.prev[m[i]] = LinkOf(m, i - 1)
  <2>1. /\ m \in Seq(T) /\ Len(m) \in Nat /\ DOMAIN m = 1 .. Len(m) /\ m[i] \in T
        /\ m[i] \in ToSet(m)
    BY DEF Distinct, ToSet
  <2>2. Position(m, m[i]) = i
    BY PositionIs
  <2>3. Len(m) \in 1 .. Len(m) /\ 1 \in 1 .. Len(m)
    BY <2>1
  <2>4. (m[i] = m[Len(m)] <=> i = Len(m)) /\ (m[i] = m[1] <=> i = 1)
    <3>1. \A j \in 1 .. Len(m) : m[i] = m[j] => i = j
      BY SMTT(30) DEF Distinct
    <3> QED BY <2>3, <3>1, Zenon
  <2>5. nx(m[i]) = LinkOf(m, i + 1)
    <3>1. i = Len(m) <=> i + 1 \notin 1 .. Len(m)
      <4>1. Len(m) \in Nat
        BY <2>1, SMTT(30)
      <4> QED BY ONLY <4>1, i \in 1 .. Len(m)
    <3> QED BY <2>1, <2>2, <2>4, <3>1 DEF nx, LinkOf
  <2>6. pv(m[i]) = LinkOf(m, i - 1)
    <3>1. i = 1 <=> i - 1 \notin 1 .. Len(m)
      BY ONLY <2>1, i \in 1 .. Len(m)
    <3> QED BY <2>1, <2>2, <2>4, <3>1 DEF pv, LinkOf
  <2> QED BY <1>3, <2>1, <2>5, <2>6
<1> QED BY <1>4, <1>5 DEF LinksOK, r

\* The tags in memory and the matches of the last search.
TagsInv == /\ world \in DOMAIN Worlds
           /\ TagsOK(tags, W.tags) /\ Distinct(matches, W.tags) /\ LinksOK(tags, matches)

LEMMA NoMatches ==
    ASSUME NEW S, NEW k
    PROVE  Distinct(<< >>, S) /\ LinksOK(k, << >>)
BY DEF Distinct, LinksOK

LEMMA InitTagsInv == NavInit => TagsInv
<1> SUFFICES ASSUME NavInit PROVE TagsInv
  OBVIOUS
<1>1. world \in DOMAIN Worlds /\ matches = << >>
  BY DEF NavInit
<1>2. W.tags \in SUBSET (Nat \ {NoTag}) /\ IsFiniteSet(W.tags)
  BY <1>1, WorldsAssumption DEF W
<1> DEFINE none == [t \in W.tags |-> NoTag]
<1>3. PICK l \in Orders(W.tags) :
         tags = Reread({Info[t].file : t \in W.tags},
                       [list |-> l, buddy |-> MatchBuddies(l), next |-> none, prev |-> none])
  BY DEF NavInit
<1> DEFINE k == [list |-> l, buddy |-> MatchBuddies(l), next |-> none, prev |-> none]
<1>4. l \in SetToSeqs(W.tags)
  BY DEF Orders
<1>5. Distinct(l, W.tags) /\ ToSet(l) = W.tags
  BY <1>2, <1>4, OrderOfSet DEF Distinct
<1>6. Mutual(MatchBuddies(l), W.tags)
  BY <1>2, <1>5, BuddiesOfList DEF Distinct
<1>7. TagsOK(k, W.tags)
  BY <1>5, <1>6 DEF TagsOK, Fields
<1> HIDE DEF k
<1>8. TagsOK(tags, W.tags)
  BY <1>3, <1>7, RereadTags DEF k
<1> QED BY <1>1, <1>8, NoMatches DEF TagsInv

\* Matches of a list without repetition are different tags.
LEMMA MatchesDistinct ==
    ASSUME NEW S, NEW l, Distinct(l, S), NEW q, NEW b
    PROVE  Distinct(Matches(l, q, b), S)
<1> DEFINE shown == {i \in DOMAIN l : Shown(l[i], q, b)}
           stops == {i \in shown :
                        HasText(q.name) /\ Past(q.name, Checked(q.name, Info[l[i]].ident))}
           P == {i \in shown : TagFits(l[i], q) /\ \A k \in stops : i < k}
<1>1. Matches(l, q, b) = EntriesAt(l, P)
  BY DEF Matches
<1>2. P \in SUBSET DOMAIN l
  OBVIOUS
<1> HIDE DEF P
<1> QED BY <1>1, <1>2, EntriesDistinct

LEMMA ScopesDistinct ==
    ASSUME NEW S, TagsOK(tags, S), NEW l \in Scopes
    PROVE  Distinct(l, S)
<1> DEFINE ofAll(F) == {i \in DOMAIN tags.list : Info[tags.list[i]].file \in F}
<1>1. l = tags.list \/ \E F : l = EntriesAt(tags.list, ofAll(F))
  BY DEF Scopes
<1>2. Distinct(tags.list, S)
  BY DEF TagsOK
<1>3. ASSUME NEW F PROVE Distinct(EntriesAt(tags.list, ofAll(F)), S)
  <2>1. ofAll(F) \in SUBSET DOMAIN tags.list
    OBVIOUS
  <2> HIDE DEF ofAll
  <2> QED BY <1>2, <2>1, EntriesDistinct
<1> QED BY <1>1, <1>2, <1>3

LEMMA NextTagsInv == TagsInv /\ [NavNext]_navVars => TagsInv'
<1> SUFFICES ASSUME TagsInv, [NavNext]_navVars PROVE TagsInv'
  OBVIOUS
<1>1. world' = world /\ W.tags' = W.tags /\ world \in DOMAIN Worlds
  BY WorldStays DEF TagsInv, W
<1> DEFINE T == W.tags
<1>2. TagsOK(tags, T) /\ Distinct(matches, T) /\ LinksOK(tags, matches)
  BY DEF TagsInv
<1>3. ASSUME TagsOK(tags', T), Distinct(matches', T), LinksOK(tags', matches')
      PROVE  TagsInv'
  BY <1>1, <1>3 DEF TagsInv
<1> HIDE DEF T
<1>4. CASE UNCHANGED <<tags, matches>>
  BY <1>2, <1>3, <1>4
<1>5. CASE RefreshTags \/ TagFlip
  <2>1. matches' = << >> /\ \E S : tags' = Reread(S, tags)
    BY <1>5 DEF RefreshTags, TagFlip
  <2> QED BY <1>2, <1>3, <2>1, RereadTags, NoMatches
<1>6. ASSUME NEW q, NEW l \in Scopes, Search(q, l) PROVE TagsInv'
  <2>1. matches' = Matches(l, q, tags.buddy) /\ tags' = Linked(tags, matches')
    BY <1>6 DEF Search
  <2>2. Distinct(matches', T)
    BY <1>2, <2>1, ScopesDistinct, MatchesDistinct
  <2> QED BY <1>2, <1>3, <2>1, <2>2, LinkedTags
<1>7. ASSUME NEW wd, NEW dialog, FindAtCursor(wd, dialog) PROVE TagsInv'
  <2>1. \E q : matches' = Matches(tags.list, q, tags.buddy)
    BY <1>7 DEF FindAtCursor
  <2>2. PICK S : tags' = Linked(Reread(S, tags), matches')
    BY <1>7 DEF FindAtCursor
  <2>3. Distinct(matches', T)
    BY <1>2, <2>1, MatchesDistinct DEF TagsOK
  <2>4. TagsOK(Reread(S, tags), T)
    BY <1>2, RereadTags
  <2> QED BY <1>3, <2>2, <2>3, <2>4, LinkedTags
<1>8. CASE \/ \E t \in All, declaration \in BOOLEAN : FindTagSelect(t, declaration)
           \/ TagFindNext \/ TagFindPrev
  BY <1>4, <1>8 DEF FindTagSelect, TagFindNext, TagFindPrev, Follow
<1>9. CASE FileFindNext \/ FileFindPrev \/ HeaderFlip \/ Others
  BY <1>4, <1>9 DEF FileFindNext, FileFindPrev, FileFind, HeaderFlip, Others, tagVars
<1>10. CASE UNCHANGED navVars
  BY <1>4, <1>10 DEF navVars
<1> QED BY <1>5, <1>6, <1>7, <1>8, <1>9, <1>10 DEF NavNext

LEMMA TagsInvHolds == NavSpec => []TagsInv
BY InitTagsInv, NextTagsInv, PTL DEF NavSpec

\* Whatever tags a workspace has and however the sort left them, a declaration and its
\* implementation are each other's partner and nobody else's, of one name and parent
\* (WorkspaceTags::MatchBuddies()).
THEOREM PartnersMutual == NavSpec => []BuddiesMutual
<1>1. TagsInv => BuddiesMutual
  BY DEF TagsInv, TagsOK, Mutual, BuddiesMutual, All
<1> QED BY <1>1, TagsInvHolds, PTL

\* One step of WWTagFindNext or WWTagFindPrev from the i-th match.
LEMMA FollowLeadsAround ==
    ASSUME TagsInv, NEW i \in 1 .. Len(matches), last = matches[i]
    PROVE  LET n == Len(matches)
           IN /\ TagFindNext => last' \in {matches[(i % n) + 1], NoTag, last}
              /\ TagFindPrev => last' \in {matches[((i + n - 2) % n) + 1], NoTag, last}
<1> DEFINE m == matches
           n == Len(m)
<1>1. /\ m \in Seq(W.tags) /\ n \in Nat /\ DOMAIN m = 1 .. n /\ i \in 1 .. n /\ n # 0
      /\ m # << >>
  BY DEF TagsInv, Distinct
<1>2. /\ tags.next[last] = LinkOf(m, i + 1) /\ tags.prev[last] = LinkOf(m, i - 1)
  BY DEF TagsInv, LinksOK
<1>3. \A j \in 1 .. n : m[j] \in Nat /\ m[j] # NoTag /\ m[j] # Wild
  <2>1. W.tags \subseteq Nat \ {NoTag}
    BY WorldsAssumption DEF TagsInv, W
  <2> QED BY <1>1, <2>1 DEF Wild
<1>4. ASSUME NEW t, NEW before, GotoTag(t, before)
      PROVE  last' \in {t, NoTag, before}
  BY <1>4 DEF GotoTag
<1> HIDE DEF m, n
<1>5. ASSUME TagFindNext
      PROVE  last' \in {m[(i % n) + 1], NoTag, last}
  <2>1. (i % n) + 1 = IF i = n THEN 1 ELSE i + 1
    BY <1>1, AroundTheRing
  <2>2. CASE i = n
    <3>1. tags.next[last] = NoTag /\ NoTag # Wild
      BY <1>1, <1>2, <2>2 DEF LinkOf, NoTag, Wild
    <3>2. GotoTag(m[1], last)
      BY <1>1, <1>5, <3>1 DEF TagFindNext, Follow, m
    <3> QED BY <1>4, <2>1, <2>2, <3>2
  <2>3. CASE i # n
    <3>1. i + 1 \in 1 .. n
      BY <1>1, <2>3
    <3>2. tags.next[last] = m[i + 1] /\ m[i + 1] # NoTag /\ m[i + 1] # Wild
      BY <1>1, <1>2, <1>3, <3>1 DEF LinkOf
    <3>3. GotoTag(m[i + 1], last)
      BY <1>5, <3>2 DEF TagFindNext, Follow
    <3> QED BY <1>4, <2>1, <2>3, <3>3
  <2> QED BY <2>2, <2>3
<1>6. ASSUME TagFindPrev
      PROVE  last' \in {m[((i + n - 2) % n) + 1], NoTag, last}
  <2>1. ((i + n - 2) % n) + 1 = IF i = 1 THEN n ELSE i - 1
    BY <1>1, AroundTheRing
  <2>2. CASE i = 1
    <3>1. tags.prev[last] = NoTag /\ NoTag # Wild
      BY <1>1, <1>2, <2>2 DEF LinkOf, NoTag, Wild
    <3>2. GotoTag(m[n], last)
      BY <1>1, <1>6, <3>1 DEF TagFindPrev, Follow, m, n
    <3> QED BY <1>4, <2>1, <2>2, <3>2
  <2>3. CASE i # 1
    <3>1. i - 1 \in 1 .. n
      BY <1>1, <2>3
    <3>2. tags.prev[last] = m[i - 1] /\ m[i - 1] # NoTag /\ m[i - 1] # Wild
      BY <1>1, <1>2, <1>3, <3>1 DEF LinkOf
    <3>3. GotoTag(m[i - 1], last)
      BY <1>6, <3>2 DEF TagFindPrev, Follow
    <3> QED BY <1>4, <2>1, <2>3, <3>3
  <2> QED BY <2>2, <2>3
<1> QED BY <1>5, <1>6 DEF m, n

\* From a match, the next and the previous match lead around the matches of the last
\* search, for any tags and queries: no link of an earlier search or of tags that were
\* read again is followed (MatchTag(), WWTagFindNext, WWTagFindPrev).
THEOREM MatchesMakeARing == NavSpec => MatchesCycle
<1> DEFINE Step == \A i \in 1 .. Len(matches) :
                      last = matches[i] =>
                         LET n == Len(matches)
                         IN /\ TagFindNext => last' \in {matches[(i % n) + 1], NoTag, last}
                            /\ TagFindPrev =>
                                  last' \in {matches[((i + n - 2) % n) + 1], NoTag, last}
<1>1. TagsInv => Step
  BY FollowLeadsAround
<1> QED BY <1>1, TagsInvHolds, PTL DEF MatchesCycle

(***************************************************************************)
(* The files of one name                                                   *)
(***************************************************************************)
\* A file of a list is found at its place, with its extension or if it has none.
LEMMA FoundAtPlace ==
    ASSUME NEW l, IsFileList(l), NEW j \in 1 .. Len(l)
    PROVE  FindExact(l, l[j]) = j
<1> DEFINE f == l[j]
           S == {i \in 1 .. Len(l) : /\ f.ext # NoExt => SameExt(f, l[i])
                                     /\ f.title = l[i].title /\ f.dir = l[i].dir}
<1>1. /\ Len(l) \in Nat /\ DOMAIN l = 1 .. Len(l)
      /\ \A i \in 1 .. Len(l) : /\ l[i] \in [dir : Nat, title : Nat, inner : Nat, ext : Nat]
                                /\ l[i].ext = NoExt => l[i].inner = NoExt
      /\ \A i, k \in 1 .. Len(l) : i < k => FileBefore(l[i], l[k])
  <2>1. l \in Seq([dir : Nat, title : Nat, inner : Nat, ext : Nat])
    BY DEF IsFileList
  <2>2. Len(l) \in Nat /\ DOMAIN l = 1 .. Len(l)
    BY <2>1
  <2>3. /\ \A i \in 1 .. Len(l) : l[i].ext = NoExt => l[i].inner = NoExt
        /\ \A i, k \in 1 .. Len(l) : i < k => FileBefore(l[i], l[k])
    BY <2>2, Zenon DEF IsFileList
  <2>4. \A i \in 1 .. Len(l) : l[i] \in [dir : Nat, title : Nat, inner : Nat, ext : Nat]
    BY <2>1, ElementOfSeq, Zenon
  <2> QED BY <2>2, <2>3, <2>4, Zenon
<1>2. S \in SUBSET Int /\ j \in S
  BY DEF SameExt
<1>3. ASSUME NEW i \in S, i < j PROVE FALSE
  <2> DEFINE g == l[i]
  <2>1. /\ i \in 1 .. Len(l)
        /\ f.ext # NoExt => SameExt(f, g)
        /\ f.title = g.title /\ f.dir = g.dir
    OBVIOUS
  <2>2. PICK k \in 1 .. 4 : SortKey(g)[k] < SortKey(f)[k]
    BY <1>1, <1>3, <2>1 DEF FileBefore
  <2>3. /\ f \in [dir : Nat, title : Nat, inner : Nat, ext : Nat]
        /\ g \in [dir : Nat, title : Nat, inner : Nat, ext : Nat]
        /\ f.ext = NoExt => f.inner = NoExt
    BY <1>1, <2>1
  <2> HIDE DEF f, g, S
  <2>4. CASE f.ext # NoExt
    <3>1. SortKey(g) = SortKey(f)
      <4>1. g.inner = f.inner /\ g.ext = f.ext /\ g.title = f.title /\ g.dir = f.dir
        BY <2>1, <2>4 DEF SameExt
      <4>2. ExtKey(g) = ExtKey(f)
        BY <4>1, Zenon DEF ExtKey
      <4> QED BY <4>1, <4>2, Zenon DEF SortKey
    <3>2. SortKey(f)[1] \in Nat /\ SortKey(f)[2] \in Nat /\ SortKey(f)[3] \in Nat /\ SortKey(f)[4] \in Nat
      BY <2>3 DEF SortKey, ExtKey, NoExt
    <3> QED BY <2>2, <3>1, <3>2
  <2>5. CASE f.ext = NoExt
    <3>1. SortKey(f) = <<f.title, 0, 0, f.dir>>
      BY <2>3, <2>5 DEF SortKey, ExtKey, NoExt
    <3>2. /\ SortKey(g)[1] = f.title /\ SortKey(g)[4] = f.dir
          /\ SortKey(g)[2] \in Nat /\ SortKey(g)[3] \in Nat /\ f.title \in Nat /\ f.dir \in Nat
      BY <2>1, <2>3 DEF SortKey, ExtKey, NoExt
    <3> QED BY <2>2, <3>1, <3>2
  <2> QED BY <2>4, <2>5
<1>4. \A i \in S : j <= i
  <2> HIDE DEF S
  <2> QED BY <1>2, <1>3
<1>5. FindExact(l, f) = FirstOf(S)
  BY DEF FindExact
<1> HIDE DEF S
<1>6. Min(S) = j
  BY <1>2, <1>4, MinIs
<1> QED BY <1>2, <1>5, <1>6 DEF FirstOf, f

LEMMA NextOfName ==
    ASSUME NEW l, IsFileList(l), NEW j \in 1 .. Len(l)
    PROVE  /\ NextFile(l, l[j]) = FindNext(l, j, l[j])
           /\ PreviousFile(l, l[j]) = FindPrevious(l, j, l[j])
<1>1. j # 0
  OBVIOUS
<1>2. FindExact(l, l[j]) = j
  BY FoundAtPlace
<1> QED BY <1>1, <1>2 DEF NextFile, PreviousFile, CurrentPos, SearchedAs

\* The files of one name are those of any of them.
LEMMA SameVariants ==
    ASSUME NEW l, NEW f, NEW j \in Variants(l, f)
    PROVE  Variants(l, l[j]) = Variants(l, f)
BY DEF Variants

\* The next and the previous file of one that is not the only one of its name.
LEMMA NeighboursOfName ==
    ASSUME NEW l, IsFileList(l), NEW j \in 1 .. Len(l), Variants(l, l[j]) # {j}
    PROVE  LET V == Variants(l, l[j])
               n == NextFile(l, l[j])
               p == PreviousFile(l, l[j])
           IN /\ V \subseteq 1 .. Len(l) /\ j \in V
              /\ n \in V
              /\ \/ j < n /\ \A k \in V : j < k => n <= k
                 \/ n < j /\ \A k \in V : n <= k /\ k <= j
              /\ p \in V
              /\ \/ p < j /\ \A k \in V : k < j => k <= p
                 \/ j < p /\ \A k \in V : j <= k /\ k <= p
<1> DEFINE V == Variants(l, l[j])
           A == {k \in V : k > j}
           B == {k \in V : k < j}
<1>1. V \subseteq 1 .. Len(l) /\ j \in V
  BY DEF Variants
<1>2. Len(l) \in Nat
  BY DEF IsFileList
<1>3. /\ NextFile(l, l[j]) = IF A # {} THEN Min(A) ELSE FirstOf(B)
      /\ PreviousFile(l, l[j]) = IF B # {} THEN Max(B) ELSE LastOf(A)
  BY NextOfName DEF FindNext, FindPrevious
<1> HIDE DEF V
<1>4. V # {j}
  BY DEF V
<1>5. A \cup B # {} /\ \A k \in V : k \in A \/ k \in B \/ k = j
  <2>1. \A k \in V : k \in A \/ k \in B \/ k = j
    BY <1>1, <1>2
  <2>2. A \cup B # {}
    <3>1. PICK k \in V : k # j
      BY <1>1, <1>4, Zenon
    <3> QED BY <2>1, <3>1
  <2> QED BY <2>1, <2>2
<1>6. A \in SUBSET (1 .. Len(l)) /\ B \in SUBSET (1 .. Len(l))
  BY <1>1
<1>7. /\ A # {} => Min(A) \in A /\ \A k \in A : Min(A) <= k
      /\ B # {} => Min(B) \in B /\ \A k \in B : Min(B) <= k
      /\ A # {} => Max(A) \in A /\ \A k \in A : k <= Max(A)
      /\ B # {} => Max(B) \in B /\ \A k \in B : k <= Max(B)
  <2>1. ASSUME NEW S \in SUBSET (1 .. Len(l)), S # {}
        PROVE  /\ Min(S) \in S /\ \A k \in S : Min(S) <= k
               /\ Max(S) \in S /\ \A k \in S : k <= Max(S)
    <3>1. S \in SUBSET Nat /\ S \in SUBSET Int /\ 1 \in Nat /\ Len(l) \in Int
      BY <1>2, <2>1
    <3>2. PICK x \in S : \A k \in S : x <= k
      BY <2>1, <3>1, MinExists
    <3>3. PICK y \in S : \A k \in S : k <= y
      BY <2>1, <3>1, MaxExists, Zenon
    <3> QED BY <3>1, <3>2, <3>3, MinIs, MaxIs
  <2> QED BY <1>6, <2>1
<1>8. ASSUME NEW n, n = IF A # {} THEN Min(A) ELSE FirstOf(B)
      PROVE  /\ n \in V
             /\ \/ j < n /\ \A k \in V : j < k => n <= k
                \/ n < j /\ \A k \in V : n <= k /\ k <= j
  <2>1. CASE A # {}
    <3>1. n \in A /\ \A k \in A : n <= k
      BY <1>7, <1>8, <2>1
    <3> QED BY <3>1
  <2>2. CASE A = {}
    <3>1. n \in B /\ \A k \in B : n <= k
      BY <1>5, <1>7, <1>8, <2>2 DEF FirstOf
    <3>2. \A k \in V : k <= j
      BY <1>1, <1>2, <2>2
    <3> QED BY <1>1, <1>2, <1>5, <2>2, <3>1, <3>2
  <2> QED BY <2>1, <2>2
<1>9. ASSUME NEW n, n = IF B # {} THEN Max(B) ELSE LastOf(A)
      PROVE  /\ n \in V
             /\ \/ n < j /\ \A k \in V : k < j => k <= n
                \/ j < n /\ \A k \in V : j <= k /\ k <= n
  <2>1. CASE B # {}
    <3>1. n \in B /\ \A k \in B : k <= n
      BY <1>7, <1>9, <2>1
    <3> QED BY <3>1
  <2>2. CASE B = {}
    <3>1. n \in A /\ \A k \in A : k <= n
      BY <1>5, <1>7, <1>9, <2>2 DEF LastOf
    <3>2. \A k \in V : j <= k
      BY <1>1, <1>2, <2>2
    <3> QED BY <1>1, <1>2, <1>5, <2>2, <3>1, <3>2
  <2> QED BY <2>1, <2>2
<1> QED BY <1>1, <1>3, <1>8, <1>9 DEF V

\* The places a step at a time from i leads to.
StepsFrom(at, l, i) ==
    at = [k \in 0 .. Len(l) |->
             IF k = 0 THEN i ELSE IF at[k - 1] = 0 THEN 0 ELSE NextFile(l, l[at[k - 1]])]

\* The steps from one file of a name to the next lead once around all of them.
LEMMA AroundName ==
    ASSUME NEW l, IsFileList(l), NEW i \in 1 .. Len(l), Variants(l, l[i]) # {i}, NEW at,
           StepsFrom(at, l, i)
    PROVE  {at[k] : k \in 0 .. Len(l)} = Variants(l, l[i])
<1> DEFINE n == Len(l)
           V == Variants(l, l[i])
           Onto(j) == NextFile(l, l[j])
<1>1. n \in Nat
  BY DEF IsFileList
<1>2. V \in SUBSET (1 .. n) /\ i \in V /\ i \in 1 .. n
  BY DEF Variants
<1>3. ASSUME NEW j \in V
      PROVE  /\ Onto(j) \in V
             /\ \/ j < Onto(j) /\ \A k \in V : j < k => Onto(j) <= k
                \/ Onto(j) < j /\ \A k \in V : Onto(j) <= k /\ k <= j
  <2>1. j \in 1 .. Len(l)
    BY <1>2
  <2>2. Variants(l, l[j]) = V
    BY <1>3, SameVariants
  <2>3. V # {j}
    BY <1>2, Zenon
  <2> QED BY <2>1, <2>2, <2>3, NeighboursOfName
<1>4. /\ at[0] = i
      /\ \A k \in 0 .. n - 1 : at[k + 1] = IF at[k] = 0 THEN 0 ELSE Onto(at[k])
  <2>1. ASSUME NEW m \in 0 .. n
        PROVE  at[m] = IF m = 0 THEN i
                       ELSE IF at[m - 1] = 0 THEN 0 ELSE NextFile(l, l[at[m - 1]])
    BY Zenon DEF StepsFrom
  <2>2. 0 \in 0 .. n
    BY <1>1
  <2>3. ASSUME NEW k \in 0 .. n - 1
        PROVE  k + 1 \in 0 .. n /\ k + 1 # 0 /\ (k + 1) - 1 = k
    BY <1>1
  <2> HIDE DEF n
  <2> QED BY <2>1, <2>2, <2>3
<1> HIDE DEF n, V, Onto
<1>5. \A k \in 0 .. n - 1 : at[k] \in V => at[k + 1] = Onto(at[k])
  <2>1. 0 \notin V
    BY <1>2
  <2> QED BY <1>4, <2>1
<1>6. \A k \in 0 .. n : at[k] \in V
  <2> DEFINE A == {k \in 0 .. n : at[k] \in V}
  <2>1. 0 \in A
    BY <1>1, <1>2, <1>4
  <2>2. \A k \in 0 .. n : k \in A /\ k # n => k + 1 \in A
    <3> SUFFICES ASSUME NEW k \in 0 .. n, at[k] \in V, k # n PROVE k + 1 \in 0 .. n /\ at[k + 1] \in V
      OBVIOUS
    <3>1. k \in 0 .. n - 1 /\ k + 1 \in 0 .. n
      BY <1>1
    <3> QED BY <1>3, <1>5, <3>1
  <2>3. 0 .. n \subseteq A
    <3> HIDE DEF A
    <3> QED BY <1>1, <2>1, <2>2, Upward
  <2> QED BY <2>3
<1>7. Climbs(at, n, V)
  <2> SUFFICES ASSUME NEW k \in 0 .. n - 1, at[k] \in V
               PROVE  /\ at[k + 1] \in V
                      /\ \A v \in V : at[k] < v => at[k] < at[k + 1] /\ at[k + 1] <= v
    BY DEF Climbs
  <2> DEFINE j == at[k]
             q == at[k + 1]
  <2>1. q = Onto(j)
    BY <1>5
  <2> HIDE DEF q
  <2>2. /\ q \in V
        /\ \/ j < q /\ \A m \in V : j < m => q <= m
           \/ q < j /\ \A m \in V : q <= m /\ m <= j
    BY <1>3, <2>1
  <2>3. j \in V
    OBVIOUS
  <2> HIDE DEF j
  <2>4. \A v \in V : j < v => j < q /\ q <= v
    BY <1>1, <1>2, <2>2, <2>3
  <2> QED BY <2>2, <2>4 DEF j, q
<1>8. \A v \in V : i <= v => \E k \in 0 .. (v - i) : at[k] = v
  <2>1. \A v \in V : at[0] <= v /\ 0 + v - at[0] <= n =>
           \E k \in 0 .. (0 + v - at[0]) : at[k] = v
    <3>1. 0 \in Nat /\ at[0] \in V
      BY <1>2, <1>4
    <3>2. Climbed(at, n, V, 0)
      BY <1>1, <1>2, <1>7, <3>1, Climb
    <3> QED BY <3>2 DEF Climbed
  <2>2. \A v \in V : 0 + v - i <= n /\ 0 + v - i = v - i
    BY <1>1, <1>2
  <2> QED BY <1>4, <2>1, <2>2
<1>9. PICK top \in V : \A v \in V : v <= top
  <2>1. V # {} /\ V \in SUBSET (1 .. n) /\ 1 \in Nat /\ n \in Int
    BY <1>1, <1>2
  <2> QED BY <2>1, MaxExists, Zenon
<1>10. top \in 1 .. n /\ i <= top
  BY <1>2, <1>9
<1>11. PICK K \in 0 .. (top - i) : at[K] = top
  BY <1>8, <1>10
<1> DEFINE low == Onto(top)
<1>12. low \in V /\ low < top /\ \A v \in V : low <= v
  <2>1. /\ low \in V
        /\ \/ top < low /\ \A k \in V : top < k => low <= k
           \/ low < top /\ \A k \in V : low <= k /\ k <= top
    BY <1>3
  <2> HIDE DEF low
  <2>2. low <= top /\ low \in 1 .. n
    BY <1>2, <1>9, <2>1
  <2> QED BY <1>10, <2>1, <2>2
<1>13. K \in 0 .. n - 1 /\ at[K + 1] = low
  <2>1. K \in 0 .. n - 1
    BY <1>1, <1>2, <1>10
  <2> QED BY <1>5, <1>9, <1>11, <2>1
<1> HIDE DEF low
<1>14. \A v \in V : v < i => \E k \in 0 .. n : at[k] = v
  <2>1. \A v \in V : low <= v /\ (K + 1) + v - low <= n =>
           \E k \in (K + 1) .. ((K + 1) + v - low) : at[k] = v
    <3>1. K + 1 \in Nat /\ at[K + 1] \in V
      BY <1>12, <1>13
    <3>2. \A v \in V : at[K + 1] <= v /\ (K + 1) + v - at[K + 1] <= n =>
             \E k \in (K + 1) .. ((K + 1) + v - at[K + 1]) : at[k] = v
      <4>1. Climbed(at, n, V, K + 1)
        BY <1>1, <1>2, <1>7, <3>1, Climb
      <4> QED BY <4>1 DEF Climbed
    <3> QED BY <1>13, <3>2
  <2> SUFFICES ASSUME NEW v \in V, v < i PROVE \E k \in 0 .. n : at[k] = v
    OBVIOUS
  <2>2. v \in 1 .. n /\ low \in 1 .. n /\ low <= v
    BY <1>2, <1>12
  <2>3. (K + 1) + v - low <= n /\ (K + 1) .. ((K + 1) + v - low) \subseteq 0 .. n
    BY <1>1, <1>2, <1>10, <1>11, <2>2
  <2> QED BY <2>1, <2>2, <2>3
<1>15. \A v \in V : \E k \in 0 .. n : at[k] = v
  <2>1. \A v \in V : v \in 1 .. n /\ 0 .. (v - i) \subseteq 0 .. n /\ (i <= v \/ v < i)
    BY <1>1, <1>2
  <2> QED BY <1>8, <1>14, <2>1
<1>16. {at[k] : k \in 0 .. n} = V
  BY <1>6, <1>15
<1> QED BY <1>16 DEF n, V

\* The steps exist: the function of the places reached is defined.
LEMMA StepsOfName ==
    ASSUME NEW l, IsFileList(l), NEW i \in 1 .. Len(l), Variants(l, l[i]) # {i}
    PROVE  LET at[k \in 0 .. Len(l)] ==
                   IF k = 0 THEN i
                   ELSE IF at[k - 1] = 0 THEN 0 ELSE NextFile(l, l[at[k - 1]])
           IN at = [k \in 0 .. Len(l) |->
                       IF k = 0 THEN i
                       ELSE IF at[k - 1] = 0 THEN 0 ELSE NextFile(l, l[at[k - 1]])]
<1> DEFINE n == Len(l)
           V == Variants(l, l[i])
           step == [k \in 1 .. n |-> [j \in V |-> NextFile(l, l[j])]]
           Is(f) == f = [k \in 0 .. Len(l) |->
                            IF k = 0 THEN i
                            ELSE IF f[k - 1] = 0 THEN 0 ELSE NextFile(l, l[f[k - 1]])]
<1>1. n \in Nat
  BY DEF IsFileList
<1>2. V \in SUBSET (1 .. n) /\ i \in V
  BY DEF Variants
<1>3. \A j \in V : NextFile(l, l[j]) \in V
  <2> SUFFICES ASSUME NEW j \in V PROVE NextFile(l, l[j]) \in V
    OBVIOUS
  <2>1. j \in 1 .. Len(l)
    BY <1>2
  <2>2. Variants(l, l[j]) = V
    BY SameVariants
  <2>3. V # {j}
    BY <1>2, Zenon
  <2> QED BY <2>1, <2>2, <2>3, NeighboursOfName
<1>4. step \in [1 .. n -> [V -> V]]
  <2> HIDE DEF V
  <2> QED BY <1>3
<1>5. PICK f \in [0 .. n -> V] : f[0] = i /\ \A k \in 1 .. n : f[k] = step[k][f[k - 1]]
  <2> HIDE DEF step, V, n
  <2>1. PICK f \in [0 .. n -> V] : Stepped(f, n, i, step)
    BY <1>1, <1>2, <1>4, Stepwise
  <2> QED BY <2>1 DEF Stepped
<1>6. ASSUME NEW k \in 0 .. n
      PROVE  f[k] = IF k = 0 THEN i
                    ELSE IF f[k - 1] = 0 THEN 0 ELSE NextFile(l, l[f[k - 1]])
  <2>1. CASE k = 0
    BY <1>5, <2>1
  <2>2. CASE k # 0
    <3>1. k \in 1 .. n /\ k - 1 \in 0 .. n
      BY <1>1, <2>2
    <3>2. f[k - 1] \in V /\ f[k - 1] # 0
      <4> HIDE DEF V
      <4> QED BY <1>2, <3>1
    <3>3. step[k][f[k - 1]] = NextFile(l, l[f[k - 1]])
      <4> HIDE DEF V, n
      <4> QED BY <3>1, <3>2
    <3> HIDE DEF step
    <3> QED BY <1>5, <2>2, <3>1, <3>2, <3>3, Zenon
  <2> QED BY <2>1, <2>2
<1>7. Is(f)
  <2>1. f = [k \in 0 .. n |-> f[k]]
    BY <1>5, Zenon
  <2> QED BY <1>6, <2>1, Zenon
<1>8. \A g : Is(g) => Is(CHOOSE h : Is(h))
  BY Zenon
<1> QED BY <1>7, <1>8, Zenon

\* The file before the next file is the file itself.
LEMMA BackAgain ==
    ASSUME NEW l, IsFileList(l), NEW i \in 1 .. Len(l), Variants(l, l[i]) # {i}
    PROVE  PreviousFile(l, l[NextFile(l, l[i])]) = i
<1> DEFINE n == Len(l)
           V == Variants(l, l[i])
           q == NextFile(l, l[i])
           p == PreviousFile(l, l[q])
<1>1. n \in Nat
  BY DEF IsFileList
<1>2. V \in SUBSET (1 .. n) /\ i \in V
  BY DEF Variants
<1>3. /\ q \in V
      /\ \/ i < q /\ \A k \in V : i < k => q <= k
         \/ q < i /\ \A k \in V : q <= k /\ k <= i
  BY NeighboursOfName
<1>4. /\ p \in V
      /\ \/ p < q /\ \A k \in V : k < q => k <= p
         \/ q < p /\ \A k \in V : q <= k /\ k <= p
  <2> HIDE DEF q
  <2>1. q \in 1 .. Len(l)
    BY <1>2, <1>3
  <2>2. Variants(l, l[q]) = V
    BY <1>3, SameVariants
  <2>3. V # {q}
    BY <1>2, Zenon
  <2> QED BY <2>1, <2>2, <2>3, NeighboursOfName
<1> HIDE DEF V, q, p, n
<1>5. p \in 1 .. n /\ q \in 1 .. n /\ i \in 1 .. n
  BY <1>2, <1>3, <1>4
<1>6. p = i
  <2>1. CASE i < q
    <3>1. \A k \in V : i < k => q <= k
      BY <1>1, <1>3, <1>5, <2>1
    <3>2. p < q /\ i <= p
      BY <1>1, <1>2, <1>4, <1>5, <2>1
    <3> QED BY <1>1, <1>4, <1>5, <3>1, <3>2
  <2>2. CASE q < i
    <3>1. \A k \in V : q <= k /\ k <= i
      BY <1>1, <1>3, <1>5, <2>2
    <3>2. q <= p /\ p <= i
      BY <1>4, <3>1
    <3>3. i <= p
      BY <1>1, <1>2, <1>4, <1>5, <3>2
    <3> QED BY <1>1, <1>5, <3>2, <3>3
  <2> QED BY <1>3, <2>1, <2>2
<1> QED BY <1>6 DEF p, q

\* At any file of the workspace the next and the previous file undo each other, and
\* each of them leads once around all files of the name, however many there are
\* (FileList::FindNext(), FindPrevious()).
THEOREM VariantsGoAround == NavSpec => []VariantsCycle
<1>1. HistoryInv => VariantsCycle
  <2> SUFFICES ASSUME world \in DOMAIN Worlds PROVE VariantsCycle
    BY DEF HistoryInv
  <2> DEFINE l == W.active
  <2>1. IsFileList(l)
    BY ListsAssumption DEF W
  <2> SUFFICES ASSUME NEW i \in 1 .. Len(l), Variants(l, l[i]) # {i}
               PROVE  /\ LET at[k \in 0 .. Len(l)] ==
                                 IF k = 0 THEN i
                                 ELSE IF at[k - 1] = 0 THEN 0 ELSE NextFile(l, l[at[k - 1]])
                         IN {at[k] : k \in 0 .. Len(l)} = Variants(l, l[i])
                      /\ PreviousFile(l, l[NextFile(l, l[i])]) = i
    BY Zenon DEF VariantsCycle
  <2> HIDE DEF l
  <2> DEFINE at[k \in 0 .. Len(l)] ==
                 IF k = 0 THEN i ELSE IF at[k - 1] = 0 THEN 0 ELSE NextFile(l, l[at[k - 1]])
  <2>2. at = [k \in 0 .. Len(l) |->
                 IF k = 0 THEN i ELSE IF at[k - 1] = 0 THEN 0 ELSE NextFile(l, l[at[k - 1]])]
    BY <2>1, StepsOfName, ZenonT(40)
  <2>3. {at[k] : k \in 0 .. Len(l)} = Variants(l, l[i])
    <3>1. StepsFrom(at, l, i)
      BY <2>2, Zenon DEF StepsFrom
    <3> HIDE DEF at
    <3> QED BY <2>1, <3>1, AroundName
  <2>4. PreviousFile(l, l[NextFile(l, l[i])]) = i
    BY <2>1, BackAgain
  <2> QED BY <2>3, <2>4, SMTT(30)
<1> QED BY <1>1, HistoryInvHolds, PTL

(***************************************************************************)
(* A declaration and its implementation in the list                        *)
(***************************************************************************)
\* What is left of a string are characters of it, its first one among them if it is
\* one of those that are kept.
SiftedOK(s, C, q, k) ==
    /\ q \in Seq(Nat) /\ \A i \in 1 .. Len(q) : q[i] \in C /\ \E j \in 1 .. k : q[i] = s[j]
    /\ k # 0 /\ s[1] \in C => Len(q) # 0 /\ q[1] = s[1]

LEMMA SiftedIs ==
    ASSUME NEW s \in Seq(Nat), NEW C
    PROVE  SiftedOK(s, C, Sifted(s, C), Len(s))
<1> DEFINE n == Len(s)
           step == [k \in 1 .. n |-> [q \in Seq(Nat) |->
                       IF s[k] \in C THEN Append(q, s[k]) ELSE q]]
           Is(f) == f = [k \in 0 .. Len(s) |->
                            IF k = 0 THEN << >>
                            ELSE IF s[k] \in C THEN Append(f[k - 1], s[k]) ELSE f[k - 1]]
           F == CHOOSE f : Is(f)
<1>1. n \in Nat /\ << >> \in Seq(Nat) /\ \A k \in 1 .. n : s[k] \in Nat
  OBVIOUS
<1>2. step \in [1 .. n -> [Seq(Nat) -> Seq(Nat)]]
  <2> SUFFICES ASSUME NEW k \in 1 .. n, NEW q \in Seq(Nat)
               PROVE  (IF s[k] \in C THEN Append(q, s[k]) ELSE q) \in Seq(Nat)
    BY Zenon
  <2> QED BY <1>1
<1>3. PICK f \in [0 .. n -> Seq(Nat)] : Stepped(f, n, << >>, step)
  <2> HIDE DEF step, n
  <2> QED BY <1>1, <1>2, Stepwise
<1>4. f[0] = << >> /\ \A k \in 1 .. n : f[k] = step[k][f[k - 1]]
  BY <1>3, Zenon DEF Stepped
<1>5. ASSUME NEW k \in 0 .. n
      PROVE  f[k] = IF k = 0 THEN << >>
                    ELSE IF s[k] \in C THEN Append(f[k - 1], s[k]) ELSE f[k - 1]
  <2>1. CASE k = 0
    BY <1>4, <2>1
  <2>2. CASE k # 0
    <3>1. k \in 1 .. n /\ f[k - 1] \in Seq(Nat)
      <4>1. k \in 1 .. n /\ k - 1 \in 0 .. n
        BY <1>1, <2>2
      <4> QED BY <4>1
    <3>2. step[k][f[k - 1]] = IF s[k] \in C THEN Append(f[k - 1], s[k]) ELSE f[k - 1]
      <4> HIDE DEF n
      <4> QED BY <3>1
    <3> HIDE DEF step
    <3> QED BY <1>4, <2>2, <3>1, <3>2, Zenon
  <2> QED BY <2>1, <2>2
<1>6. Is(f)
  <2>1. f = [k \in 0 .. n |-> f[k]]
    BY <1>3, Zenon
  <2> QED BY <1>5, <2>1, Zenon
<1>7. Is(F)
  BY <1>6, Zenon
<1>8. Sifted(s, C) = F[Len(s)]
  BY Zenon DEF Sifted
<1>9. \A k \in 0 .. n : SiftedOK(s, C, F[k], k)
  <2> DEFINE A == {k \in 0 .. n : SiftedOK(s, C, F[k], k)}
  <2>1. \A k \in 0 .. n : F[k] = IF k = 0 THEN << >>
                                 ELSE IF s[k] \in C THEN Append(F[k - 1], s[k]) ELSE F[k - 1]
    BY <1>7, Zenon
  <2> HIDE DEF F
  <2>2. 0 \in A
    <3>1. 0 \in 0 .. n /\ F[0] = << >>
      BY <1>1, <2>1
    <3>2. SiftedOK(s, C, << >>, 0)
      BY DEF SiftedOK
    <3> QED BY <3>1, <3>2
  <2>3. \A k \in 0 .. n : k \in A /\ k # n => k + 1 \in A
    <3> SUFFICES ASSUME NEW k \in 0 .. n, SiftedOK(s, C, F[k], k), k # n
                 PROVE  k + 1 \in 0 .. n /\ SiftedOK(s, C, F[k + 1], k + 1)
      OBVIOUS
    <3> DEFINE q == F[k]
               c == s[k + 1]
    <3>1. k + 1 \in 1 .. n /\ k + 1 \in 0 .. n /\ k + 1 # 0 /\ (k + 1) - 1 = k /\ c \in Nat
      BY <1>1
    <3>2. F[k + 1] = IF c \in C THEN Append(q, c) ELSE q
      BY <2>1, <3>1
    <3>3. q \in Seq(Nat) /\ \A i \in 1 .. Len(q) : q[i] \in C /\ \E j \in 1 .. k + 1 : q[i] = s[j]
      <4>1. \A j \in 1 .. k : j \in 1 .. k + 1
        BY <1>1
      <4> QED BY <4>1 DEF SiftedOK
    <3>4. k = 0 => q = << >>
      BY <2>1
    <3>5. k # 0 /\ s[1] \in C => Len(q) # 0 /\ q[1] = s[1]
      BY DEF SiftedOK
    <3>6. k = 0 => c = s[1]
      BY <3>1
    <3> HIDE DEF q, c
    <3>7. CASE c \in C
      <4>1. /\ Append(q, c) \in Seq(Nat) /\ Len(Append(q, c)) = Len(q) + 1
            /\ \A i \in 1 .. Len(q) : Append(q, c)[i] = q[i]
            /\ Append(q, c)[Len(q) + 1] = c /\ Len(q) \in Nat
        BY <3>1, <3>3, AppendProperties
      <4>2. \A i \in 1 .. Len(q) + 1 :
               Append(q, c)[i] \in C /\ \E j \in 1 .. k + 1 : Append(q, c)[i] = s[j]
        <5>1. k + 1 \in 1 .. k + 1
          BY <1>1
        <5>2. \A i \in 1 .. Len(q) + 1 : i \in 1 .. Len(q) \/ i = Len(q) + 1
          BY <4>1
        <5>3. c = s[k + 1]
          BY DEF c
        <5> QED BY <3>3, <3>7, <4>1, <5>1, <5>2, <5>3
      <4>3. s[1] \in C => Append(q, c)[1] = s[1]
        <5>1. CASE k = 0
          BY <3>4, <3>6, <4>1, <5>1
        <5>2. CASE k # 0
          BY <3>5, <4>1, <5>2
        <5> QED BY <5>1, <5>2
      <4>4. Len(q) + 1 # 0 /\ F[k + 1] = Append(q, c)
        BY <3>2, <3>7, <4>1
      <4>5. SiftedOK(s, C, Append(q, c), k + 1)
        BY <4>1, <4>2, <4>3, <4>4 DEF SiftedOK
      <4> QED BY <3>1, <4>4, <4>5
    <3>8. CASE c \notin C
      <4>1. F[k + 1] = q /\ (s[1] \in C => k # 0)
        BY <3>2, <3>6, <3>8
      <4> QED BY <3>1, <3>3, <3>5, <4>1 DEF SiftedOK
    <3> QED BY <3>7, <3>8
  <2>4. 0 .. n \subseteq A
    <3> HIDE DEF A
    <3> QED BY <1>1, <2>2, <2>3, Upward
  <2> QED BY <2>4
<1>10. n \in 0 .. n
  BY <1>1
<1> QED BY <1>8, <1>9, <1>10 DEF n

\* The short form of a name is a sequence of codes without a capital; it begins with
\* the first letter of the name, if it is one, or digit.
LEMMA ShortIs ==
    ASSUME NEW s \in Seq(Nat)
    PROVE  /\ Short(s) \in Seq(Nat)
           /\ \A i \in 1 .. Len(Short(s)) : Short(s)[i] \notin Upper
           /\ s # << >> /\ s[1] \in Letters \cup Digits =>
                 Len(Short(s)) # 0 /\ Short(s)[1] = LowerChar(s[1])
<1> DEFINE C == Letters \cup Digits
           q == Sifted(s, C)
<1>1. SiftedOK(s, C, q, Len(s))
  BY SiftedIs
<1>2. Short(s) = Lower(q)
  BY DEF Short
<1> HIDE DEF q
<1>3. q \in Seq(Nat) /\ (\A i \in 1 .. Len(q) : q[i] \in C)
  BY <1>1 DEF SiftedOK
<1>4. /\ Lower(q) \in Seq(Nat) /\ Len(Lower(q)) = Len(q)
      /\ \A i \in 1 .. Len(q) : Lower(q)[i] = LowerChar(q[i])
  BY <1>3, LowerIs
<1>5. \A c \in Nat : LowerChar(c) \notin Upper
  BY DEF LowerChar, Upper
<1>6. s # << >> => Len(s) # 0
  OBVIOUS
<1>7. ASSUME s # << >>, s[1] \in C
      PROVE  Len(q) # 0 /\ q[1] = s[1]
  BY <1>1, <1>6, <1>7 DEF SiftedOK
<1>8. \A i \in 1 .. Len(q) : Lower(q)[i] \notin Upper
  BY <1>3, <1>4, <1>5
<1>9. Len(q) # 0 => 1 \in 1 .. Len(q)
  BY <1>3
<1> HIDE DEF C
<1> QED BY <1>2, <1>4, <1>7, <1>8, <1>9 DEF C

LEMMA ShortTyped == ASSUME NEW s \in Seq(Nat) PROVE Short(s) \in Seq(Nat)
BY ShortIs

\* Where the first n codes are the same and the next decides.
BeforeAt(s, t, n) ==
    /\ n \in 0 .. Len(s) /\ n <= Len(t)
    /\ \A k \in 1 .. n : s[k] = t[k]
    /\ n < Len(t) /\ (n < Len(s) => s[n + 1] < t[n + 1])

LEMMA BeforeIsAt ==
    ASSUME NEW s \in Seq(Nat), NEW t \in Seq(Nat)
    PROVE  Before(s, t) <=> \E n \in Nat : BeforeAt(s, t, n)
<1> DEFINE least == Min({Len(s), Len(t)})
<1>1. Len(s) \in Nat /\ Len(t) \in Nat
  OBVIOUS
<1>2. least = IF Len(s) <= Len(t) THEN Len(s) ELSE Len(t)
  <2>1. {Len(s), Len(t)} \in SUBSET Int
    BY <1>1
  <2>2. CASE Len(s) <= Len(t)
    <3>1. Len(s) \in {Len(s), Len(t)} /\ \A k \in {Len(s), Len(t)} : Len(s) <= k
      BY <1>1, <2>2
    <3> QED BY <2>1, <2>2, <3>1, MinIs
  <2>3. CASE ~(Len(s) <= Len(t))
    <3>1. Len(t) \in {Len(s), Len(t)} /\ \A k \in {Len(s), Len(t)} : Len(t) <= k
      BY <1>1, <2>3
    <3> QED BY <2>1, <2>3, <3>1, MinIs
  <2> QED BY <2>2, <2>3
<1>3. ASSUME NEW n \in 0 .. least
      PROVE  SubSeq(s, 1, n) = SubSeq(t, 1, n) <=> \A k \in 1 .. n : s[k] = t[k]
  <2>1. n \in Nat /\ n <= Len(s) /\ n <= Len(t)
    BY <1>1, <1>2
  <2>2. /\ SubSeq(s, 1, n) \in Seq(Nat) /\ SubSeq(t, 1, n) \in Seq(Nat)
        /\ Len(SubSeq(s, 1, n)) = n /\ Len(SubSeq(t, 1, n)) = n
        /\ \A k \in 1 .. n : SubSeq(s, 1, n)[k] = s[k] /\ SubSeq(t, 1, n)[k] = t[k]
    BY <2>1, SMTT(30)
  <2> DEFINE a == SubSeq(s, 1, n)
             b == SubSeq(t, 1, n)
  <2> HIDE DEF a, b
  <2>3. (\A k \in 1 .. n : a[k] = b[k]) => a = b
    BY <2>2, SeqEqual DEF a, b
  <2> QED BY <2>2, <2>3 DEF a, b
<1>4. ASSUME NEW n \in 0 .. least
      PROVE  /\ SubSeq(s, 1, n) = SubSeq(t, 1, n)
             /\ IF n = Len(s) THEN n < Len(t) ELSE n < Len(t) /\ s[n + 1] < t[n + 1]
             <=> BeforeAt(s, t, n)
  <2>1. n \in 0 .. Len(s) /\ n <= Len(t) /\ (n < Len(s) <=> n # Len(s))
    BY <1>1, <1>2
  <2> HIDE DEF least
  <2> QED BY <1>3, <2>1 DEF BeforeAt
<1>5. \A n \in Nat : BeforeAt(s, t, n) => n \in 0 .. least
  BY <1>1, <1>2 DEF BeforeAt
<1>6. \A n \in 0 .. least : n \in Nat
  BY <1>1, <1>2
<1>7. Before(s, t) <=> \E n \in 0 .. least :
                          /\ SubSeq(s, 1, n) = SubSeq(t, 1, n)
                          /\ IF n = Len(s) THEN n < Len(t) ELSE n < Len(t) /\ s[n + 1] < t[n + 1]
  BY Zenon DEF Before
<1> HIDE DEF least
<1> QED BY <1>4, <1>5, <1>6, <1>7

LEMMA BeforeOneWay ==
    ASSUME NEW s \in Seq(Nat), NEW t \in Seq(Nat)
    PROVE  ~(Before(s, t) /\ Before(t, s))
<1> SUFFICES ASSUME NEW n \in Nat, BeforeAt(s, t, n), NEW m \in Nat, BeforeAt(t, s, m)
             PROVE  FALSE
  BY BeforeIsAt
<1>1. Len(s) \in Nat /\ Len(t) \in Nat
  OBVIOUS
<1>2. /\ \A k \in 1 .. Len(s) : s[k] \in Nat
      /\ \A k \in 1 .. Len(t) : t[k] \in Nat
  OBVIOUS
<1>3. CASE n < m
  <2>1. n + 1 \in 1 .. m /\ n < Len(s) /\ n + 1 \in 1 .. Len(s) /\ n + 1 \in 1 .. Len(t)
    BY <1>1, <1>3 DEF BeforeAt
  <2>2. s[n + 1] = t[n + 1] /\ s[n + 1] < t[n + 1]
    BY <2>1 DEF BeforeAt
  <2> QED BY <1>2, <2>1, <2>2
<1>4. CASE m < n
  <2>1. m + 1 \in 1 .. n /\ m < Len(t) /\ m + 1 \in 1 .. Len(s) /\ m + 1 \in 1 .. Len(t)
    BY <1>1, <1>4, SMTT(30) DEF BeforeAt
  <2>2. s[m + 1] = t[m + 1] /\ t[m + 1] < s[m + 1]
    BY <2>1 DEF BeforeAt
  <2> QED BY <1>2, <2>1, <2>2
<1>5. CASE m = n
  <2>1. n < Len(s) /\ n < Len(t) /\ n + 1 \in 1 .. Len(s) /\ n + 1 \in 1 .. Len(t)
    BY <1>1, <1>5 DEF BeforeAt
  <2>2. s[n + 1] < t[n + 1] /\ t[n + 1] < s[n + 1]
    BY <1>5, <2>1 DEF BeforeAt
  <2> QED BY <1>2, <2>1, <2>2, SMTT(30)
<1> QED BY <1>3, <1>4, <1>5

LEMMA BeforeEitherWay ==
    ASSUME NEW s \in Seq(Nat), NEW t \in Seq(Nat), s # t
    PROVE  Before(s, t) \/ Before(t, s)
<1> DEFINE D == {k \in 1 .. Len(s) : k <= Len(t) /\ s[k] # t[k]}
<1>1. Len(s) \in Nat /\ Len(t) \in Nat
  OBVIOUS
<1>2. /\ \A k \in 1 .. Len(s) : s[k] \in Nat
      /\ \A k \in 1 .. Len(t) : t[k] \in Nat
  OBVIOUS
<1>3. CASE D = {}
  <2>1. \A k \in 1 .. Len(s) : k <= Len(t) => s[k] = t[k]
    BY <1>3
  <2>2. Len(s) # Len(t)
    <3> SUFFICES ASSUME Len(s) = Len(t) PROVE FALSE
      OBVIOUS
    <3>1. \A k \in 1 .. Len(s) : s[k] = t[k]
      BY <1>1, <2>1
    <3> QED BY <3>1, SeqEqual
  <2>3. CASE Len(s) < Len(t)
    <3>1. BeforeAt(s, t, Len(s))
      BY <1>1, <2>1, <2>3 DEF BeforeAt
    <3> QED BY <1>1, <3>1, BeforeIsAt
  <2>4. CASE Len(t) < Len(s)
    <3>1. BeforeAt(t, s, Len(t))
      BY <1>1, <2>1, <2>4 DEF BeforeAt
    <3> QED BY <1>1, <3>1, BeforeIsAt
  <2> QED BY <1>1, <2>2, <2>3, <2>4
<1>4. CASE D # {}
  <2>1. D \in SUBSET Nat
    OBVIOUS
  <2>2. PICK m \in D : \A x \in D : m <= x
    <3> HIDE DEF D
    <3> QED BY <1>4, <2>1, MinExists
  <2>3. m \in 1 .. Len(s) /\ m \in 1 .. Len(t) /\ s[m] # t[m]
    BY <1>1
  <2>4. ASSUME NEW k \in 1 .. m - 1 PROVE s[k] = t[k]
    <3>1. k \in 1 .. Len(s) /\ k <= Len(t) /\ ~(m <= k)
      BY <1>1, <2>3
    <3>2. k \notin D
      <4> HIDE DEF D
      <4> QED BY <2>2, <3>1
    <3> QED BY <3>1, <3>2
  <2> DEFINE n == m - 1
  <2>5. n \in Nat /\ n < Len(s) /\ n < Len(t) /\ n + 1 = m
    BY <1>1, <2>3
  <2>6. \A k \in 1 .. n : s[k] = t[k]
    BY <2>4
  <2> HIDE DEF n, D
  <2>7. s[m] < t[m] => BeforeAt(s, t, n)
    BY <1>1, <2>5, <2>6 DEF BeforeAt
  <2>8. t[m] < s[m] => BeforeAt(t, s, n)
    BY <1>1, <2>5, <2>6 DEF BeforeAt
  <2>9. s[m] \in Nat /\ t[m] \in Nat
    BY <1>2, <2>3
  <2> QED BY <2>3, <2>5, <2>7, <2>8, <2>9, BeforeIsAt
<1> QED BY <1>3, <1>4

\* Of two tags of different names or parents, one is after the other.
LEMMA AfterOneWay ==
    ASSUME NEW t, NEW u, Keys(t) # Keys(u),
           {Info[t].ident, Info[t].parent, Info[u].ident, Info[u].parent} \subseteq Seq(Nat)
    PROVE  After(t, u) <=> ~After(u, t)
<1> DEFINE T == Keys(t)
           U == Keys(u)
           k == Min({i \in 1 .. 2 : T[i] # U[i]})
           j == Min({i \in 1 .. 2 : U[i] # T[i]})
<1>1. /\ T = <<T[1], T[2]>> /\ U = <<U[1], U[2]>>
      /\ T[1] \in Seq(Nat) /\ T[2] \in Seq(Nat) /\ U[1] \in Seq(Nat) /\ U[2] \in Seq(Nat)
  BY ShortTyped DEF Keys
<1>2. T # U
  OBVIOUS
<1>3. After(t, u) = Before(U[k], T[k]) /\ After(u, t) = Before(T[j], U[j])
  BY <1>2, Zenon DEF After
<1> HIDE DEF T, U
<1>4. {i \in 1 .. 2 : T[i] # U[i]} = {i \in 1 .. 2 : U[i] # T[i]}
  OBVIOUS
<1>5. k = j
  BY <1>4
<1>6. k \in 1 .. 2 /\ T[k] # U[k]
  <2> DEFINE D == {i \in 1 .. 2 : T[i] # U[i]}
  <2>1. D # {} /\ D \in SUBSET Nat /\ D \in SUBSET Int
    BY <1>1, <1>2
  <2> HIDE DEF D
  <2>2. PICK m \in D : \A x \in D : m <= x
    BY <2>1, MinExists
  <2>3. Min(D) = m
    BY <2>1, <2>2, MinIs
  <2> QED BY <2>2, <2>3 DEF D
<1> HIDE DEF k, j
<1>7. T[k] \in Seq(Nat) /\ U[k] \in Seq(Nat)
  BY <1>1, <1>6
<1> QED BY <1>3, <1>5, <1>6, <1>7, BeforeOneWay, BeforeEitherWay

\* The names of the tags S are codes.
Named(S) == \A t \in S : {Info[t].ident, Info[t].parent, Info[t].ns} \subseteq Seq(Nat)

\* The sort puts a declaration right before the only other tag of its name.
LEMMA RightBefore ==
    ASSUME NEW S, Named(S), NEW l \in Seq(S), ToSet(l) = S, Sorted(l),
           NEW i \in 1 .. Len(l), NEW k \in 1 .. Len(l),
           Declaration(l[i]), ~Declaration(l[k]),
           Info[l[i]].ident = Info[l[k]].ident, Info[l[i]].parent = Info[l[k]].parent,
           Info[l[i]].ns = Info[l[k]].ns,
           \A u \in S \ {l[i], l[k]} : Keys(u) # Keys(l[i]),
           \A j \in 1 .. Len(l) : l[j] \in {l[i], l[k]} => j \in {i, k}
    PROVE  k = i + 1
<1> DEFINE d == l[i]
           t == l[k]
<1>1. Len(l) \in Nat /\ DOMAIN l = 1 .. Len(l) /\ \A j \in 1 .. Len(l) : l[j] \in S
  OBVIOUS
<1>2. d \in S /\ t \in S /\ Keys(d) = Keys(t)
  BY <1>1 DEF Keys
<1>3. i < k
  <2> SUFFICES ASSUME k < i PROVE FALSE
    BY <1>1
  <2>1. ~(After(t, d) /\ ~After(d, t))
    BY DEF Sorted
  <2> DEFINE n == Short(Info[d].ns)
  <2>2. n = Short(Info[t].ns)
    OBVIOUS
  <2>3. n \in Seq(Nat)
    BY <1>2, ShortTyped DEF Named
  <2>4. ~Before(n, n)
    BY <2>3, BeforeOneWay
  <2> HIDE DEF n
  <2>5. After(t, d)
    BY <1>2, <2>2 DEF After, n
  <2>6. ~After(d, t)
    BY <1>2, <2>2, <2>4 DEF After, n
  <2> QED BY <2>1, <2>5, <2>6
<1>4. ASSUME i + 1 < k PROVE FALSE
  <2> DEFINE u == l[i + 1]
  <2>1. i + 1 \in 1 .. Len(l) /\ i < i + 1 /\ i + 1 # i /\ i + 1 # k
    BY <1>1, <1>4
  <2>2. u \in S \ {d, t}
    BY <1>1, <2>1
  <2>3. Keys(u) # Keys(d) /\ Keys(u) # Keys(t)
    BY <1>2, <2>2
  <2>4. {Info[u].ident, Info[u].parent, Info[d].ident, Info[d].parent,
         Info[t].ident, Info[t].parent} \subseteq Seq(Nat)
    BY <1>2, <2>2 DEF Named
  <2>5. ~(After(d, u) /\ ~After(u, d))
    BY <2>1 DEF Sorted
  <2>6. ~(After(u, t) /\ ~After(t, u))
    BY <1>4, <2>1 DEF Sorted
  <2>7. (After(d, u) <=> ~After(u, d)) /\ (After(u, t) <=> ~After(t, u))
    <3> HIDE DEF u, d, t
    <3> QED BY <2>3, <2>4, AfterOneWay
  <2>8. After(d, u) <=> After(t, u)
    <3> DEFINE ByKeys(K) == LET m == Min({x \in 1 .. 2 : K[x] # Keys(u)[x]})
                            IN Before(Keys(u)[m], K[m])
    <3> HIDE DEF u, d, t
    <3>1. (After(d, u) <=> ByKeys(Keys(d))) /\ (After(t, u) <=> ByKeys(Keys(t)))
      BY <2>3, Zenon DEF After
    <3> HIDE DEF ByKeys
    <3> QED BY <1>2, <3>1
  <2> QED BY <2>5, <2>6, <2>7, <2>8
<1> QED BY <1>1, <1>3, <1>4

\* The steps before the declaration leave the two without a partner.
LEMMA LeftAlone ==
    ASSUME NEW l, Len(l) \in Nat, DOMAIN l = 1 .. Len(l), ToSet(l) \in SUBSET (Nat \ {NoTag}),
           NEW d \in ToSet(l), NEW t \in ToSet(l), Declaration(d), ~Declaration(t),
           \A u \in ToSet(l) \ {d, t} : Keys(u) # Keys(d),
           Info[d].ident = Info[t].ident, Info[d].parent = Info[t].parent,
           NEW j \in 1 .. Len(l), l[j] # d, NEW b, Mutual(b, ToSet(l)),
           b[d] = NoTag, b[t] = NoTag
    PROVE  BuddyStep(l, j, b)[d] = NoTag /\ BuddyStep(l, j, b)[t] = NoTag
<1> DEFINE e == l[j]
           p == PartnerOf(l, j, b)
<1>1. e \in ToSet(l)
  BY DEF ToSet
<1>2. CASE ~(Declaration(e) /\ b[e] = NoTag) \/ p = NoTag
  BY <1>2 DEF BuddyStep, Pair
<1>3. CASE Declaration(e) /\ b[e] = NoTag /\ p # NoTag
  <2>1. /\ p \in ToSet(l) /\ ~Declaration(p)
        /\ Info[p].ident = Info[e].ident /\ Info[p].parent = Info[e].parent
    BY <1>3, PartnerFits DEF Free
  <2>2. e # d /\ e # t /\ p # d
    BY <1>3, <2>1
  <2>3. p # t
    <3> SUFFICES ASSUME p = t PROVE FALSE
      OBVIOUS
    <3>1. Keys(e) = Keys(d)
      BY <2>1 DEF Keys
    <3> QED BY <1>1, <2>2, <3>1
  <2>4. BuddyStep(l, j, b) = [b EXCEPT ![e] = p, ![p] = e]
    BY <1>3 DEF BuddyStep, Pair
  <2>5. DOMAIN b = ToSet(l)
    BY DEF Mutual
  <2> HIDE DEF e, p
  <2> QED BY <2>2, <2>3, <2>4, <2>5
<1> QED BY <1>2, <1>3

\* The step at the declaration takes the next tag.
LEMMA TakesNext ==
    ASSUME NEW l, Len(l) \in Nat, DOMAIN l = 1 .. Len(l), ToSet(l) \in SUBSET (Nat \ {NoTag}),
           NEW i \in 1 .. Len(l), i + 1 \in 1 .. Len(l),
           Declaration(l[i]), ~Declaration(l[i + 1]),
           Info[l[i]].ident = Info[l[i + 1]].ident, Info[l[i]].parent = Info[l[i + 1]].parent,
           Info[l[i]].ns = Info[l[i + 1]].ns,
           NEW b, Mutual(b, ToSet(l)), b[l[i]] = NoTag, b[l[i + 1]] = NoTag
    PROVE  BuddyStep(l, i, b)[l[i]] = l[i + 1]
<1> DEFINE d == l[i]
           t == l[i + 1]
           c == Candidates(l, i, b)
           ends == {k \in c : BuddyVerdict(d, l[k]) \in {"stop", "pair"}}
<1>1. d \in ToSet(l) /\ t \in ToSet(l) /\ t # NoTag /\ d # t
  BY DEF ToSet
<1>2. BuddyVerdict(d, t) = "pair"
  BY Zenon DEF BuddyVerdict
<1>3. i + 1 \in c /\ c \in SUBSET (i + 1 .. Len(l))
  BY DEF Candidates, Free
<1>4. i + 1 \in ends /\ ends \in SUBSET Int /\ \A k \in ends : i + 1 <= k
  <2>1. l[i + 1] = t
    OBVIOUS
  <2> HIDE DEF c, d, t
  <2>2. i + 1 \in ends
    BY <1>2, <1>3, <2>1
  <2>3. \A k \in c : k \in Int /\ i + 1 <= k
    BY <1>3
  <2> QED BY <2>2, <2>3
<1>5. Min(ends) = i + 1
  <2> HIDE DEF ends
  <2> QED BY <1>4, MinIs
<1>6. PartnerOf(l, i, b) = t
  <2>1. ends # {} /\ BuddyVerdict(l[i], l[Min(ends)]) = "pair"
    BY <1>2, <1>4, <1>5
  <2> QED BY <1>5, <2>1, Zenon DEF PartnerOf
<1>7. BuddyStep(l, i, b) = [b EXCEPT ![d] = t, ![t] = d]
  BY <1>1, <1>6 DEF BuddyStep, Pair
<1>8. DOMAIN b = ToSet(l)
  BY DEF Mutual
<1> HIDE DEF d, t
<1> QED BY <1>1, <1>7, <1>8 DEF d, t

\* The steps after it leave its partner.
LEMMA PartnerStays ==
    ASSUME NEW l, Len(l) \in Nat, DOMAIN l = 1 .. Len(l), ToSet(l) \in SUBSET (Nat \ {NoTag}),
           NEW j \in 1 .. Len(l), NEW d \in ToSet(l), Declaration(d),
           NEW b, Mutual(b, ToSet(l)), b[d] # NoTag
    PROVE  BuddyStep(l, j, b)[d] = b[d]
<1> DEFINE e == l[j]
           p == PartnerOf(l, j, b)
<1>1. CASE ~(Declaration(e) /\ b[e] = NoTag) \/ p = NoTag
  BY <1>1 DEF BuddyStep, Pair
<1>2. CASE Declaration(e) /\ b[e] = NoTag /\ p # NoTag
  <2>1. ~Declaration(p)
    BY <1>2, PartnerFits DEF Free
  <2>2. BuddyStep(l, j, b) = [b EXCEPT ![e] = p, ![p] = e]
    BY <1>2 DEF BuddyStep, Pair
  <2>3. d # e /\ d # p
    BY <1>2, <2>1
  <2>4. DOMAIN b = ToSet(l)
    BY DEF Mutual
  <2> HIDE DEF e, p
  <2> QED BY <2>2, <2>3, <2>4
<1> QED BY <1>1, <1>2

\* The declaration gets its implementation, and no later tag takes it away.
LEMMA BuddyOfList ==
    ASSUME NEW S \in SUBSET (Nat \ {NoTag}), Named(S), NEW l, Distinct(l, S), ToSet(l) = S, Sorted(l),
           NEW d \in S, NEW t \in S, Declaration(d), ~Declaration(t),
           Info[d].ident = Info[t].ident, Info[d].parent = Info[t].parent, Info[d].ns = Info[t].ns,
           \A u \in S \ {d, t} : Keys(u) # Keys(d)
    PROVE  MatchBuddies(l)[d] = t
<1> DEFINE c == Len(l)
<1>1. l \in Seq(S) /\ c \in Nat /\ DOMAIN l = 1 .. c
  BY DEF Distinct
<1>2. PICK f : PairedUpTo(f, c, l) /\ MatchBuddies(l) = f[c]
  BY <1>1, BuddySteps
<1>3. \A m \in 0 .. c : Mutual(f[m], S)
  BY <1>1, <1>2, PairedMutual
<1>4. PICK i \in 1 .. c : l[i] = d
  BY <1>1 DEF ToSet
<1>5. PICK k \in 1 .. c : l[k] = t
  BY <1>1 DEF ToSet
<1>6. k = i + 1
  <2>1. \A j \in 1 .. Len(l) : l[j] \in {l[i], l[k]} => j \in {i, k}
    BY DEF Distinct
  <2>2. /\ Declaration(l[i]) /\ ~Declaration(l[k])
        /\ Info[l[i]].ident = Info[l[k]].ident /\ Info[l[i]].parent = Info[l[k]].parent
        /\ Info[l[i]].ns = Info[l[k]].ns
        /\ \A u \in S \ {l[i], l[k]} : Keys(u) # Keys(l[i])
    BY <1>4, <1>5
  <2>3. i \in 1 .. Len(l) /\ k \in 1 .. Len(l) /\ l \in Seq(S)
    BY <1>1
  <2> HIDE DEF c
  <2>4. Named(S) /\ ToSet(l) = S /\ Sorted(l)
    OBVIOUS
  <2> QED BY ONLY <2>1, <2>2, <2>3, <2>4, RightBefore, Zenon
<1>7. \A m \in 0 .. c : f[m] = IF m = 0 THEN [x \in ToSet(l) |-> NoTag]
                                ELSE BuddyStep(l, m, f[m - 1])
  BY <1>2, Zenon DEF PairedUpTo
<1> HIDE DEF c
<1>0. /\ Len(l) \in Nat /\ DOMAIN l = 1 .. Len(l) /\ ToSet(l) \in SUBSET (Nat \ {NoTag})
      /\ d \in ToSet(l) /\ t \in ToSet(l) /\ \A u \in ToSet(l) \ {d, t} : Keys(u) # Keys(d)
  BY <1>1 DEF c
<1> DEFINE Alone(m) == f[m][d] = NoTag /\ f[m][t] = NoTag
           A == {m \in 0 .. c : IF m < i THEN Alone(m) ELSE f[m][d] = t}
<1>8. 0 \in A
  <2>1. 0 \in 0 .. c /\ 0 < i /\ f[0] = [x \in S |-> NoTag]
    BY <1>1, <1>4, <1>7
  <2> QED BY <2>1
<1>9. ASSUME NEW m \in 0 .. c, m \in A, m # c PROVE m + 1 \in A
  <2> DEFINE b == f[m]
  <2>1. m + 1 \in 1 .. c /\ m + 1 \in 0 .. c /\ f[m + 1] = BuddyStep(l, m + 1, b)
    <3>1. m + 1 \in 1 .. c /\ m + 1 \in 0 .. c /\ m + 1 # 0 /\ (m + 1) - 1 = m
      BY <1>1, <1>9
    <3> QED BY <1>7, <3>1
  <2>2. Mutual(b, ToSet(l))
    BY <1>3
  <2>3. CASE m + 1 < i
    <3>1. m < i /\ m + 1 # i
      BY <1>4, <2>1, <2>3
    <3>2. Alone(m)
      BY <1>9, <3>1
    <3>3. l[m + 1] # d
      BY <1>4, <2>1, <3>1 DEF Distinct, c
    <3>4. Alone(m + 1)
      <4>1. m + 1 \in 1 .. Len(l) /\ b[d] = NoTag /\ b[t] = NoTag
        BY <2>1, <3>2 DEF c
      <4>2. /\ BuddyStep(l, m + 1, b)[d] = NoTag
            /\ BuddyStep(l, m + 1, b)[t] = NoTag
        <5> HIDE DEF b, A, Alone
        <5> DEFINE j == m + 1
        <5>1. j \in 1 .. Len(l) /\ l[j] # d
          BY <3>3, <4>1
        <5>2. /\ Declaration(d) /\ ~Declaration(t)
              /\ Info[d].ident = Info[t].ident /\ Info[d].parent = Info[t].parent
          OBVIOUS
        <5> HIDE DEF j
        <5>3. BuddyStep(l, j, b)[d] = NoTag /\ BuddyStep(l, j, b)[t] = NoTag
          BY ONLY <1>0, <2>2, <4>1, <5>1, <5>2, LeftAlone, SMTT(40)
        <5> QED BY <5>3 DEF j
      <4> QED BY <2>1, <4>2
    <3> QED BY <2>1, <2>3, <3>4
  <2>4. CASE m + 1 = i
    <3>1. m < i /\ ~(m + 1 < i)
      BY <1>4, <2>1, <2>4
    <3>2. Alone(m)
      BY <1>9, <3>1
    <3>3. BuddyStep(l, i, f[m])[l[i]] = l[i + 1]
      <4>1. l[i] = d /\ l[i + 1] = t /\ i \in 1 .. Len(l) /\ i + 1 \in 1 .. Len(l)
        BY <1>4, <1>5, <1>6 DEF c
      <4>2. b[l[i]] = NoTag /\ b[l[i + 1]] = NoTag
        BY <3>2, <4>1
      <4>3. /\ Declaration(l[i]) /\ ~Declaration(l[i + 1])
            /\ Info[l[i]].ident = Info[l[i + 1]].ident
            /\ Info[l[i]].parent = Info[l[i + 1]].parent
            /\ Info[l[i]].ns = Info[l[i + 1]].ns
        BY <4>1
      <4> HIDE DEF b, A, Alone
      <4>4. BuddyStep(l, i, b)[l[i]] = l[i + 1]
        BY ONLY <1>0, <2>2, <4>1, <4>2, <4>3, TakesNext, ZenonT(40)
      <4> QED BY <4>4 DEF b
    <3>4. f[m + 1][d] = t
      BY <1>4, <1>5, <1>6, <2>1, <2>4, <3>3
    <3> QED BY <2>1, <3>1, <3>4
  <2>5. CASE i < m + 1
    <3>1. ~(m < i) /\ ~(m + 1 < i)
      BY <1>4, <2>1, <2>5
    <3>2. f[m][d] = t /\ t # NoTag
      BY <1>9, <3>1
    <3>3. f[m + 1][d] = t
      <4>1. m + 1 \in 1 .. Len(l) /\ b[d] # NoTag
        BY <2>1, <3>2 DEF c
      <4>2. BuddyStep(l, m + 1, b)[d] = b[d]
        <5> HIDE DEF b, A, Alone
        <5> DEFINE j == m + 1
        <5>1. j \in 1 .. Len(l)
          BY <4>1
        <5>2. Declaration(d)
          OBVIOUS
        <5> HIDE DEF j
        <5>3. BuddyStep(l, j, b)[d] = b[d]
          BY ONLY <1>0, <2>2, <4>1, <5>1, <5>2, PartnerStays, ZenonT(40)
        <5> QED BY <5>3 DEF j
      <4> QED BY <2>1, <3>2, <4>2
    <3> QED BY <2>1, <3>1, <3>3
  <2> QED BY <1>4, <2>1, <2>3, <2>4, <2>5
<1>10. 0 .. c \subseteq A
  <2> HIDE DEF A
  <2> QED BY <1>1, <1>8, <1>9, Upward
<1>11. c \in 0 .. c /\ ~(c < i)
  BY <1>1, <1>4
<1>12. f[c][d] = t
  BY <1>10, <1>11
<1> QED BY <1>2, <1>12 DEF c

\* The list and the partners are those of the sort and of MatchBuddies() on it.
BuddyInv == /\ TagsInv /\ Sorted(tags.list)
            /\ tags.buddy = MatchBuddies(tags.list)

LEMMA ListStays ==
    ASSUME NEW k
    PROVE  /\ \A S : Reread(S, k).list = k.list /\ Reread(S, k).buddy = k.buddy
           /\ \A m : Linked(k, m).list = k.list /\ Linked(k, m).buddy = k.buddy
BY DEF Reread, Linked

LEMMA InitBuddyInv == NavInit => BuddyInv
<1> SUFFICES ASSUME NavInit PROVE BuddyInv
  OBVIOUS
<1> DEFINE none == [t \in W.tags |-> NoTag]
<1>1. PICK l \in Orders(W.tags) :
         tags = Reread({Info[t].file : t \in W.tags},
                       [list |-> l, buddy |-> MatchBuddies(l), next |-> none, prev |-> none])
  BY DEF NavInit
<1> DEFINE k == [list |-> l, buddy |-> MatchBuddies(l), next |-> none, prev |-> none]
<1>2. k.list = l /\ k.buddy = MatchBuddies(l)
  OBVIOUS
<1>3. tags.list = k.list /\ tags.buddy = k.buddy
  <2> HIDE DEF k
  <2> QED BY <1>1, ListStays DEF k
<1>4. Sorted(l)
  BY DEF Orders
<1> QED BY <1>2, <1>3, <1>4, InitTagsInv DEF BuddyInv

LEMMA NextBuddyInv == BuddyInv /\ [NavNext]_navVars => BuddyInv'
<1> SUFFICES ASSUME BuddyInv, [NavNext]_navVars PROVE BuddyInv'
  OBVIOUS
<1>1. TagsInv'
  BY NextTagsInv DEF BuddyInv
<1>2. ASSUME tags'.list = tags.list, tags'.buddy = tags.buddy PROVE BuddyInv'
  BY <1>1, <1>2 DEF BuddyInv
<1>3. CASE UNCHANGED tags
  BY <1>2, <1>3
<1>4. CASE RefreshTags \/ TagFlip
  <2>1. \E S : tags' = Reread(S, tags)
    BY <1>4 DEF RefreshTags, TagFlip
  <2> QED BY <1>2, <2>1, ListStays
<1>5. ASSUME NEW q, NEW l, Search(q, l) PROVE BuddyInv'
  BY <1>2, <1>5, ListStays DEF Search
<1>6. ASSUME NEW wd, NEW dialog, FindAtCursor(wd, dialog) PROVE BuddyInv'
  <2>1. \E S, m : tags' = Linked(Reread(S, tags), m)
    BY <1>6 DEF FindAtCursor
  <2> QED BY <1>2, <2>1, ListStays
<1>7. CASE \/ \E t \in All, declaration \in BOOLEAN : FindTagSelect(t, declaration)
           \/ TagFindNext \/ TagFindPrev
  BY <1>3, <1>7 DEF FindTagSelect, TagFindNext, TagFindPrev, Follow
<1>8. CASE FileFindNext \/ FileFindPrev \/ HeaderFlip \/ Others
  BY <1>3, <1>8 DEF FileFindNext, FileFindPrev, FileFind, HeaderFlip, Others, tagVars
<1>9. CASE UNCHANGED navVars
  BY <1>3, <1>9 DEF navVars
<1> QED BY <1>4, <1>5, <1>6, <1>7, <1>8, <1>9 DEF NavNext

LEMMA BuddyInvHolds == NavSpec => []BuddyInv
BY InitBuddyInv, NextBuddyInv, PTL DEF NavSpec

\* A declaration has its implementation as partner when no other tag has their short
\* name and parent, whatever else the workspace holds and however the comparison
\* orders the others (CompareArray(), MatchBuddies()).
THEOREM ImplementationFound == NavSpec => []BuddyFound
<1>1. BuddyInv => BuddyFound
  <2> SUFFICES ASSUME BuddyInv, NEW d \in All, NEW t \in All,
                      Declaration(d), ~Declaration(t),
                      Info[d].ident = Info[t].ident, Info[d].parent = Info[t].parent,
                      Info[d].ns = Info[t].ns, \A u \in All \ {d, t} : Keys(u) # Keys(d)
               PROVE  tags.buddy[d] = t
    BY DEF BuddyFound
  <2>1. /\ world \in DOMAIN Worlds /\ TagsOK(tags, W.tags)
        /\ Sorted(tags.list) /\ tags.buddy = MatchBuddies(tags.list)
    BY DEF BuddyInv, TagsInv
  <2>2. Named(W.tags) /\ W.tags \in SUBSET (Nat \ {NoTag})
    BY <2>1, NamesAssumption, WorldsAssumption DEF Named, W
  <2>3. Distinct(tags.list, W.tags) /\ ToSet(tags.list) = W.tags /\ All = W.tags
    BY <2>1 DEF TagsOK, All
  <2>4. MatchBuddies(tags.list)[d] = t
    BY <2>1, <2>2, <2>3, BuddyOfList
  <2> QED BY <2>1, <2>4
<1> QED BY <1>1, BuddyInvHolds, PTL

(***************************************************************************)
(* The strings that follow somewhere                                       *)
(***************************************************************************)
Folded(p, s) == IF p.case THEN s ELSE Lower(s)

LEMMA FoldedIs ==
    ASSUME NEW p, NEW s \in Seq(Nat)
    PROVE  Folded(p, s) \in Seq(Nat) /\ Len(Folded(p, s)) = Len(s)
BY LowerIs DEF Folded

\* A part of a string in lower case.
LEMMA LowerSubSeq ==
    ASSUME NEW s \in Seq(Nat), NEW a \in 0 .. Len(s), NEW e \in a .. Len(s)
    PROVE  SubSeq(Lower(s), a + 1, e) = Lower(SubSeq(s, a + 1, e))
<1> DEFINE n == Len(s)
           t == Lower(s)
           u == SubSeq(s, a + 1, e)
           v == SubSeq(t, a + 1, e)
           w == Lower(u)
<1>1. /\ n \in Nat /\ t \in Seq(Nat) /\ Len(t) = n /\ a \in Nat /\ e \in Nat /\ e <= n /\ a <= e
      /\ \A i \in 1 .. n : t[i] = LowerChar(s[i])
  BY LowerIs
<1>2. /\ u \in Seq(Nat) /\ Len(u) = e - a
      /\ \A i \in 1 .. e - a : u[i] = s[a + i]
  BY <1>1
<1> HIDE DEF u
<1>3. w \in Seq(Nat) /\ Len(w) = e - a /\ \A i \in 1 .. e - a : w[i] = LowerChar(u[i])
  BY <1>2, LowerIs
<1> HIDE DEF t
<1>4. /\ v \in Seq(Nat) /\ Len(v) = e - a
      /\ \A i \in 1 .. e - a : v[i] = t[a + i]
  <2>1. t \in Seq(Nat) /\ a \in 0 .. Len(t) /\ e \in a .. Len(t)
    BY <1>1
  <2>2. v \in Seq(Nat)
    BY ONLY <2>1
  <2>3. Len(v) = e - a
    BY ONLY <2>1
  <2>4. ASSUME NEW i \in 1 .. e - a PROVE v[i] = t[a + i]
    <3>1. i \in 1 .. e - (a + 1) + 1 /\ (a + 1) + i - 1 = a + i /\ a + 1 \in Int /\ e \in Int
      BY ONLY <2>1, i \in 1 .. e - a
    <3> QED BY ONLY <2>1, <3>1, i \in 1 .. e - a
  <2> QED BY <2>2, <2>3, <2>4
<1> HIDE DEF n, v, w
<1>5. \A i \in 1 .. e - a : v[i] = w[i]
  <2> SUFFICES ASSUME NEW i \in 1 .. e - a PROVE v[i] = w[i]
    OBVIOUS
  <2>1. a + i \in 1 .. n
    BY <1>1
  <2> QED BY <1>1, <1>2, <1>3, <1>4, <2>1
<1>6. v = w
  BY <1>3, <1>4, <1>5
<1> QED BY <1>6 DEF v, w, t, u

LEMMA FoldedSubSeq ==
    ASSUME NEW p, NEW s \in Seq(Nat), NEW a \in 0 .. Len(s), NEW e \in a .. Len(s)
    PROVE  SubSeq(Folded(p, s), a + 1, e) = Folded(p, SubSeq(s, a + 1, e))
BY LowerSubSeq DEF Folded

\* x is the least of the set B, or says that there is none.
LeastOf(x, B) == IF B = {} THEN x = Lost ELSE x \in B /\ \A b \in B : x <= b
\* The ends of the places of g in f that begin at one of the places B or after it.
EndsOf(f, g, n, B) ==
    {e \in n .. Len(f) : \E b \in B : \E a \in b .. e :
        e = a + Len(g) /\ SubSeq(f, a + 1, e) = g}

\* The end of the first place after the least of B is the least end.
LEMMA EndOfLeast ==
    ASSUME NEW f \in Seq(Nat), NEW g \in Seq(Nat), NEW n \in Nat,
           NEW B \in SUBSET (n .. Len(f)), NEW x, LeastOf(x, B)
    PROVE  LeastOf(EndOf(f, g, x), EndsOf(f, g, n, B))
<1> DEFINE m == Len(f)
           k == Len(g)
           at == {a \in x .. Len(f) - Len(g) : SubSeq(f, a + 1, a + Len(g)) = g}
           E == EndsOf(f, g, n, B)
<1>1. m \in Nat /\ k \in Nat
  OBVIOUS
<1>2. CASE B = {}
  <2>1. E = {} /\ x = Lost
    BY <1>2 DEF EndsOf, LeastOf
  <2>2. EndOf(f, g, x) = Lost
    BY <2>1, Zenon DEF EndOf
  <2> QED BY <2>1, <2>2, Zenon DEF LeastOf
<1>3. CASE B # {}
  <2>1. x \in B /\ \A b \in B : x <= b
    BY <1>3 DEF LeastOf
  <2>2. x \in Nat /\ x # Lost /\ n <= x /\ x <= m
    BY <2>1 DEF Lost
  <2>3. at \in SUBSET Nat /\ at \in SUBSET Int
    BY <1>1, <2>2
  <2>4. ASSUME NEW e
        PROVE  e \in E <=> \E a \in at : e = a + k
    <3>1. ASSUME e \in E PROVE \E a \in at : e = a + k
      <4>1. e \in n .. m
        BY <3>1 DEF EndsOf
      <4>0. PICK b \in B : \E a \in b .. e : e = a + k /\ SubSeq(f, a + 1, e) = g
        BY <3>1 DEF EndsOf
      <4>2. PICK a \in b .. e : e = a + k /\ SubSeq(f, a + 1, e) = g
        BY <4>0
      <4>3. b \in Nat /\ a \in Nat /\ e \in Nat /\ x <= b /\ b <= a
        BY <2>1, <4>1, <4>2
      <4>4. a \in x .. m - k
        BY <1>1, <2>2, <4>1, <4>2, <4>3
      <4>5. a \in at
        BY <4>2, <4>4
      <4> QED BY <4>2, <4>5
    <3>2. ASSUME NEW a \in at, e = a + k PROVE e \in E
      <4>1. a \in Nat /\ x <= a /\ a <= m - k /\ SubSeq(f, a + 1, a + k) = g
        BY <2>2, <1>1
      <4> HIDE DEF m, k, at
      <4>2. e \in n .. m /\ a \in x .. e
        BY <1>1, <2>2, <3>2, <4>1
      <4> QED BY <2>1, <3>2, <4>1, <4>2 DEF EndsOf, m, k
    <3> QED BY <3>1, <3>2
  <2>5. EndOf(f, g, x) = IF at = {} THEN Lost ELSE Min(at) + k
    BY <2>2, Zenon DEF EndOf
  <2> HIDE DEF m, k, at, E
  <2>6. CASE at = {}
    <3>1. E = {}
      BY <2>4, <2>6
    <3> QED BY <2>5, <2>6, <3>1, Zenon DEF LeastOf, E
  <2>7. CASE at # {}
    <3>1. PICK a \in at : \A y \in at : a <= y
      BY <2>3, <2>7, MinExists
    <3>2. Min(at) = a
      BY <2>3, <3>1, MinIs
    <3>3. a + k \in E
      BY <2>4
    <3>4. ASSUME NEW e \in E PROVE a + k <= e
      <4>1. PICK y \in at : e = y + k
        BY <2>4
      <4>2. a \in Nat /\ y \in Nat /\ a <= y
        BY <2>3, <3>1
      <4> QED BY <1>1, <4>1, <4>2
    <3>5. EndOf(f, g, x) = a + k /\ E # {}
      BY <2>5, <2>7, <3>2, <3>3
    <3> QED BY <3>3, <3>4, <3>5 DEF LeastOf, E
  <2> QED BY <2>6, <2>7
<1> QED BY <1>2, <1>3

\* The strings of the part p are found in id one after the other.
SubsAsked(p, id) ==
    LET fold(s) == IF p.case THEN s ELSE Lower(s)
        n == Len(p.text)
        from[k \in 0 .. Len(p.subs)] ==
            IF k = 0 THEN {n}
            ELSE {e \in n .. Len(id) :
                     \E b \in from[k - 1] : \E a \in b .. e :
                        fold(SubSeq(id, a + 1, e)) = fold(p.subs[k])}
    IN from[Len(p.subs)] # {}

EndsAsked(p, id, n, B, sub) ==
    {e \in n .. Len(id) : \E b \in B : \E a \in b .. e :
        Folded(p, SubSeq(id, a + 1, e)) = Folded(p, sub)}

LEMMA EndsFolded ==
    ASSUME NEW p, NEW id \in Seq(Nat), NEW sub \in Seq(Nat), NEW n \in Nat,
           NEW B \in SUBSET (n .. Len(id))
    PROVE  EndsAsked(p, id, n, B, sub) = EndsOf(Folded(p, id), Folded(p, sub), n, B)
<1> DEFINE f == Folded(p, id)
           g == Folded(p, sub)
<1>1. f \in Seq(Nat) /\ Len(f) = Len(id) /\ g \in Seq(Nat) /\ Len(g) = Len(sub)
  BY FoldedIs
<1>2. ASSUME NEW e \in n .. Len(id), NEW b \in B, NEW a \in b .. e
      PROVE  Folded(p, SubSeq(id, a + 1, e)) = g <=> e = a + Len(g) /\ SubSeq(f, a + 1, e) = g
  <2>1. a \in 0 .. Len(id) /\ e \in a .. Len(id)
    OBVIOUS
  <2>2. SubSeq(f, a + 1, e) = Folded(p, SubSeq(id, a + 1, e))
    BY <2>1, FoldedSubSeq
  <2>3. Len(SubSeq(f, a + 1, e)) = e - a
    BY <1>1, <2>1
  <2>4. a \in Int /\ e \in Int
    BY <2>1
  <2> HIDE DEF f, g
  <2>5. ASSUME SubSeq(f, a + 1, e) = g PROVE e = a + Len(g)
    <3>1. Len(g) = e - a
      BY <2>3, <2>5
    <3> QED BY <2>4, <3>1
  <2> QED BY <2>2, <2>5
<1> HIDE DEF f, g
<1>3. {e \in n .. Len(id) : \E b \in B : \E a \in b .. e :
          Folded(p, SubSeq(id, a + 1, e)) = g} = EndsOf(f, g, n, B)
  BY <1>1, <1>2, Zenon DEF EndsOf
<1> QED BY <1>3 DEF f, g, EndsAsked

\* CompareSubstring() finds the strings of a part if and only if they are there.
LEMMA SubsFitIs ==
    ASSUME NEW p, p.text \in Seq(Nat), p.subs \in Seq(Seq(Nat)),
           NEW id \in Seq(Nat), Len(id) >= Len(p.text)
    PROVE  SubsFit(p, id) <=> SubsAsked(p, id)
<1> DEFINE n == Len(p.text)
           c == Len(p.subs)
           m == Len(id)
           S == Nat \cup {Lost}
           T == SUBSET (n .. m)
           End(x, k) == EndOf(Folded(p, id), Folded(p, p.subs[k]), x)
           From(B, k) == EndsAsked(p, id, n, B, p.subs[k])
           Ends(f) == f = [k \in 0 .. c |-> IF k = 0 THEN n ELSE End(f[k - 1], k)]
           Froms(f) == f = [k \in 0 .. c |-> IF k = 0 THEN {n} ELSE From(f[k - 1], k)]
           E == CHOOSE f : Ends(f)
           F == CHOOSE f : Froms(f)
<1>1. n \in Nat /\ c \in Nat /\ m \in Nat /\ n <= m /\ \A k \in 1 .. c : p.subs[k] \in Seq(Nat)
  OBVIOUS
<1>2. SubsFit(p, id) <=> E[c] # Lost
  BY Zenon DEF SubsFit, Folded
<1>3. SubsAsked(p, id) <=> F[c] # {}
  BY Zenon DEF SubsAsked, Folded, EndsAsked
<1>4. ASSUME NEW k \in 1 .. c, NEW B \in T
      PROVE  /\ From(B, k) \in T
             /\ From(B, k) = EndsOf(Folded(p, id), Folded(p, p.subs[k]), n, B)
  <2> DEFINE sub == p.subs[k]
  <2>1. sub \in Seq(Nat) /\ B \in SUBSET (n .. Len(id)) /\ n \in Nat
    BY <1>1
  <2> HIDE DEF sub, n
  <2>2. EndsAsked(p, id, n, B, sub) = EndsOf(Folded(p, id), Folded(p, sub), n, B)
    BY <2>1, EndsFolded
  <2>3. EndsAsked(p, id, n, B, sub) \in SUBSET (n .. m)
    BY DEF EndsAsked
  <2> QED BY <2>2, <2>3 DEF sub
<1>5. \E f : Froms(f)
  <2> DEFINE step == [k \in 1 .. c |-> [B \in T |-> From(B, k)]]
  <2>1. step \in [1 .. c -> [T -> T]]
    <3> HIDE DEF From, T
    <3> QED BY <1>4
  <2>2. {n} \in T
    BY <1>1
  <2>3. PICK f \in [0 .. c -> T] : Stepped(f, c, {n}, step)
    <3> HIDE DEF step, T, c, n
    <3> QED BY <1>1, <2>1, <2>2, Stepwise
  <2>4. f[0] = {n} /\ \A k \in 1 .. c : f[k] = step[k][f[k - 1]]
    BY <2>3, Zenon DEF Stepped
  <2>5. ASSUME NEW k \in 0 .. c
        PROVE  f[k] = IF k = 0 THEN {n} ELSE From(f[k - 1], k)
    <3>1. CASE k = 0
      BY <2>4, <3>1
    <3>2. CASE k # 0
      <4>1. k \in 1 .. c /\ f[k - 1] \in T
        <5>1. k \in 1 .. c /\ k - 1 \in 0 .. c
          BY <1>1, <3>2
        <5> HIDE DEF T
        <5> QED BY <5>1
      <4>2. step[k][f[k - 1]] = From(f[k - 1], k)
        <5> HIDE DEF T, From
        <5> QED BY <4>1
      <4> HIDE DEF step, From
      <4> QED BY <2>4, <3>2, <4>1, <4>2, Zenon
    <3> QED BY <3>1, <3>2
  <2>6. f = [k \in 0 .. c |-> f[k]]
    BY <2>3, Zenon
  <2> HIDE DEF From
  <2>7. Froms(f)
    BY <2>5, <2>6, Zenon
  <2> QED BY <2>7, Zenon
<1>6. Froms(F)
  BY <1>5, Zenon
<1>7. \E f : Ends(f)
  <2> DEFINE step == [k \in 1 .. c |-> [x \in S |-> End(x, k)]]
  <2>1. ASSUME NEW k \in 1 .. c, NEW x \in S PROVE End(x, k) \in S
    <3> DEFINE f == Folded(p, id)
               g == Folded(p, p.subs[k])
               at == {a \in x .. Len(f) - Len(g) : SubSeq(f, a + 1, a + Len(g)) = g}
    <3>1. f \in Seq(Nat) /\ g \in Seq(Nat)
      BY <1>1, FoldedIs
    <3>2. Len(f) \in Nat /\ Len(g) \in Nat
      BY <3>1
    <3>3. End(x, k) = IF x = Lost \/ at = {} THEN Lost ELSE Min(at) + Len(g)
      BY Zenon DEF EndOf
    <3> HIDE DEF f, g, End
    <3>4. CASE x # Lost /\ at # {}
      <4>1. at \in SUBSET Nat /\ at \in SUBSET Int
        BY <3>2, <3>4
      <4> HIDE DEF at
      <4>2. PICK a \in at : \A y \in at : a <= y
        BY <3>4, <4>1, MinExists
      <4>3. Min(at) = a /\ a \in Nat
        BY <4>1, <4>2, MinIs
      <4> QED BY <3>2, <3>3, <3>4, <4>3
    <3> QED BY <3>3, <3>4
  <2>2. step \in [1 .. c -> [S -> S]]
    <3> HIDE DEF End, S
    <3> QED BY <2>1
  <2>3. n \in S
    BY <1>1
  <2>4. PICK f \in [0 .. c -> S] : Stepped(f, c, n, step)
    <3> HIDE DEF step, S, c, n
    <3> QED BY <1>1, <2>2, <2>3, Stepwise
  <2>5. f[0] = n /\ \A k \in 1 .. c : f[k] = step[k][f[k - 1]]
    BY <2>4, Zenon DEF Stepped
  <2>6. ASSUME NEW k \in 0 .. c
        PROVE  f[k] = IF k = 0 THEN n ELSE End(f[k - 1], k)
    <3>1. CASE k = 0
      BY <2>5, <3>1
    <3>2. CASE k # 0
      <4>1. k \in 1 .. c /\ f[k - 1] \in S
        <5>1. k \in 1 .. c /\ k - 1 \in 0 .. c
          BY <1>1, <3>2
        <5> HIDE DEF S
        <5> QED BY <5>1
      <4>2. step[k][f[k - 1]] = End(f[k - 1], k)
        <5> HIDE DEF S, End
        <5> QED BY <4>1
      <4> HIDE DEF step, End
      <4> QED BY <2>5, <3>2, <4>1, <4>2, Zenon
    <3> QED BY <3>1, <3>2
  <2>7. f = [k \in 0 .. c |-> f[k]]
    BY <2>4, Zenon
  <2> HIDE DEF End
  <2>8. Ends(f)
    BY <2>6, <2>7, Zenon
  <2> QED BY <2>8, Zenon
<1>8. Ends(E)
  BY <1>7, Zenon
<1> HIDE DEF E, F
<1>9. \A k \in 0 .. c : /\ F[k] = IF k = 0 THEN {n} ELSE From(F[k - 1], k)
                        /\ E[k] = IF k = 0 THEN n ELSE End(E[k - 1], k)
  BY <1>6, <1>8, Zenon
<1> DEFINE A == {k \in 0 .. c : F[k] \in T /\ LeastOf(E[k], F[k])}
<1>10. 0 \in A
  <2>1. 0 \in 0 .. c /\ F[0] = {n} /\ E[0] = n
    <3> HIDE DEF From, End
    <3>1. 0 \in 0 .. c
      BY <1>1
    <3> QED BY <1>9, <3>1
  <2>2. {n} \in T /\ LeastOf(n, {n})
    BY <1>1 DEF LeastOf
  <2> HIDE DEF T
  <2> QED BY <2>1, <2>2
<1>11. ASSUME NEW k \in 0 .. c, k \in A, k # c PROVE k + 1 \in A
  <2>1. k + 1 \in 1 .. c /\ k + 1 \in 0 .. c /\ k + 1 # 0 /\ (k + 1) - 1 = k
    BY <1>1, <1>11
  <2> DEFINE B == F[k]
             x == E[k]
  <2>2. B \in T /\ LeastOf(x, B)
    BY <1>11
  <2>3. F[k + 1] = From(B, k + 1) /\ E[k + 1] = End(x, k + 1)
    <3> HIDE DEF From, End
    <3> QED BY <1>9, <2>1
  <2> HIDE DEF B, x
  <2>4. /\ From(B, k + 1) \in T
        /\ From(B, k + 1) = EndsOf(Folded(p, id), Folded(p, p.subs[k + 1]), n, B)
    <3> HIDE DEF From, T
    <3> QED BY <1>4, <2>1, <2>2
  <2>5. LeastOf(End(x, k + 1), From(B, k + 1))
    <3> DEFINE f == Folded(p, id)
               g == Folded(p, p.subs[k + 1])
    <3>1. f \in Seq(Nat) /\ g \in Seq(Nat) /\ Len(f) = m
      BY <1>1, <2>1, FoldedIs
    <3>2. B \in SUBSET (n .. Len(f))
      <4> HIDE DEF f
      <4> QED BY <2>2, <3>1
    <3> HIDE DEF f, g, n
    <3>3. LeastOf(EndOf(f, g, x), EndsOf(f, g, n, B))
      BY <1>1, <2>2, <3>1, <3>2, EndOfLeast
    <3> HIDE DEF From
    <3> QED BY <2>4, <3>3 DEF f, g
  <2> HIDE DEF From, End, T
  <2> QED BY <2>1, <2>3, <2>4, <2>5
<1>12. 0 .. c \subseteq A
  <2> HIDE DEF A, c
  <2> QED BY <1>1, <1>10, <1>11, Upward
<1>13. F[c] \in T /\ LeastOf(E[c], F[c])
  <2>1. c \in 0 .. c
    BY <1>1
  <2> HIDE DEF c, T
  <2> QED BY <1>12, <2>1
<1>14. E[c] # Lost <=> F[c] # {}
  <2>1. Lost \notin n .. m
    BY <1>1 DEF Lost
  <2> HIDE DEF n, m, c
  <2> QED BY <1>13, <2>1 DEF LeastOf
<1> HIDE DEF c
<1> QED BY <1>2, <1>3, <1>14, Zenon

(***************************************************************************)
(* A part of a query                                                       *)
(***************************************************************************)
LEMMA LowerSame ==
    ASSUME NEW s \in Seq(Nat), \A i \in 1 .. Len(s) : s[i] \notin Upper
    PROVE  Lower(s) = s
<1>1. \A i \in 1 .. Len(s) : LowerChar(s[i]) = s[i]
  BY DEF LowerChar
<1>2. s = [i \in DOMAIN s |-> s[i]] /\ DOMAIN s = 1 .. Len(s)
  OBVIOUS
<1> QED BY <1>1, <1>2, Zenon DEF Lower

LEMMA CheckedIs ==
    ASSUME NEW p, NEW name \in Seq(Nat)
    PROVE  /\ Checked(p, name) \in Seq(Nat)
           /\ p.exact \/ p.case \/ \A i \in 1 .. Len(Checked(p, name)) :
                                      Checked(p, name)[i] \notin Upper
BY ShortIs DEF Checked

LEMMA NotBeforeItself == ASSUME NEW s \in Seq(Nat) PROVE ~Before(s, s)
<1>1. Len(s) \in Nat
  OBVIOUS
<1>2. Min({Len(s), Len(s)}) = Len(s)
  <2> DEFINE x == Len(s)
             S == {x, x}
  <2>1. S \in SUBSET Int /\ x \in S /\ \A k \in S : x <= k
    BY <1>1
  <2> HIDE DEF x, S
  <2>2. Min(S) = x
    BY <2>1, MinIs
  <2> QED BY <2>2 DEF x, S
<1> SUFFICES ASSUME NEW n \in 0 .. Len(s),
                    IF n = Len(s) THEN n < Len(s) ELSE n < Len(s) /\ s[n + 1] < s[n + 1]
             PROVE  FALSE
  BY <1>2 DEF Before
<1>3. CASE n = Len(s)
  BY <1>1, <1>3
<1>4. CASE n # Len(s)
  <2>1. n + 1 \in 1 .. Len(s)
    BY <1>1, <1>4
  <2>2. s[n + 1] \in Nat
    BY <2>1
  <2> QED BY <1>4, <2>2
<1> QED BY <1>3, <1>4

\* CompareTag() takes the text of a part as it is meant.
LEMMA TextFitsIs ==
    ASSUME NEW p, IsPart(p), HasText(p), NEW name \in Seq(Nat)
    PROVE  LET id == Checked(p, name)
               n == Len(p.text)
           IN TextFits(p, id) <=> /\ Len(id) >= n
                                  /\ Folded(p, SubSeq(id, 1, n)) = Folded(p, p.text)
                                  /\ p.exact => Len(id) = n
<1> DEFINE id == Checked(p, name)
           text == p.text
           n == Len(text)
           head == SubSeq(id, 1, n)
           Right == /\ Len(id) >= n /\ Folded(p, head) = Folded(p, text)
                    /\ p.exact => Len(id) = n
<1>1. /\ text \in Seq(Nat) /\ text # << >> /\ p.exact \in BOOLEAN /\ p.case \in BOOLEAN
      /\ p.exact \/ p.case \/ \A i \in 1 .. n : text[i] \notin Upper
  BY DEF IsPart, HasText
<1>2. /\ id \in Seq(Nat)
      /\ p.exact \/ p.case \/ \A i \in 1 .. Len(id) : id[i] \notin Upper
  BY CheckedIs
<1> HIDE DEF id, text
<1>3. n \in Nat /\ n >= 1 /\ Len(id) \in Nat /\ \A i \in 1 .. n : text[i] \in Nat
  BY <1>1, <1>2
<1>4. ASSUME Len(id) >= n
      PROVE  /\ head \in Seq(Nat) /\ Len(head) = n /\ \A i \in 1 .. n : head[i] = id[i]
             /\ Len(id) = n => head = id
             /\ id[1] \in Nat
  <2>1. head \in Seq(Nat) /\ Len(head) = n /\ \A i \in 1 .. n : head[i] = id[i]
    BY <1>2, <1>3, <1>4
  <2>2. Len(id) = n => head = id
    BY <1>2, <2>1
  <2> QED BY <1>2, <1>3, <1>4, <2>1, <2>2
<1>5. LengthFits(p, id) <=> Len(id) >= n /\ (p.exact => Len(id) = n)
  BY <1>3 DEF LengthFits, text
<1>7. ASSUME Right
      PROVE  ~Past(p, id)
  <2>1. /\ head \in Seq(Nat) /\ Len(head) = n /\ \A i \in 1 .. n : head[i] = id[i]
        /\ Len(id) >= n /\ Folded(p, head) = Folded(p, text)
    BY <1>4, <1>7
  <2>2. LowerChar(id[1]) = LowerChar(text[1])
    <3>1. 1 \in 1 .. n /\ head[1] = id[1]
      BY <1>3, <2>1
    <3>2. Lower(head)[1] = LowerChar(head[1]) /\ Lower(text)[1] = LowerChar(text[1])
      <4>1. 1 \in 1 .. Len(head) /\ 1 \in 1 .. Len(text)
        BY <2>1, <3>1
      <4> HIDE DEF head
      <4> QED BY <1>1, <2>1, <4>1, LowerIs
    <3> QED BY <2>1, <3>1, <3>2 DEF Folded
  <2>3. CASE p.exact \/ p.case
    <3>1. LowerChar(id[1]) \in Nat
      BY <1>4, <2>1 DEF LowerChar
    <3>2. ~(LowerChar(text[1]) < LowerChar(id[1]))
      BY <2>2, <3>1
    <3> QED BY <2>3, <3>2, Zenon DEF Past, PastLetter, text
  <2>4. CASE ~p.exact /\ ~p.case
    <3>1. head = text
      <4>1. \A i \in 1 .. Len(head) : head[i] \notin Upper
        BY <1>2, <1>3, <2>1, <2>4
      <4>2. Lower(head) = head
        BY <2>1, <4>1, LowerSame
      <4>3. Lower(text) = text
        BY <1>1, <2>4, LowerSame
      <4> QED BY <2>1, <2>4, <4>2, <4>3 DEF Folded
    <3>2. ~Before(text, head)
      BY <1>1, <3>1, NotBeforeItself
    <3> QED BY <2>4, <3>2, Zenon DEF Past, text
  <2> QED BY <2>3, <2>4, <1>1
<1>8. TextFits(p, id) <=> /\ LengthFits(p, id) /\ ~Past(p, id)
                          /\ IF p.exact /\ ~p.case THEN Lower(id) = Lower(text) ELSE head = text
  BY Zenon DEF TextFits, text
<1>9. TextFits(p, id) <=> Right
  <2> DEFINE Same == Folded(p, head) = Folded(p, text)
  <2>1. ASSUME LengthFits(p, id)
        PROVE  (IF p.exact /\ ~p.case THEN Lower(id) = Lower(text) ELSE head = text) <=> Same
    <3>1. CASE p.case
      BY <3>1 DEF Folded
    <3>2. CASE ~p.case /\ p.exact
      BY <1>4, <1>5, <2>1, <3>2 DEF Folded
    <3>3. CASE ~p.case /\ ~p.exact
      <4>1. Len(id) >= n
        BY <1>5, <2>1
      <4>2. \A i \in 1 .. Len(head) : head[i] \notin Upper
        BY <1>2, <1>3, <1>4, <3>3, <4>1
      <4>3. Lower(head) = head
        BY <1>4, <4>1, <4>2, LowerSame
      <4>4. Lower(text) = text
        BY <1>1, <3>3, LowerSame
      <4> QED BY <3>3, <4>3, <4>4 DEF Folded
    <3> QED BY <1>1, <3>1, <3>2, <3>3
  <2>2. Right <=> LengthFits(p, id) /\ Same
    BY <1>5, Zenon
  <2> HIDE DEF Right, Same, head, n
  <2> QED BY <1>7, <1>8, <2>1, <2>2, Zenon
<1> QED BY <1>9, Zenon DEF id, text

LEMMA AsksIs ==
    ASSUME NEW p, NEW name
    PROVE  LET id == Checked(p, name)
               n == Len(p.text)
           IN Asks(p, name) <=> /\ Len(id) >= n
                                /\ Folded(p, SubSeq(id, 1, n)) = Folded(p, p.text)
                                /\ p.exact => Len(id) = n
                                /\ SubsAsked(p, id)
BY Zenon DEF Asks, SubsAsked, Folded

\* The test of a part with what it asks for; the identifier's, and that of the parent
\* or the namespace when the part is for a name.
LEMMA PartFits ==
    ASSUME NEW p, IsPart(p), p.exact => HasText(p), NEW name \in Seq(Nat)
    PROVE  /\ HasText(p) => TextFits(p, Checked(p, name))
           /\ SubsFit(p, Checked(p, name))
           <=> Asks(p, name)
<1> DEFINE id == Checked(p, name)
           text == p.text
           n == Len(text)
           Same == Folded(p, SubSeq(id, 1, n)) = Folded(p, text)
<1>1. /\ text \in Seq(Nat) /\ p.subs \in Seq(Seq(Nat)) /\ (p.exact => HasText(p))
      /\ id \in Seq(Nat) /\ Len(id) \in Nat /\ n \in Nat
  BY CheckedIs DEF IsPart, HasText
<1>2. Asks(p, name) <=> Len(id) >= n /\ Same /\ (p.exact => Len(id) = n) /\ SubsAsked(p, id)
  BY AsksIs
<1>3. Len(id) >= n => (SubsFit(p, id) <=> SubsAsked(p, id))
  <2> HIDE DEF id
  <2> QED BY <1>1, SubsFitIs
<1>4. CASE HasText(p)
  <2>1. TextFits(p, id) <=> Len(id) >= n /\ Same /\ (p.exact => Len(id) = n)
    BY <1>4, TextFitsIs
  <2> HIDE DEF id, n, Same
  <2> QED BY <1>2, <1>3, <1>4, <2>1, Zenon DEF id
<1>5. CASE ~HasText(p)
  <2>1. n = 0 /\ text = << >> /\ ~p.exact
    BY <1>1, <1>5 DEF HasText
  <2>2. SubSeq(id, 1, n) = << >>
    <3> HIDE DEF id, n
    <3> QED BY <1>1, <2>1
  <2>3. Same /\ Len(id) >= n
    <3>1. Same
      BY <2>1, <2>2, Zenon
    <3> HIDE DEF id, n, Same
    <3>2. Len(id) >= n
      BY <1>1, <2>1
    <3> QED BY <3>1, <3>2
  <2> HIDE DEF id, n, Same
  <2> QED BY <1>2, <1>3, <1>5, <2>1, <2>3, Zenon DEF id
<1> QED BY <1>4, <1>5

\* An empty name is tested with the strings of the part other.
LEMMA OuterFitsIs ==
    ASSUME NEW p, IsPart(p), p.exact => HasText(p), Len(p.subs) > 1 => p.subs[1] # << >>,
           NEW name \in Seq(Nat), NEW other, other = p \/ p.subs = << >>
    PROVE  OuterFits(p, name, other) <=> AsksOuter(p, name)
<1> DEFINE id == Checked(p, name)
           Empty(x) == \A k \in DOMAIN x.subs : x.subs[k] = << >>
<1>1. /\ p.subs \in Seq(Seq(Nat)) /\ (p.exact => HasText(p))
      /\ Len(p.subs) > 1 => p.subs[1] # << >>
  BY DEF IsPart, HasText
<1>2. Tested(p) <=> HasText(p) \/ ~Empty(p)
  <2>1. CASE p.subs = << >>
    BY <1>1, <2>1 DEF Tested
  <2>2. CASE Len(p.subs) = 1
    <3>1. DOMAIN p.subs = {1} /\ p.subs # << >>
      <4> DEFINE s == p.subs
      <4>1. s \in Seq(Seq(Nat)) /\ Len(s) = 1
        BY <1>1, <2>2
      <4> HIDE DEF s
      <4>2. DOMAIN s = 1 .. Len(s) /\ 1 .. 1 = {1} /\ Len(<< >>) = 0
        BY ONLY <4>1
      <4>3. DOMAIN s = {1}
        BY ONLY <4>1, <4>2
      <4>4. s # << >>
        <5>1. s = << >> => Len(s) = 0
          BY ONLY <4>2, Zenon
        <5>2. 0 # 1
          OBVIOUS
        <5> QED BY ONLY <4>1, <5>1, <5>2, Zenon
      <4> QED BY <4>3, <4>4 DEF s
    <3> QED BY <1>1, <3>1 DEF Tested
  <2>3. CASE Len(p.subs) > 1
    <3>1. 1 \in DOMAIN p.subs /\ p.subs # << >>
      BY <1>1, <2>3
    <3> QED BY <1>1, <2>3, <3>1 DEF Tested
  <2>4. p.subs = << >> \/ Len(p.subs) = 1 \/ Len(p.subs) > 1
    <3> DEFINE s == p.subs
    <3>1. s \in Seq(Seq(Nat))
      BY <1>1
    <3> HIDE DEF s
    <3>2. s = << >> \/ Len(s) = 1 \/ Len(s) > 1
      <4>1. Len(s) \in Nat /\ (Len(s) = 0 => s = << >>)
        BY ONLY <3>1
      <4> DEFINE n == Len(s)
      <4> HIDE DEF n
      <4>2. n \in Nat => n = 0 \/ n = 1 \/ n > 1
        OBVIOUS
      <4> QED BY ONLY <4>1, <4>2 DEF n
    <3> QED BY <3>2 DEF s
  <2> QED BY <2>1, <2>2, <2>3, <2>4
<1>3. p.subs = << >> => Empty(p)
  OBVIOUS
<1>4. /\ HasText(p) => TextFits(p, id)
      /\ SubsFit(p, id)
      <=> Asks(p, name)
  BY PartFits
<1>5. OuterFits(p, name, other) <=>
        (Tested(p) => IF id = << >> THEN ~HasText(p) /\ Empty(other)
                      ELSE (HasText(p) \/ p.exact => TextFits(p, id)) /\ SubsFit(p, id))
  BY Zenon DEF OuterFits
<1>6. AsksOuter(p, name) <=> (~HasText(p) /\ Empty(p)) \/ (id # << >> /\ Asks(p, name))
  BY Zenon DEF AsksOuter
<1> HIDE DEF id, Empty
<1> QED BY <1>1, <1>2, <1>3, <1>4, <1>5, <1>6, Zenon

\* A tag is taken by a query without strings for the namespace as it is meant.
TagAsked(t, q) ==
    /\ Asks(q.name, Info[t].ident)
    /\ AsksOuter(q.parent, Info[t].parent) /\ AsksOuter(q.ns, Info[t].ns)
    /\ q.path = << >> \/ Stands(q.path, Info[t].path)

LEMMA TagFitsIs ==
    ASSUME NEW q, IsQuery(q), PlainQuery(q), NEW t,
           {Info[t].ident, Info[t].parent, Info[t].ns} \subseteq Seq(Nat),
           Info[t].path \in Seq(Nat \ {0})
    PROVE  TagFits(t, q) <=> TagAsked(t, q)
<1>1. IsPart(q.name) /\ IsPart(q.parent) /\ IsPart(q.ns) /\ q.path \in Seq(Nat)
  BY DEF IsQuery
<1>6. /\ q.name.exact => HasText(q.name)
      /\ q.parent.exact => HasText(q.parent)
      /\ q.ns.exact => HasText(q.ns)
      /\ Len(q.parent.subs) > 1 => q.parent.subs[1] # << >>
      /\ q.ns.subs = << >>
  BY Zenon DEF PlainQuery
<1>7. ~(Len(q.ns.subs) > 1)
  BY <1>6
<1>2. /\ HasText(q.name) => TextFits(q.name, Checked(q.name, Info[t].ident))
      /\ SubsFit(q.name, Checked(q.name, Info[t].ident))
      <=> Asks(q.name, Info[t].ident)
  BY <1>1, <1>6, PartFits
<1>3. OuterFits(q.parent, Info[t].parent, q.parent) <=> AsksOuter(q.parent, Info[t].parent)
  BY <1>1, <1>6, <1>7, OuterFitsIs
<1>4. OuterFits(q.ns, Info[t].ns, q.parent) <=> AsksOuter(q.ns, Info[t].ns)
  BY <1>1, <1>6, <1>7, OuterFitsIs
<1>5. WildMatch(q.path, Info[t].path) <=> Stands(q.path, Info[t].path)
  BY <1>1, WildMatchIs
<1> QED BY <1>2, <1>3, <1>4, <1>5, Zenon DEF TagFits, TagAsked

(***************************************************************************)
(* A search stops                                                          *)
(***************************************************************************)
\* The short names of a list go up.
Rising(l) == \A i, j \in 1 .. Len(l) :
                i < j => ~Before(Short(Info[l[j]].ident), Short(Info[l[i]].ident))

LEMMA SortedRising ==
    ASSUME NEW S, Named(S), NEW l \in Seq(S), Sorted(l)
    PROVE  Rising(l)
<1> SUFFICES ASSUME NEW i \in 1 .. Len(l), NEW j \in 1 .. Len(l), i < j,
                    Before(Short(Info[l[j]].ident), Short(Info[l[i]].ident))
             PROVE  FALSE
  BY DEF Rising
<1> DEFINE t == l[i]
           u == l[j]
           a == Short(Info[t].ident)
           b == Short(Info[u].ident)
<1>1. t \in S /\ u \in S
  OBVIOUS
<1>2. {Info[t].ident, Info[t].parent, Info[u].ident, Info[u].parent} \subseteq Seq(Nat)
  BY <1>1 DEF Named
<1>3. a \in Seq(Nat) /\ b \in Seq(Nat) /\ Before(b, a)
  BY <1>2, ShortTyped
<1>4. ~Before(a, b) /\ a # b
  BY <1>3, BeforeOneWay
<1>5. ~(After(t, u) /\ ~After(u, t))
  BY DEF Sorted
<1> HIDE DEF t, u
<1>6. Keys(t)[1] = a /\ Keys(u)[1] = b
  BY DEF Keys
<1>7. Keys(t) # Keys(u)
  BY <1>4, <1>6
<1>8. After(t, u) <=> ~After(u, t)
  BY <1>2, <1>7, AfterOneWay
<1>9. Min({i1 \in 1 .. 2 : Keys(t)[i1] # Keys(u)[i1]}) = 1
  <2> DEFINE D == {i1 \in 1 .. 2 : Keys(t)[i1] # Keys(u)[i1]}
  <2>1. D \in SUBSET Int /\ 1 \in D /\ \A x \in D : 1 <= x
    BY <1>4, <1>6
  <2> HIDE DEF D
  <2>2. Min(D) = 1
    BY <2>1, MinIs
  <2> QED BY <2>2 DEF D
<1>10. After(t, u) <=> Before(b, a)
  BY <1>6, <1>7, <1>9, Zenon DEF After
<1> QED BY <1>3, <1>5, <1>8, <1>10, Zenon

\* The entries at some positions of a list, in their order.
LEMMA EntriesAre ==
    ASSUME NEW S, NEW l \in Seq(S), NEW P \in SUBSET DOMAIN l
    PROVE  /\ EntriesAt(l, P) \in Seq(S)
           /\ ToSet(EntriesAt(l, P)) = {l[i] : i \in P}
           /\ Rising(l) => Rising(EntriesAt(l, P))
<1> DEFINE at == InOrder(P)
           m == EntriesAt(l, P)
<1>1. /\ m \in Seq(S) /\ Len(m) = Len(at)
      /\ \A k \in 1 .. Len(m) : at[k] \in P /\ at[k] \in 1 .. Len(l) /\ m[k] = l[at[k]]
      /\ \A i, j \in 1 .. Len(m) : i < j => at[i] < at[j]
      /\ ToSet(m) = {l[i] : i \in P}
  BY EntriesOf
<1> HIDE DEF at, m
<1>2. ASSUME Rising(l) PROVE Rising(m)
  <2> SUFFICES ASSUME NEW i \in 1 .. Len(m), NEW j \in 1 .. Len(m), i < j
               PROVE  ~Before(Short(Info[m[j]].ident), Short(Info[m[i]].ident))
    BY DEF Rising
  <2>1. m[i] = l[at[i]] /\ m[j] = l[at[j]] /\ at[i] \in 1 .. Len(l) /\ at[j] \in 1 .. Len(l)
    BY <1>1
  <2>2. at[i] < at[j]
    BY <1>1
  <2> QED BY <1>2, <2>1, <2>2, Zenon DEF Rising
<1> QED BY <1>1, <1>2 DEF m

\* A prefix that is before another one decides.
LEMMA BeforePrefix ==
    ASSUME NEW s \in Seq(Nat), NEW t \in Seq(Nat), NEW n \in Nat, n <= Len(s), n <= Len(t),
           Before(SubSeq(s, 1, n), SubSeq(t, 1, n))
    PROVE  Before(s, t)
<1> DEFINE u == SubSeq(s, 1, n)
           v == SubSeq(t, 1, n)
<1>1. /\ u \in Seq(Nat) /\ v \in Seq(Nat) /\ Len(u) = n /\ Len(v) = n
      /\ \A k \in 1 .. n : u[k] = s[k] /\ v[k] = t[k]
      /\ Len(s) \in Nat /\ Len(t) \in Nat
  OBVIOUS
<1> HIDE DEF u, v
<1>2. PICK m \in Nat : BeforeAt(u, v, m)
  BY <1>1, BeforeIsAt DEF u, v
<1>3. m < n /\ m + 1 \in 1 .. n /\ u[m + 1] < v[m + 1] /\ \A k \in 1 .. m : u[k] = v[k]
  BY <1>1, <1>2 DEF BeforeAt
<1>4. \A k \in 1 .. m : s[k] = t[k]
  <2>1. \A k \in 1 .. m : k \in 1 .. n
    BY <1>3
  <2> QED BY <1>1, <1>3, <2>1, Zenon
<1>5. s[m + 1] < t[m + 1] /\ m \in 0 .. Len(s) /\ m <= Len(t) /\ m < Len(t)
  <2>1. s[m + 1] < t[m + 1]
    BY <1>1, <1>3, Zenon
  <2> DEFINE a == Len(s)
             b == Len(t)
  <2>2. a \in Nat /\ b \in Nat /\ n <= a /\ n <= b /\ m < n
    BY <1>1, <1>3
  <2> HIDE DEF a, b
  <2>3. m \in 0 .. a /\ m <= b /\ m < b
    BY ONLY <2>2, m \in Nat, n \in Nat
  <2> QED BY <2>1, <2>3 DEF a, b
<1>6. BeforeAt(s, t, m)
  BY <1>4, <1>5 DEF BeforeAt
<1> QED BY <1>6, BeforeIsAt

\* The names of a language like C.
IsName(s) == /\ s \in Seq(Nat)
             /\ s # << >> => s[1] \in Letters \cup Digits \cup Symbols

\* A name past the text of a part is not before one that begins with it, unless the
\* text counts as it is and begins with an underscore.
LEMMA PastIsAfter ==
    ASSUME NEW p, IsPart(p), HasText(p),
           ~((p.exact \/ p.case) /\ p.text[1] = Underscore),
           NEW s, IsName(s), NEW t, IsName(t),
           Past(p, Checked(p, t)), Asks(p, s)
    PROVE  Before(Short(s), Short(t))
<1> DEFINE text == p.text
           n == Len(text)
<1>1. /\ text \in Seq(Nat) /\ text # << >> /\ p.exact \in BOOLEAN /\ p.case \in BOOLEAN
      /\ p.exact \/ p.case \/ \A i \in 1 .. n : text[i] \notin Upper
  BY DEF IsPart, HasText
<1>2. s \in Seq(Nat) /\ t \in Seq(Nat) /\ Short(s) \in Seq(Nat) /\ Short(t) \in Seq(Nat)
  BY ShortIs DEF IsName
<1>3. n \in Nat /\ n >= 1 /\ Len(s) \in Nat /\ Len(t) \in Nat /\ text[1] \in Nat
  BY <1>1, <1>2
<1>4. /\ Len(Checked(p, s)) >= n
      /\ Folded(p, SubSeq(Checked(p, s), 1, n)) = Folded(p, text)
  BY AsksIs
<1>5. CASE ~p.exact /\ ~p.case
  <2> DEFINE a == Short(s)
             b == Short(t)
             head == SubSeq(a, 1, n)
  <2>1. Checked(p, s) = a /\ Checked(p, t) = b
    BY <1>5, Zenon DEF Checked
  <2>2. Len(b) >= n /\ Before(text, SubSeq(b, 1, n))
    BY <1>3, <1>5, <2>1 DEF Past, LengthFits
  <2>3. Len(a) >= n /\ Lower(head) = Lower(text)
    BY <1>4, <1>5, <2>1 DEF Folded
  <2>4. \A i \in 1 .. Len(a) : a[i] \notin Upper
    BY <1>2, ShortIs
  <2> HIDE DEF a, b
  <2>5. a \in Seq(Nat) /\ b \in Seq(Nat) /\ Len(a) \in Nat /\ Len(b) \in Nat
    BY <1>2 DEF a, b
  <2>6. head \in Seq(Nat) /\ \A i \in 1 .. Len(head) : head[i] \notin Upper
    <3>1. head \in Seq(Nat) /\ Len(head) = n /\ \A i \in 1 .. n : head[i] = a[i]
      BY <1>3, <2>3, <2>5, SMTT(30)
    <3> QED BY <1>3, <2>3, <2>4, <2>5, <3>1
  <2>7. head = text
    <3> HIDE DEF head
    <3>1. Lower(head) = head
      BY <2>6, LowerSame
    <3>2. Lower(text) = text
      BY <1>1, <1>5, LowerSame
    <3> QED BY <2>3, <3>1, <3>2
  <2>8. Before(a, b)
    <3>1. n <= Len(a) /\ n <= Len(b)
      BY <1>3, <2>2, <2>3, <2>5
    <3> HIDE DEF n
    <3> QED BY <1>3, <2>2, <2>5, <2>7, <3>1, BeforePrefix
  <2> QED BY <2>8 DEF a, b
<1>6. CASE p.exact \/ p.case
  <2>1. Checked(p, s) = s /\ Checked(p, t) = t
    BY <1>6, Zenon DEF Checked
  <2>2. Len(s) >= n /\ Len(t) >= n
    BY <1>3, <1>4, <1>6, <2>1 DEF Past, LengthFits
  <2>3. LowerChar(text[1]) < LowerChar(t[1]) /\ t[1] \notin Symbols
    BY <1>6, <2>1 DEF Past, PastLetter
  <2>4. LowerChar(s[1]) = LowerChar(text[1])
    <3> DEFINE head == SubSeq(s, 1, n)
    <3>1. head \in Seq(Nat) /\ Len(head) = n /\ head[1] = s[1]
      BY <1>2, <1>3, <2>2, SMTT(30)
    <3>2. Folded(p, head) = Folded(p, text)
      BY <1>4, <2>1
    <3> HIDE DEF head
    <3>3. Lower(head)[1] = LowerChar(head[1]) /\ Lower(text)[1] = LowerChar(text[1])
      <4>1. 1 \in 1 .. Len(head) /\ 1 \in 1 .. Len(text)
        BY <1>3, <3>1
      <4> QED BY <1>1, <3>1, <4>1, LowerIs
    <3> QED BY <3>1, <3>2, <3>3 DEF Folded
  <2>5. s # << >> /\ t # << >>
    BY <1>3, <2>2
  <2>6. s[1] \in Letters \cup Digits \cup Symbols /\ t[1] \in Letters \cup Digits
    BY <2>3, <2>5 DEF IsName
  <2>7. s[1] \in Nat /\ t[1] \in Nat /\ text[1] \in Nat
    BY <1>2, <1>3, <2>2, SMTT(30)
  <2>8. s[1] \in Letters \cup Digits
    <3> SUFFICES ASSUME s[1] \in Symbols PROVE FALSE
      BY <2>6
    <3>1. text[1] # Underscore
      BY <1>6
    <3> DEFINE x == s[1]
               y == t[1]
               z == text[1]
    <3>2. x \in {95, 126} /\ z # 95 /\ LowerChar(x) = LowerChar(z) /\ LowerChar(z) < LowerChar(y)
      BY <2>3, <2>4, <3>1 DEF Symbols, Underscore, Tilde
    <3>3. y \in Nat /\ z \in Nat /\ y \in (65 .. 90) \cup (97 .. 122) \cup (48 .. 57)
      BY <2>6, <2>7 DEF Letters, Digits, Upper
    <3> HIDE DEF x, y, z
    <3>4. LowerChar(y) <= 122
      BY ONLY <3>3 DEF LowerChar, Upper
    <3>5. LowerChar(x) = x
      BY ONLY <3>2 DEF LowerChar, Upper
    <3>6. x = 95 => FALSE
      BY ONLY <3>2, <3>3, <3>5 DEF LowerChar, Upper
    <3>7. LowerChar(y) \in Nat
      BY ONLY <3>3 DEF LowerChar, Upper
    <3> QED BY ONLY <3>2, <3>4, <3>5, <3>6, <3>7
  <2>9. /\ Len(Short(s)) # 0 /\ Short(s)[1] = LowerChar(s[1])
        /\ Len(Short(t)) # 0 /\ Short(t)[1] = LowerChar(t[1])
    BY <1>2, <2>5, <2>6, <2>8, ShortIs
  <2>10. BeforeAt(Short(s), Short(t), 0)
    <3> DEFINE a == Short(s)
               b == Short(t)
    <3>1. a \in Seq(Nat) /\ b \in Seq(Nat) /\ Len(a) # 0 /\ Len(b) # 0 /\ a[1] < b[1]
      BY <1>2, <2>3, <2>4, <2>9
    <3> HIDE DEF a, b
    <3>2. Len(a) \in Nat /\ Len(b) \in Nat
      BY <3>1
    <3>3. BeforeAt(a, b, 0)
      BY <3>1, <3>2 DEF BeforeAt
    <3> QED BY <3>3 DEF a, b
  <2> QED BY <1>2, <2>10, BeforeIsAt
<1> QED BY <1>5, <1>6

(***************************************************************************)
(* What is typed                                                           *)
(***************************************************************************)
LEMMA TypedIs ==
    ASSUME NEW text \in Seq(Nat), NEW subs \in Seq(Seq(Nat))
    PROVE  IsPart(Typed(text, subs))
<1> DEFINE case == \E s \in {text} \cup ToSet(subs) : ToSet(s) \cap Upper # {}
           C == Letters \cup Digits \cup IF case THEN Symbols \cup {Colon} ELSE {}
           kept(s) == Sifted(s, C)
           p == Typed(text, subs)
<1>1. p = [text |-> kept(text), exact |-> FALSE, case |-> case,
           subs |-> [k \in DOMAIN subs |-> kept(subs[k])]]
  BY Zenon DEF Typed
<1>2. \A s \in Seq(Nat) : SiftedOK(s, C, kept(s), Len(s))
  <2> HIDE DEF C
  <2> QED BY SiftedIs
<1> HIDE DEF C, p
<1>3. p.text = kept(text) /\ p.exact = FALSE /\ p.case = case
      /\ p.subs = [k \in DOMAIN subs |-> kept(subs[k])]
  <2> HIDE DEF case, kept
  <2> QED BY <1>1
<1>4. kept(text) \in Seq(Nat) /\ \A i \in 1 .. Len(kept(text)) :
                                    \E j \in 1 .. Len(text) : kept(text)[i] = text[j]
  BY <1>2 DEF SiftedOK
<1>5. \A k \in DOMAIN subs : kept(subs[k]) \in Seq(Nat)
  <2>1. \A k \in DOMAIN subs : subs[k] \in Seq(Nat)
    OBVIOUS
  <2> HIDE DEF kept
  <2>2. \A s \in Seq(Nat) : kept(s) \in Seq(Nat)
    BY <1>2 DEF SiftedOK
  <2> QED BY <2>1, <2>2
<1>6. p.subs \in Seq(Seq(Nat)) /\ Len(p.subs) = Len(subs)
  <2> HIDE DEF kept
  <2> DEFINE f == [k \in DOMAIN subs |-> kept(subs[k])]
  <2>1. DOMAIN subs = 1 .. Len(subs) /\ Len(subs) \in Nat
    OBVIOUS
  <2>2. f \in [1 .. Len(subs) -> Seq(Nat)]
    BY <1>5, <2>1
  <2>3. f \in Seq(Seq(Nat)) /\ Len(f) = Len(subs)
    <3> DEFINE n == Len(subs)
    <3>1. n \in Nat /\ f \in [1 .. n -> Seq(Nat)]
      BY <2>1, <2>2
    <3> HIDE DEF f, n
    <3>2. f \in Seq(Seq(Nat)) /\ Len(f) = n
      BY ONLY <3>1, SMTT(30)
    <3> QED BY <3>2 DEF n
  <2> QED BY <1>3, <2>3
<1>7. case \/ \A i \in DOMAIN p.text : p.text[i] \notin Upper
  <2> SUFFICES ASSUME ~case PROVE \A i \in DOMAIN p.text : p.text[i] \notin Upper
    OBVIOUS
  <2>1. ToSet(text) \cap Upper = {}
    BY Zenon
  <2>2. \A j \in 1 .. Len(text) : text[j] \in ToSet(text)
    BY ToSetOfSeq
  <2>3. DOMAIN kept(text) = 1 .. Len(kept(text))
    BY <1>4
  <2> HIDE DEF kept, case
  <2> QED BY <1>3, <1>4, <2>1, <2>2, <2>3
<1>8. case \in BOOLEAN
  BY Zenon
<1> HIDE DEF kept, case
<1> QED BY <1>3, <1>4, <1>6, <1>7, <1>8, Zenon DEF IsPart, p

LEMMA ExactlyIs ==
    ASSUME NEW text \in Seq(Nat), text # << >>
    PROVE  IsPart(Exactly(text))
<1> DEFINE p == Exactly(text)
<1>1. p.text = text /\ p.exact = TRUE /\ p.case = TRUE /\ p.subs = << >>
  BY DEF Exactly
<1>2. << >> \in Seq(Seq(Nat)) /\ ~(Len(<< >>) > 1)
  OBVIOUS
<1> HIDE DEF p
<1>3. IsPart(p)
  BY <1>1, <1>2, Zenon DEF IsPart
<1> QED BY <1>3 DEF p

LEMMA NoPartIs == IsPart(NoPart)
<1>1. NoPart.text = << >> /\ NoPart.exact = FALSE /\ NoPart.case = FALSE /\ NoPart.subs = << >>
  BY DEF NoPart
<1>2. << >> \in Seq(Seq(Nat)) /\ << >> \in Seq(Nat) /\ ~(Len(<< >>) > 1) /\ DOMAIN << >> = {}
  OBVIOUS
<1> QED BY <1>1, <1>2 DEF IsPart

LEMMA QueryIs ==
    ASSUME NEW a, NEW b, NEW c, NEW d, IsPart(a), IsPart(b), IsPart(c)
    PROVE  IsQuery(Query(a, b, c, d))
<1>1. << >> \in Seq(Nat)
  OBVIOUS
<1> QED BY <1>1 DEF IsQuery, Query

\* The searches for the word at the caret are queries.
LEMMA AttemptsAre ==
    ASSUME NEW wd, wd.scope \in Seq(Nat), wd.ident \in Seq(Nat) \ {<< >>},
           NEW n \in DOMAIN Attempts(wd)
    PROVE  IsQuery(Attempts(wd)[n])
<1> DEFINE scope == wd.scope
           ident == wd.ident
           qualified == scope \o <<Colon, Colon>>
           partly == Typed(<< >>, <<<<Colon, Colon>> \o scope>>)
           full == qualified \o ident
<1>1. <<Colon, Colon>> \in Seq(Nat) /\ << >> \in Seq(Nat) /\ << >> \in Seq(Seq(Nat))
      /\ Len(<< >>) <= 1
  BY DEF Colon
<1>2. IsPart(Exactly(ident)) /\ IsPart(NoPart) /\ IsPart(Typed(ident, << >>))
  BY <1>1, ExactlyIs, NoPartIs, TypedIs
<1>3. CASE scope = << >>
  <2>1. Attempts(wd) = <<Query(Exactly(ident), NoPart, NoPart, Types)>>
    BY <1>3, Zenon DEF Attempts
  <2>2. IsQuery(Query(Exactly(ident), NoPart, NoPart, Types))
    BY <1>2, QueryIs
  <2>3. n = 1
    BY <2>1
  <2>4. Attempts(wd)[1] = Query(Exactly(ident), NoPart, NoPart, Types)
    BY <2>1
  <2> QED BY <2>2, <2>3, <2>4
<1>4. CASE scope # << >>
  <2>1. qualified \in Seq(Nat)
    BY <1>1
  <2>2. full \in Seq(Nat) /\ full # << >>
    <3> DEFINE q == qualified
               i == ident
    <3>1. q \in Seq(Nat) /\ i \in Seq(Nat) /\ i # << >>
      BY <2>1
    <3> HIDE DEF q, i
    <3>2. q \o i \in Seq(Nat) /\ Len(q \o i) = Len(q) + Len(i) /\ Len(q) \in Nat /\ Len(i) \in Nat
          /\ Len(i) # 0
      BY <3>1
    <3>3. q \o i # << >>
      BY <3>2
    <3> QED BY <3>2, <3>3 DEF q, i
  <2>3. IsPart(partly)
    <3> DEFINE s == <<Colon, Colon>> \o scope
    <3>1. s \in Seq(Nat)
      BY <1>1
    <3> HIDE DEF s
    <3>2. <<s>> \in Seq(Seq(Nat)) /\ Len(<<s>>) <= 1
      BY <3>1
    <3>3. IsPart(Typed(<< >>, <<s>>))
      BY <1>1, <3>2, TypedIs
    <3> QED BY <3>3 DEF s
  <2>4. IsPart(Exactly(scope)) /\ IsPart(Exactly(full))
    BY <1>4, <2>2, ExactlyIs
  <2> DEFINE a1 == Query(Exactly(full), NoPart, NoPart, Types)
             a2 == Query(Exactly(ident), Exactly(scope), NoPart, Types)
             a3 == Query(Exactly(ident), partly, NoPart, Types)
             a4 == Query(Exactly(ident), NoPart, Exactly(scope), Types)
             a5 == Query(Typed(ident, << >>), NoPart, partly, Types)
  <2>5. Attempts(wd) = <<a1, a2, a3, a4, a5>>
    BY <1>4, Zenon DEF Attempts
  <2> HIDE DEF partly, full
  <2>6. IsQuery(a1) /\ IsQuery(a2) /\ IsQuery(a3) /\ IsQuery(a4) /\ IsQuery(a5)
    BY <1>2, <2>3, <2>4, QueryIs
  <2> HIDE DEF a1, a2, a3, a4, a5
  <2>7. n \in {1, 2, 3, 4, 5}
    BY <2>5
  <2>8. /\ Attempts(wd)[1] = a1 /\ Attempts(wd)[2] = a2 /\ Attempts(wd)[3] = a3
        /\ Attempts(wd)[4] = a4 /\ Attempts(wd)[5] = a5
    BY <2>5
  <2> QED BY <2>6, <2>7, <2>8, Zenon
<1> QED BY <1>3, <1>4

(***************************************************************************)
(* A search finds                                                          *)
(***************************************************************************)
\* The tags S as NamesAssumption has them.
TagNames(S) == \A t \in S : /\ {Info[t].ident, Info[t].parent, Info[t].ns} \subseteq Seq(Nat)
                            /\ IsName(Info[t].ident) /\ Info[t].path \in Seq(Nat \ {0})

\* A search that stops early finds all the same.
LEMMA MatchesAreAll ==
    ASSUME NEW S, TagNames(S), NEW l \in Seq(S), Rising(l), NEW q, IsQuery(q), NEW b,
           PlainQuery(q)
    PROVE  ToSet(Matches(l, q, b)) = {t \in ToSet(l) : Shown(t, q, b) /\ TagAsked(t, q)}
<1> DEFINE name(i) == Info[l[i]].ident
           shown == {i \in DOMAIN l : Shown(l[i], q, b)}
           stops == {i \in shown : HasText(q.name) /\ Past(q.name, Checked(q.name, name(i)))}
           P == {i \in shown : TagFits(l[i], q) /\ \A k \in stops : i < k}
<1>1. /\ DOMAIN l = 1 .. Len(l) /\ Len(l) \in Nat
      /\ \A i \in 1 .. Len(l) : l[i] \in S
  OBVIOUS
<1>2. \A i \in 1 .. Len(l) : /\ IsName(name(i))
                             /\ TagFits(l[i], q) <=> TagAsked(l[i], q)
  <2> SUFFICES ASSUME NEW i \in 1 .. Len(l)
               PROVE  IsName(name(i)) /\ (TagFits(l[i], q) <=> TagAsked(l[i], q))
    OBVIOUS
  <2> DEFINE t == l[i]
  <2>1. t \in S
    BY <1>1
  <2> HIDE DEF t
  <2>2. /\ {Info[t].ident, Info[t].parent, Info[t].ns} \subseteq Seq(Nat)
        /\ IsName(Info[t].ident) /\ Info[t].path \in Seq(Nat \ {0})
    BY <2>1, Zenon DEF TagNames
  <2>3. TagFits(t, q) <=> TagAsked(t, q)
    BY <2>2, TagFitsIs
  <2> QED BY <2>2, <2>3 DEF t
<1>3. Matches(l, q, b) = EntriesAt(l, P)
  BY Zenon DEF Matches
<1>4. ASSUME NEW i \in shown, TagFits(l[i], q), NEW k \in stops
      PROVE  i < k
  <2>1. i \in 1 .. Len(l) /\ k \in 1 .. Len(l)
    BY <1>1
  <2>2. HasText(q.name) /\ Past(q.name, Checked(q.name, name(k)))
    OBVIOUS
  <2>3. TextFits(q.name, Checked(q.name, name(i))) /\ Asks(q.name, name(i))
    BY <1>2, <1>4, <2>1, <2>2, Zenon DEF TagFits, TagAsked
  <2>4. k # i
    BY <2>2, <2>3, Zenon DEF TextFits
  <2>5. ~(k < i)
    <3> SUFFICES ASSUME k < i PROVE FALSE
      OBVIOUS
    <3>1. ~Before(Short(name(i)), Short(name(k)))
      BY <2>1, Zenon DEF Rising
    <3>2. IsName(name(i)) /\ IsName(name(k)) /\ IsPart(q.name)
      BY <1>2, <2>1 DEF IsQuery
    <3> DEFINE s == name(i)
               t == name(k)
               p == q.name
    <3>3. IsPart(p) /\ HasText(p) /\ ~((p.exact \/ p.case) /\ p.text[1] = Underscore)
      BY <2>2, <3>2, Zenon DEF PlainQuery
    <3>4. IsName(s) /\ IsName(t) /\ Past(p, Checked(p, t)) /\ Asks(p, s) /\ ~Before(Short(s), Short(t))
      BY <2>2, <2>3, <3>1, <3>2
    <3> HIDE DEF s, t, p
    <3> QED BY <3>3, <3>4, PastIsAfter
  <2> QED BY <1>1, <2>1, <2>4, <2>5
<1>5. P = {i \in DOMAIN l : Shown(l[i], q, b) /\ TagAsked(l[i], q)}
  <2>1. P = {i \in shown : TagFits(l[i], q)}
    BY <1>4, Zenon
  <2> HIDE DEF P
  <2> QED BY <1>1, <1>2, <2>1
<1>6. ToSet(EntriesAt(l, P)) = {l[i] : i \in P}
  <2>1. P \in SUBSET DOMAIN l
    OBVIOUS
  <2> HIDE DEF P
  <2> QED BY <2>1, EntriesAre
<1>7. ToSet(l) = {l[i] : i \in DOMAIN l}
  BY DEF ToSet
<1> HIDE DEF P
<1> QED BY <1>3, <1>5, <1>6, <1>7

\* The matches are those of the last search, in a list of the order of the sort.
SearchOK(S, b) ==
    /\ IsQuery(query.q) /\ query.list \in Seq(S) /\ Rising(query.list)
    /\ matches = Matches(query.list, query.q, b)
SearchInv == BuddyInv /\ (query = NoQuery \/ SearchOK(W.tags, tags.buddy))

LEMMA NamesHold ==
    ASSUME world \in DOMAIN Worlds
    PROVE  TagNames(W.tags) /\ Named(W.tags)
BY NamesAssumption DEF TagNames, Named, IsName, W

LEMMA ListRises ==
    ASSUME BuddyInv
    PROVE  tags.list \in Seq(W.tags) /\ Rising(tags.list)
<1>1. tags.list \in Seq(W.tags) /\ Sorted(tags.list) /\ Named(W.tags)
  BY NamesHold DEF BuddyInv, TagsInv, TagsOK, Distinct
<1> QED BY <1>1, SortedRising

LEMMA ScopesRise ==
    ASSUME BuddyInv, NEW l \in Scopes
    PROVE  l \in Seq(W.tags) /\ Rising(l)
<1> DEFINE ofAll(F) == {i \in DOMAIN tags.list : Info[tags.list[i]].file \in F}
<1>1. l = tags.list \/ \E F : l = EntriesAt(tags.list, ofAll(F))
  BY DEF Scopes
<1>2. tags.list \in Seq(W.tags) /\ Rising(tags.list)
  BY ListRises
<1>3. ASSUME NEW F
      PROVE  EntriesAt(tags.list, ofAll(F)) \in Seq(W.tags) /\ Rising(EntriesAt(tags.list, ofAll(F)))
  <2>1. ofAll(F) \in SUBSET DOMAIN tags.list
    OBVIOUS
  <2> HIDE DEF ofAll
  <2> QED BY <1>2, <2>1, EntriesAre
<1> QED BY <1>1, <1>2, <1>3

LEMMA NextSearchInv == SearchInv /\ [NavNext]_navVars => SearchInv'
<1> SUFFICES ASSUME SearchInv, [NavNext]_navVars PROVE SearchInv'
  OBVIOUS
<1>1. BuddyInv /\ BuddyInv'
  BY NextBuddyInv DEF SearchInv
<1>2. world \in DOMAIN Worlds /\ world' = world /\ W.tags' = W.tags
  BY <1>1, WorldStays DEF BuddyInv, TagsInv, W
<1>3. CASE query' = NoQuery
  BY <1>1, <1>3 DEF SearchInv
<1>4. ASSUME UNCHANGED <<tags, matches, query>> PROVE SearchInv'
  BY <1>1, <1>2, <1>4 DEF SearchInv, SearchOK
<1>5. ASSUME NEW q, IsQuery(q), NEW l \in Seq(W.tags), Rising(l),
             query' = [q |-> q, list |-> l], matches' = Matches(l, q, tags.buddy),
             tags'.buddy = tags.buddy
      PROVE  SearchInv'
  <2>1. query'.q = q /\ query'.list = l
    BY <1>5
  <2>2. SearchOK(W.tags, tags.buddy)'
    BY <1>2, <1>5, <2>1 DEF SearchOK
  <2> QED BY <1>1, <2>2 DEF SearchInv
<1>6. CASE RefreshTags \/ TagFlip
  BY <1>3, <1>6 DEF RefreshTags, TagFlip
<1>7. ASSUME NEW q \in W.queries, NEW l \in Scopes, Search(q, l) PROVE SearchInv'
  <2>1. IsQuery(q)
    BY <1>2, QueriesAssumption DEF W
  <2>2. l \in Seq(W.tags) /\ Rising(l)
    BY <1>1, ScopesRise
  <2>3. /\ query' = [q |-> q, list |-> l] /\ matches' = Matches(l, q, tags.buddy)
        /\ tags' = Linked(tags, matches')
    BY <1>7 DEF Search
  <2>4. tags'.buddy = tags.buddy
    BY <2>3, ListStays
  <2> QED BY <1>5, <2>1, <2>2, <2>3, <2>4
<1>8. ASSUME NEW wd \in W.words, NEW dialog, FindAtCursor(wd, dialog) PROVE SearchInv'
  <2> DEFINE found(n) == Matches(tags.list, Attempts(wd)[n], tags.buddy)
             hits == {n \in DOMAIN Attempts(wd) : found(n) # << >>}
             n == IF hits = {} THEN Len(Attempts(wd)) ELSE Min(hits)
  <2>1. /\ query' = [q |-> Attempts(wd)[n], list |-> tags.list]
        /\ matches' = Matches(tags.list, Attempts(wd)[n], tags.buddy)
        /\ \E S : tags' = Linked(Reread(S, tags), matches')
    BY <1>8, Zenon DEF FindAtCursor
  <2>2. wd.scope \in Seq(Nat) /\ wd.ident \in Seq(Nat) \ {<< >>}
    BY <1>2, QueriesAssumption DEF W
  <2>3. DOMAIN Attempts(wd) \in {{1}, 1 .. 5} /\ Len(Attempts(wd)) \in DOMAIN Attempts(wd)
    BY DEF Attempts
  <2>4. n \in DOMAIN Attempts(wd)
    <3>1. CASE hits = {}
      BY <2>3, <3>1
    <3>2. CASE hits # {}
      <4>1. hits \in SUBSET Nat /\ hits \in SUBSET Int /\ hits \subseteq DOMAIN Attempts(wd)
        BY <2>3
      <4> HIDE DEF hits
      <4>2. PICK m \in hits : \A k \in hits : m <= k
        BY <3>2, <4>1, MinExists
      <4>3. Min(hits) = m
        BY <4>1, <4>2, MinIs
      <4> QED BY <3>2, <4>1, <4>2, <4>3
    <3> QED BY <3>1, <3>2
  <2> HIDE DEF n
  <2>5. IsQuery(Attempts(wd)[n])
    BY <2>2, <2>4, AttemptsAre
  <2>6. tags'.buddy = tags.buddy
    BY <2>1, ListStays
  <2>7. tags.list \in Seq(W.tags) /\ Rising(tags.list)
    BY <1>1, ListRises
  <2> QED BY <1>5, <2>1, <2>5, <2>6, <2>7
<1>9. CASE \/ \E t \in All, declaration \in BOOLEAN : FindTagSelect(t, declaration)
           \/ TagFindNext \/ TagFindPrev
  BY <1>4, <1>9 DEF FindTagSelect, TagFindNext, TagFindPrev, Follow
<1>10. CASE FileFindNext \/ FileFindPrev \/ HeaderFlip \/ Others
  BY <1>4, <1>10 DEF FileFindNext, FileFindPrev, FileFind, HeaderFlip, Others, tagVars
<1>11. CASE UNCHANGED navVars
  BY <1>4, <1>11 DEF navVars
<1> QED BY <1>6, <1>7, <1>8, <1>9, <1>10, <1>11 DEF NavNext

LEMMA SearchInvHolds == NavSpec => []SearchInv
<1>1. NavInit => SearchInv
  BY InitBuddyInv DEF NavInit, SearchInv
<1> QED BY <1>1, NextSearchInv, PTL DEF NavSpec

\* MatchTag() stops at the first tag past the text it looks for, yet it finds all tags
\* of the list that the query asks for, whatever symbols and capitals their names have
\* and whatever order the sort gave tags of one name, for any plain query.
THEOREM SearchFindsAll == NavSpec => []MatchFindsAll
<1>1. SearchInv => MatchFindsAll
  <2> SUFFICES ASSUME SearchInv, query # NoQuery, PlainQuery(query.q)
               PROVE  ToSet(matches) =
                        {t \in ToSet(query.list) :
                           /\ Shown(t, query.q, tags.buddy) /\ Asks(query.q.name, Info[t].ident)
                           /\ AsksOuter(query.q.parent, Info[t].parent)
                           /\ AsksOuter(query.q.ns, Info[t].ns)
                           /\ query.q.path = << >> \/ Stands(query.q.path, Info[t].path)}
    BY Zenon DEF MatchFindsAll
  <2>1. SearchOK(W.tags, tags.buddy) /\ TagNames(W.tags)
    BY NamesHold DEF SearchInv, BuddyInv, TagsInv
  <2> DEFINE q == query.q
             l == query.list
  <2>2. IsQuery(q) /\ l \in Seq(W.tags) /\ Rising(l) /\ matches = Matches(l, q, tags.buddy)
    BY <2>1 DEF SearchOK
  <2>3. PlainQuery(q)
    OBVIOUS
  <2> HIDE DEF q, l
  <2>4. ToSet(matches) = {t \in ToSet(l) : Shown(t, q, tags.buddy) /\ TagAsked(t, q)}
    BY <2>1, <2>2, <2>3, MatchesAreAll
  <2> QED BY <2>4, Zenon DEF TagAsked, q, l
<1> QED BY <1>1, SearchInvHolds, PTL

(***************************************************************************)
(* The header flip                                                         *)
(***************************************************************************)
\* The extensions to flip to are those of the list, all but the file's own.
LEMMA FlipExtsAre ==
    ASSUME NEW f, f.ext \in ToSet(Exts)
    PROVE  /\ FlipExts(f) \in Seq(Nat) /\ ToSet(FlipExts(f)) \subseteq ToSet(Exts)
           /\ ToSet(Exts) \ {f.ext} \subseteq ToSet(FlipExts(f))
<1> DEFINE n == Len(Exts)
           P == {j \in 1 .. n : Exts[j] = f.ext}
           k == ExtIndex(f)
           at(d) == ((k + d - 1) % n) + 1
<1>1. Exts \in Seq(Nat) /\ n \in Nat /\ \A j \in 1 .. n : Exts[j] \in Nat
  BY ExtsAssumption
<1>2. k \in 1 .. n /\ Exts[k] = f.ext
  <2>1. P \in SUBSET Nat /\ P \in SUBSET Int /\ P # {}
    <3>1. \E j \in 1 .. n : Exts[j] = f.ext
      <4>1. DOMAIN Exts = 1 .. n
        BY <1>1
      <4> HIDE DEF n
      <4> QED BY <4>1, Zenon DEF ToSet
    <3> HIDE DEF n
    <3> QED BY <1>1, <3>1
  <2>2. PICK j \in P : \A i \in P : j <= i
    <3> HIDE DEF P
    <3> QED BY <2>1, MinExists
  <2>3. Min(P) = j
    <3> HIDE DEF P
    <3> QED BY <2>1, <2>2, MinIs
  <2>4. k = j
    <3>1. k = FirstOf(P)
      BY DEF ExtIndex
    <3> HIDE DEF P, k
    <3> QED BY <2>1, <2>3, <3>1 DEF FirstOf
  <2> HIDE DEF k
  <2> QED BY <2>2, <2>4
<1> HIDE DEF k
<1>3. FlipExts(f) = IF n = 1 THEN Exts ELSE [d \in 1 .. n - 1 |-> Exts[at(d)]]
  BY DEF FlipExts, k
<1>4. \A d \in 1 .. n - 1 : at(d) \in 1 .. n
  <2> SUFFICES ASSUME NEW d \in 1 .. n - 1 PROVE at(d) \in 1 .. n
    OBVIOUS
  <2> DEFINE m == k + d - 1
  <2>1. m \in Nat /\ n > 0
    BY <1>1, <1>2
  <2> HIDE DEF m, n
  <2>2. m % n \in 0 .. n - 1
    BY <1>1, <2>1
  <2>3. (m % n) + 1 \in 1 .. n
    BY <1>1, <2>2
  <2> QED BY <2>3 DEF m
<1>5. ASSUME NEW j \in 1 .. n, j # k PROVE \E d \in 1 .. n - 1 : at(d) = j
  <2> HIDE DEF n
  <2>1. CASE k < j
    <3> DEFINE d == j - k
               m == k + d - 1
    <3>1. d \in 1 .. n - 1 /\ m = j - 1
      BY <1>1, <1>2, <2>1
    <3>2. (j - 1) % n = j - 1
      BY <1>1
    <3>3. at(d) = j
      BY <1>1, <3>1, <3>2
    <3> QED BY <3>1, <3>3
  <2>2. CASE j < k
    <3> DEFINE d == j - k + n
    <3>1. d \in 1 .. n - 1 /\ k + d - 1 = (j - 1) + n
      BY <1>1, <1>2, <2>2
    <3>2. ((j - 1) + n) % n = j - 1
      <4> DEFINE i == j + 1
                 x == i + n - 2
      <4>1. i \in 1 .. n /\ i # 1 /\ i - 1 = j /\ x = (j - 1) + n
        BY <1>1, <1>2, <2>2
      <4> HIDE DEF i
      <4>7. (x % n) + 1 = i - 1
        BY ONLY <1>1, <4>1, AroundTheRing DEF x
      <4> HIDE DEF x
      <4>2. (((j - 1) + n) % n) + 1 = j
        BY ONLY <4>1, <4>7, Zenon
      <4> DEFINE m == ((j - 1) + n) % n
      <4>3. (j - 1) + n \in Nat /\ n > 0
        BY <1>1
      <4>4. m \in Nat
        BY <1>1, <4>3
      <4>5. m + 1 = j
        BY <4>2, Zenon
      <4> HIDE DEF m
      <4>6. m = j - 1
        BY <4>4, <4>5
      <4> QED BY <4>6 DEF m
    <3> DEFINE m == k + d - 1
    <3>3. m = (j - 1) + n
      BY <3>1
    <3> HIDE DEF d, m
    <3>4. m % n = j - 1
      BY <3>2, <3>3, Zenon
    <3>5. (m % n) + 1 = j
      BY <1>1, <3>4
    <3>6. at(d) = j
      BY <3>5 DEF m
    <3> QED BY <3>1, <3>6
  <2> QED BY <1>1, <1>2, <1>5, <2>1, <2>2
<1> HIDE DEF at
<1>6. CASE n = 1
  <2>1. FlipExts(f) = Exts
    BY <1>3, <1>6
  <2> QED BY <1>1, <2>1
<1>7. CASE n # 1
  <2> DEFINE e == [d \in 1 .. n - 1 |-> Exts[at(d)]]
  <2>1. FlipExts(f) = e
    BY <1>3, <1>7
  <2>2. n - 1 \in Nat
    BY <1>1, <1>2
  <2>3. e \in [1 .. n - 1 -> Nat]
    BY <1>1, <1>4
  <2>4. e \in Seq(Nat) /\ DOMAIN e = 1 .. n - 1
    BY <2>2, <2>3
  <2>5. ToSet(e) = {Exts[at(d)] : d \in 1 .. n - 1}
    BY <2>4 DEF ToSet
  <2>6. ToSet(Exts) = {Exts[j] : j \in 1 .. n}
    BY <1>1 DEF ToSet
  <2> HIDE DEF e
  <2>7. ToSet(e) \subseteq ToSet(Exts)
    BY <1>4, <2>5, <2>6
  <2>8. ToSet(Exts) \ {f.ext} \subseteq ToSet(e)
    BY <1>2, <1>5, <2>5, <2>6, Zenon
  <2> QED BY <2>1, <2>4, <2>7, <2>8
<1> QED BY <1>6, <1>7

\* A step of FindNext() leads to a file of the name or nowhere.
LEMMA NextOf ==
    ASSUME NEW l, IsFileList(l), NEW f, NEW j
    PROVE  FindNext(l, j, f) \in Variants(l, f) \cup {0}
<1> DEFINE V == Variants(l, f)
           A == {i \in V : i > j}
           B == {i \in V : i < j}
<1>1. V \in SUBSET Nat /\ V \in SUBSET Int
  BY DEF Variants
<1>2. FindNext(l, j, f) = IF A # {} THEN Min(A) ELSE IF B = {} THEN 0 ELSE Min(B)
  BY DEF FindNext, FirstOf
<1>3. ASSUME NEW S \in SUBSET V, S # {} PROVE Min(S) \in V
  <2>1. S \in SUBSET Nat /\ S \in SUBSET Int
    BY <1>1
  <2>2. PICK x \in S : \A y \in S : x <= y
    BY <1>3, <2>1, MinExists
  <2> QED BY <2>1, <2>2, MinIs
<1>4. A \in SUBSET V /\ B \in SUBSET V
  OBVIOUS
<1> HIDE DEF V, A, B
<1>5. FindNext(l, j, f) \in V \cup {0}
  BY <1>2, <1>3, <1>4
<1> QED BY <1>5 DEF V

WalkFrom(at, l, start, f) ==
    at = [k \in 0 .. Len(l) |->
             IF k = 0 THEN start
             ELSE IF at[k - 1] = 0 THEN 0 ELSE FindNext(l, at[k - 1], f)]

\* The steps exist.
LEMMA WalkIs ==
    ASSUME NEW l, IsFileList(l), NEW start \in 0 .. Len(l), NEW f
    PROVE  WalkFrom(Walk(l, start, f), l, start, f)
<1> DEFINE n == Len(l)
           V == 0 .. n
           onto(j) == IF j = 0 THEN 0 ELSE FindNext(l, j, f)
           step == [k \in 1 .. n |-> [j \in V |-> onto(j)]]
           Is(at) == at = [k \in 0 .. Len(l) |->
                              IF k = 0 THEN start
                              ELSE IF at[k - 1] = 0 THEN 0 ELSE FindNext(l, at[k - 1], f)]
<1>1. n \in Nat
  BY DEF IsFileList
<1>2. \A j \in V : onto(j) \in V
  <2>1. \A j : FindNext(l, j, f) \in Variants(l, f) \cup {0}
    BY NextOf
  <2>2. Variants(l, f) \cup {0} \subseteq V
    BY <1>1 DEF Variants
  <2>3. 0 \in V
    BY <1>1
  <2> HIDE DEF V
  <2> QED BY <2>1, <2>2, <2>3
<1>3. step \in [1 .. n -> [V -> V]]
  <2> HIDE DEF V, onto
  <2> QED BY <1>2
<1>4. PICK at \in [0 .. n -> V] : at[0] = start /\ \A k \in 1 .. n : at[k] = step[k][at[k - 1]]
  <2> HIDE DEF step, V, n
  <2>0. start \in V
    BY DEF V, n
  <2>1. PICK at \in [0 .. n -> V] : Stepped(at, n, start, step)
    BY <1>1, <1>3, <2>0, Stepwise
  <2> QED BY <2>1 DEF Stepped
<1>5. ASSUME NEW k \in 0 .. n
      PROVE  at[k] = IF k = 0 THEN start
                     ELSE IF at[k - 1] = 0 THEN 0 ELSE FindNext(l, at[k - 1], f)
  <2>1. CASE k = 0
    BY <1>4, <2>1
  <2>2. CASE k # 0
    <3>1. k \in 1 .. n /\ k - 1 \in 0 .. n
      BY <1>1, <2>2
    <3>2. at[k - 1] \in V
      BY <3>1
    <3>3. step[k][at[k - 1]] = onto(at[k - 1])
      <4> HIDE DEF V, n, onto
      <4> QED BY <3>1, <3>2
    <3> HIDE DEF step
    <3> QED BY <1>4, <2>2, <3>1, <3>3, Zenon
  <2> QED BY <2>1, <2>2
<1>6. Is(at)
  <2>1. at = [k \in 0 .. n |-> at[k]]
    BY <1>4, Zenon
  <2> QED BY <1>5, <2>1, Zenon
<1>7. \A g : Is(g) => Is(CHOOSE h : Is(h))
  BY Zenon
<1>8. Walk(l, start, f) = CHOOSE h : Is(h)
  BY Zenon DEF Walk
<1> QED BY <1>6, <1>7, <1>8, Zenon DEF WalkFrom

LEMMA WalkGoes ==
    ASSUME NEW l, IsFileList(l), NEW start \in 0 .. Len(l), NEW f, NEW at, WalkFrom(at, l, start, f)
    PROVE  /\ at[0] = start
           /\ \A k \in 1 .. Len(l) : at[k] = IF at[k - 1] = 0 THEN 0 ELSE FindNext(l, at[k - 1], f)
<1>1. Len(l) \in Nat
  BY DEF IsFileList
<1>2. ASSUME NEW m \in 0 .. Len(l)
      PROVE  at[m] = IF m = 0 THEN start
                     ELSE IF at[m - 1] = 0 THEN 0 ELSE FindNext(l, at[m - 1], f)
  BY Zenon DEF WalkFrom
<1>3. 0 \in 0 .. Len(l) /\ \A k \in 1 .. Len(l) : k \in 0 .. Len(l) /\ k # 0
  BY <1>1
<1> QED BY <1>2, <1>3

\* From a file that is not the only one of its name, they are those to its next file.
LEMMA WalkOfName ==
    ASSUME NEW l, IsFileList(l), NEW f, NEW i \in Variants(l, f), Variants(l, f) # {i},
           NEW at, WalkFrom(at, l, i, f)
    PROVE  StepsFrom(at, l, i)
<1> DEFINE n == Len(l)
           V == Variants(l, f)
<1>1. n \in Nat /\ V \in SUBSET (1 .. n) /\ i \in V /\ i \in 0 .. n
  <2>1. n \in Nat
    BY DEF IsFileList
  <2>2. V \in SUBSET (1 .. n)
    BY DEF Variants
  <2> QED BY <2>1, <2>2
<1>2. ASSUME NEW j \in V
      PROVE  FindNext(l, j, f) = NextFile(l, l[j]) /\ NextFile(l, l[j]) \in V
  <2>1. j \in 1 .. Len(l) /\ Variants(l, l[j]) = V
    BY <1>1, SameVariants
  <2>2. NextFile(l, l[j]) = FindNext(l, j, l[j])
    BY <2>1, NextOfName
  <2>3. FindNext(l, j, l[j]) = FindNext(l, j, f)
    BY <2>1, Zenon DEF FindNext
  <2>4. V # {j}
    BY <1>1, Zenon
  <2>5. NextFile(l, l[j]) \in V
    BY <2>1, <2>4, NeighboursOfName
  <2> QED BY <2>2, <2>3, <2>5
<1>3. /\ at[0] = i
      /\ \A k \in 1 .. n : at[k] = IF at[k - 1] = 0 THEN 0 ELSE FindNext(l, at[k - 1], f)
  BY <1>1, WalkGoes
<1>4. at = [k \in 0 .. n |-> at[k]]
  BY Zenon DEF WalkFrom
<1> HIDE DEF n, V
<1>5. \A k \in 0 .. n : at[k] \in V
  <2> DEFINE A == {k \in 0 .. n : at[k] \in V}
  <2>1. 0 \in A
    BY <1>1, <1>3
  <2>2. \A k \in 0 .. n : k \in A /\ k # n => k + 1 \in A
    <3> SUFFICES ASSUME NEW k \in 0 .. n, at[k] \in V, k # n
                 PROVE  k + 1 \in 0 .. n /\ at[k + 1] \in V
      OBVIOUS
    <3>1. k + 1 \in 1 .. n /\ k + 1 \in 0 .. n /\ (k + 1) - 1 = k
      BY <1>1
    <3>2. at[k] # 0
      BY <1>1
    <3> QED BY <1>2, <1>3, <3>1, <3>2
  <2>3. 0 .. n \subseteq A
    <3> HIDE DEF A
    <3> QED BY <1>1, <2>1, <2>2, Upward
  <2> QED BY <2>3
<1>6. ASSUME NEW k \in 0 .. n
      PROVE  at[k] = IF k = 0 THEN i
                     ELSE IF at[k - 1] = 0 THEN 0 ELSE NextFile(l, l[at[k - 1]])
  <2>1. CASE k = 0
    BY <1>3, <2>1
  <2>2. CASE k # 0
    <3>1. k \in 1 .. n /\ k - 1 \in 0 .. n
      BY <1>1, <2>2
    <3>2. at[k - 1] \in V
      BY <1>5, <3>1
    <3>3. FindNext(l, at[k - 1], f) = NextFile(l, l[at[k - 1]])
      BY <1>2, <3>2
    <3> QED BY <1>3, <2>2, <3>1, <3>3
  <2> QED BY <2>1, <2>2
<1> QED BY <1>4, <1>6, Zenon DEF StepsFrom, n

\* Each other file of the name is reached before the start is again.
LEMMA ReachedFirst ==
    ASSUME NEW l, IsFileList(l), NEW f, NEW i \in Variants(l, f), NEW v \in Variants(l, f), v # i,
           NEW at, WalkFrom(at, l, i, f)
    PROVE  \E k \in 1 .. Len(l) : at[k] = v /\ \A m \in 1 .. k : at[m] \notin {0, i}
<1> DEFINE n == Len(l)
           V == Variants(l, f)
           K == {k \in 0 .. n : at[k] = v}
<1>1. n \in Nat /\ V \in SUBSET (1 .. n) /\ i \in 1 .. n
  <2>1. n \in Nat
    BY DEF IsFileList
  <2>2. V \in SUBSET (1 .. n)
    BY DEF Variants
  <2> QED BY <2>1, <2>2
<1>2. V # {i}
  BY Zenon
<1>3. StepsFrom(at, l, i)
  BY <1>2, WalkOfName
<1>4. {at[k] : k \in 0 .. n} = V
  <2>1. Variants(l, l[i]) = V
    BY SameVariants
  <2> QED BY <1>1, <1>2, <1>3, <2>1, AroundName
<1>5. /\ at[0] = i
      /\ \A k \in 1 .. n : at[k] = IF at[k - 1] = 0 THEN 0 ELSE FindNext(l, at[k - 1], f)
  BY <1>1, WalkGoes
<1>6. PICK k \in K : \A m \in K : k <= m
  <2>1. K \in SUBSET Nat /\ K # {}
    BY <1>1, <1>4
  <2> HIDE DEF K
  <2> QED BY <2>1, MinExists
<1>7. k \in 1 .. n /\ at[k] = v
  BY <1>1, <1>5, <1>6
<1>8. ASSUME NEW m \in 1 .. k PROVE at[m] # 0
  <2>1. m \in 0 .. n /\ at[m] \in V
    BY <1>1, <1>4, <1>7
  <2> QED BY <1>1, <2>1
<1>9. ASSUME NEW m \in 1 .. k, at[m] = i PROVE FALSE
  <2> DEFINE d == n - m
             A == {j \in 0 .. d : at[m + j] = at[j]}
  <2>1. d \in Nat /\ m \in Nat /\ m >= 1 /\ d + m = n /\ m <= k /\ k <= n
    BY <1>1, <1>7
  <2> HIDE DEF d
  <2>2. 0 \in A
    BY <1>5, <1>9, <2>1
  <2>3. ASSUME NEW j \in 0 .. d, j \in A, j # d PROVE j + 1 \in A
    <3>1. /\ j + 1 \in 0 .. d /\ j + 1 \in 1 .. n /\ (j + 1) - 1 = j
          /\ m + (j + 1) \in 1 .. n /\ (m + (j + 1)) - 1 = m + j
      BY <1>1, <2>1, <2>3
    <3>2. at[m + j] = at[j]
      BY <2>3
    <3>3. at[m + (j + 1)] = at[j + 1]
      BY <1>5, <3>1, <3>2
    <3> QED BY <3>1, <3>3
  <2>4. 0 .. d \subseteq A
    <3> HIDE DEF A
    <3> QED BY <2>1, <2>2, <2>3, Upward
  <2>5. k - m \in 0 .. d /\ m + (k - m) = k /\ k - m \in 0 .. n /\ k - m < k
    BY <1>1, <1>7, <2>1
  <2>6. at[k - m] = v
    BY <1>7, <2>4, <2>5
  <2>7. k - m \in K
    BY <2>5, <2>6
  <2>8. ~(k <= k - m)
    BY <1>7, <2>1
  <2> QED BY <1>6, <2>7, <2>8
<1> QED BY <1>7, <1>8, <1>9

\* FindExact() gives a position of the list or none.
LEMMA ExactIn ==
    ASSUME NEW l, IsFileList(l), NEW f
    PROVE  FindExact(l, f) \in 0 .. Len(l)
<1> DEFINE S == {i \in 1 .. Len(l) : /\ f.ext # NoExt => SameExt(f, l[i])
                                     /\ f.title = l[i].title /\ f.dir = l[i].dir}
<1>1. Len(l) \in Nat
  BY DEF IsFileList
<1>2. FindExact(l, f) = IF S = {} THEN 0 ELSE Min(S)
  BY DEF FindExact, FirstOf
<1>3. S \in SUBSET (1 .. Len(l))
  OBVIOUS
<1> HIDE DEF S
<1>4. CASE S = {}
  BY <1>1, <1>2, <1>4
<1>5. CASE S # {}
  <2>1. S \in SUBSET Nat /\ S \in SUBSET Int
    BY <1>3
  <2>2. PICK x \in S : \A y \in S : x <= y
    BY <1>5, <2>1, MinExists
  <2>3. Min(S) = x
    BY <2>1, <2>2, MinIs
  <2> QED BY <1>1, <1>2, <1>3, <1>5, <2>3
<1> QED BY <1>4, <1>5

\* Where a step of the flip leads to.
LEMMA FlipStepIs ==
    ASSUME NEW l, IsFileList(l), NEW f, NEW disk, NEW k \in FlipSteps(l, f, disk)
    PROVE  LET j == Walk(l, FindExact(l, f), f)[k]
           IN /\ k \in 1 .. Len(l) /\ j \in 1 .. Len(l) /\ j # FindExact(l, f)
              /\ l[j] \in ToSet(l) /\ l[j] \in disk /\ l[j].title = f.title
              /\ l[j].ext \in ToSet(FlipExts(f))
<1> DEFINE start == FindExact(l, f)
           at == Walk(l, start, f)
           n == Len(l)
           h == l[at[k]]
<1>1. n \in Nat /\ DOMAIN l = 1 .. n
  BY DEF IsFileList
<1>2. k \in 1 .. n /\ at[k] # 0 /\ at[k] # start /\ h.ext \in ToSet(FlipExts(f)) /\ h \in disk
  <2>1. /\ k \in 1 .. Len(l) /\ \A m \in 1 .. k : at[m] \notin {0, start}
        /\ h.ext \in ToSet(FlipExts(f)) /\ h \in disk
    BY Zenon DEF FlipSteps
  <2>2. k \in 1 .. k
    BY <1>1, <2>1
  <2> QED BY <2>1, <2>2
<1>3. start \in 0 .. n
  BY ExactIn
<1>4. at[k] = IF at[k - 1] = 0 THEN 0 ELSE FindNext(l, at[k - 1], f)
  <2>1. WalkFrom(at, l, start, f)
    BY <1>3, WalkIs
  <2> HIDE DEF at, start
  <2> QED BY <1>2, <1>3, <2>1, WalkGoes
<1>5. at[k] \in Variants(l, f)
  BY <1>2, <1>4, NextOf
<1> HIDE DEF at, start
<1>6. at[k] \in 1 .. n /\ h.title = f.title
  BY <1>5 DEF Variants, Base
<1>7. h \in ToSet(l)
  BY <1>1, <1>6 DEF ToSet
<1> QED BY <1>2, <1>6, <1>7 DEF at, start

\* A list without a file to flip to.
LEMMA FlipNowhere ==
    ASSUME NEW l, IsFileList(l), NEW f, NEW disk,
           \A h \in ToSet(l) \cap disk : ~(h.title = f.title /\ h.ext \in ToSet(FlipExts(f)))
    PROVE  FromFileList(l, f, disk) = << >>
<1>1. FlipSteps(l, f, disk) = {}
  BY FlipStepIs
<1> QED BY <1>1 DEF FromFileList

\* A list that has the file and, in its directory, one other file to flip to.
LEMMA FlipTo ==
    ASSUME NEW l, IsFileList(l), NEW f \in ToSet(l), NEW g \in ToSet(l), NEW disk,
           g # f, g.title = f.title, g.inner = f.inner, g.dir = f.dir,
           g.ext \in ToSet(FlipExts(f)), g \in disk,
           \A h \in ToSet(l) \cap disk :
              h.title = f.title /\ h.ext \in ToSet(FlipExts(f)) /\ h.dir = f.dir => h \in {f, g}
    PROVE  FromFileList(l, f, disk) = <<g>>
<1> DEFINE start == FindExact(l, f)
           at == Walk(l, start, f)
           good == FlipSteps(l, f, disk)
           near == {k \in good : l[at[k]].dir = f.dir}
           n == Len(l)
<1>1. /\ n \in Nat /\ DOMAIN l = 1 .. n
      /\ \E i \in 1 .. n : l[i] = f
      /\ \E i \in 1 .. n : l[i] = g
  <2>1. n \in Nat /\ DOMAIN l = 1 .. n
    BY DEF IsFileList
  <2> QED BY <2>1, Zenon DEF ToSet
<1>2. PICK i \in 1 .. n : l[i] = f
  BY <1>1
<1>3. PICK v \in 1 .. n : l[v] = g
  BY <1>1
<1>4. start = i /\ i \in 0 .. n
  BY <1>1, <1>2, FoundAtPlace
<1>5. i \in Variants(l, f) /\ v \in Variants(l, f) /\ v # i
  BY <1>2, <1>3 DEF Variants, Base
<1>6. WalkFrom(at, l, i, f)
  BY <1>4, WalkIs
<1>7. PICK k \in 1 .. n : at[k] = v /\ \A m \in 1 .. k : at[m] \notin {0, i}
  <2> HIDE DEF at
  <2> QED BY <1>5, <1>6, ReachedFirst
<1>8. k \in near
  <2>1. k \in good
    BY <1>3, <1>4, <1>7, Zenon DEF FlipSteps
  <2> HIDE DEF good
  <2> QED BY <1>3, <1>7, <2>1, Zenon
<1>9. ASSUME NEW m \in near PROVE l[at[m]] = g
  <2> DEFINE j == at[m]
             h == l[j]
  <2>1. /\ m \in good /\ h.dir = f.dir
    OBVIOUS
  <2>2. /\ j \in 1 .. n /\ j # start /\ h \in ToSet(l) /\ h \in disk /\ h.title = f.title
        /\ h.ext \in ToSet(FlipExts(f))
    BY <2>1, FlipStepIs
  <2> HIDE DEF j
  <2>3. h \in {f, g}
    BY <2>1, <2>2
  <2>4. h # f
    BY <1>4, <2>2, FoundAtPlace
  <2> QED BY <2>3, <2>4 DEF j
<1>10. near \in SUBSET Nat /\ near \in SUBSET Int
  <2>1. good \subseteq 1 .. n
    BY DEF FlipSteps
  <2> HIDE DEF good
  <2> QED BY <2>1
<1>11. FromFileList(l, f, disk)
          = IF good = {} THEN << >> ELSE <<l[at[Min(IF near # {} THEN near ELSE good)]]>>
  BY Zenon DEF FromFileList
<1>12. good # {}
  BY <1>8
<1> HIDE DEF near, good, at
<1>13. PICK m \in near : \A y \in near : m <= y
  BY <1>8, <1>10, MinExists
<1>14. Min(near) = m
  BY <1>10, <1>13, MinIs
<1> QED BY <1>8, <1>9, <1>11, <1>12, <1>14

\* A list gives one file to flip to or none.
LEMMA FlipOneOrNone ==
    ASSUME NEW l, NEW f, NEW disk
    PROVE  FromFileList(l, f, disk) = << >> \/ \E h : FromFileList(l, f, disk) = <<h>>
BY Zenon DEF FromFileList

\* The files beside are a list.
LEMMA SiblingsSeq ==
    ASSUME NEW f, f.ext \in ToSet(Exts), NEW disk
    PROVE  \E S : Siblings(f, disk) \in Seq(S)
<1> DEFINE n == Len(FlipExts(f))
           beside == [d \in 1 .. n |-> [f EXCEPT !.inner = NoExt, !.ext = FlipExts(f)[d]]]
           S == {beside[d] : d \in 1 .. n}
           P == {d \in DOMAIN beside : beside[d] \in disk}
<1>1. n \in Nat
  BY FlipExtsAre
<1>2. beside \in Seq(S)
  <2>1. beside = [d \in 1 .. n |-> beside[d]]
    OBVIOUS
  <2> HIDE DEF beside, n
  <2>2. beside \in [1 .. n -> S]
    BY <2>1
  <2> HIDE DEF S
  <2> QED BY <1>1, <2>2
<1>3. Siblings(f, disk) = EntriesAt(beside, P)
  BY Zenon DEF Siblings
<1>4. P \in SUBSET DOMAIN beside
  OBVIOUS
<1> HIDE DEF beside, S, P
<1>5. EntriesAt(beside, P) \in Seq(S)
  BY <1>2, <1>4, EntriesOf
<1> QED BY <1>3, <1>5

\* What comes first of four lists one after the other.
Leads(list, g) == list # << >> /\ list[1] = g
LEMMA FirstOfTwo ==
    ASSUME NEW S, NEW p \in Seq(S), NEW q \in Seq(S), NEW g, Leads(p, g)
    PROVE  p \o q \in Seq(S) /\ Leads(p \o q, g)
<1>1. /\ Len(p) \in Nat /\ Len(q) \in Nat /\ p \o q \in Seq(S)
      /\ Len(p \o q) = Len(p) + Len(q) /\ Len(p) # 0
  BY DEF Leads
<1>2. (p \o q)[1] = p[1]
  BY <1>1
<1>3. p \o q # << >>
  BY <1>1
<1> QED BY <1>1, <1>2, <1>3, Zenon DEF Leads

LEMMA FirstOfAll ==
    ASSUME NEW S, NEW a \in Seq(S), NEW b \in Seq(S), NEW c \in Seq(S), NEW d \in Seq(S), NEW g,
           Leads(a, g) \/ (a = << >> /\ Leads(b, g))
    PROVE  Leads(a \o b \o c \o d, g)
<1>1. a \o b \in Seq(S) /\ Leads(a \o b, g)
  <2>1. CASE Leads(a, g)
    BY <2>1, FirstOfTwo, Zenon
  <2>2. CASE a = << >> /\ Leads(b, g)
    <3>1. a \o b = b
      BY <2>2
    <3> QED BY <2>2, <3>1, Zenon
  <2> QED BY <2>1, <2>2
<1>2. (a \o b) \o c \in Seq(S) /\ Leads((a \o b) \o c, g)
  BY <1>1, FirstOfTwo, Zenon
<1> QED BY <1>2, FirstOfTwo, Zenon

\* A header and its source, alone of their name in their directory, flip to each other
\* in any list that has both: HeaderFlip() goes over the files of the name until it is
\* back at the start, takes the one in the same directory first, and comes to the other
\* lists only when the lists before them have none.
THEOREM FlipFindsPartner == NavSpec => []FlipsToPartner
<1>1. NavInit => world \in DOMAIN Worlds
  BY DEF NavInit
<1>2. world \in DOMAIN Worlds /\ [NavNext]_navVars => (world \in DOMAIN Worlds)'
  BY WorldStays
<1>3. world \in DOMAIN Worlds => FlipsToPartner
  <2> DEFINE files == ToSet(W.active) \cap W.disk
             mine == ToSet(W.project)
             f == At[here].file
             named == {h \in W.disk : h.title = f.title /\ h.ext \in ToSet(Exts)}
             from(l) == FromFileList(l, f, W.disk)
  <2> SUFFICES ASSUME world \in DOMAIN Worlds, here # NoText, f \in files,
                      f.inner = NoExt, f.ext # NoExt,
                      NEW g \in {h \in files : h.inner = NoExt} \ {f},
                      {h \in named : h.dir = f.dir} = {f, g},
                      named \cap mine = {} \/ {f, g} \subseteq mine
               PROVE  FlipTargets(W, f) # << >> /\ FlipTargets(W, f)[1] = g
    BY Zenon DEF FlipsToPartner
  <2>1. /\ IsFileList(W.active) /\ IsFileList(W.project)
    BY ListsAssumption DEF W
  <2>2. /\ f \in named /\ g \in named /\ f.dir = g.dir
        /\ g \in files /\ g.inner = NoExt /\ g # f
    <3> HIDE DEF named, files, f
    <3> QED OBVIOUS
  <2>3. /\ f \in W.disk /\ g \in W.disk /\ g.title = f.title
        /\ f.ext \in ToSet(Exts) /\ g.ext \in ToSet(Exts)
        /\ f \in ToSet(W.active) /\ g \in ToSet(W.active)
    BY <2>2
  <2>4. g.ext # f.ext
    <3>1. ASSUME NEW l, IsFileList(l), f \in ToSet(l), g \in ToSet(l), g.ext = f.ext PROVE FALSE
      <4>1. /\ DOMAIN l = 1 .. Len(l)
            /\ l \in Seq([dir : Nat, title : Nat, inner : Nat, ext : Nat])
        BY <3>1 DEF IsFileList
      <4>2. /\ f \in [dir : Nat, title : Nat, inner : Nat, ext : Nat]
            /\ g \in [dir : Nat, title : Nat, inner : Nat, ext : Nat]
        <5> HIDE DEF f
        <5> QED BY <3>1, <4>1, ToSetOfSeq, ZenonT(60)
      <4> HIDE DEF f
      <4> QED BY <2>2, <2>3, <3>1, <4>2
    <3> QED BY <2>1, <2>3, <3>1
  <2> HIDE DEF f
  <2>5. ToSet(FlipExts(f)) \subseteq ToSet(Exts) /\ g.ext \in ToSet(FlipExts(f))
    BY <2>3, <2>4, FlipExtsAre
  <2>6. ASSUME NEW h \in W.disk, h.title = f.title, h.ext \in ToSet(FlipExts(f))
        PROVE  h \in named /\ (h.dir = f.dir => h \in {f, g})
    <3>1. h \in named
      BY <2>5, <2>6
    <3> HIDE DEF named
    <3> QED BY <3>1
  <2>7. ASSUME NEW l, IsFileList(l), f \in ToSet(l), g \in ToSet(l)
        PROVE  from(l) = <<g>>
    <3>1. \A h \in ToSet(l) \cap W.disk :
             h.title = f.title /\ h.ext \in ToSet(FlipExts(f)) /\ h.dir = f.dir => h \in {f, g}
      BY <2>6
    <3>2. g.inner = f.inner
      BY <2>2
    <3> QED BY <2>2, <2>3, <2>5, <2>7, <3>1, <3>2, FlipTo
  <2>8. from(W.active) = <<g>>
    BY <2>1, <2>3, <2>7
  <2>9. from(W.project) = <<g>> \/ from(W.project) = << >>
    <3>1. CASE {f, g} \subseteq mine
      BY <2>1, <2>7, <3>1
    <3>2. CASE named \cap mine = {}
      <4>1. \A h \in ToSet(W.project) \cap W.disk :
               ~(h.title = f.title /\ h.ext \in ToSet(FlipExts(f)))
        BY <2>6, <3>2
      <4> QED BY <2>1, <4>1, FlipNowhere
    <3> QED BY <3>1, <3>2
  <2>10. FlipTargets(W, f)
            = from(W.project) \o from(W.active) \o Siblings(f, W.disk) \o from(W.global)
    <3>1. ExtIndex(f) # 0
      <4> DEFINE P == {k \in 1 .. Len(Exts) : Exts[k] = f.ext}
      <4>1. P \in SUBSET Nat /\ P \in SUBSET Int /\ P # {} /\ 0 \notin P
        <5>1. \E k \in 1 .. Len(Exts) : Exts[k] = f.ext
          BY <2>3, ExtsAssumption, ToSetOfSeq
        <5> QED BY <5>1, ExtsAssumption
      <4>2. ExtIndex(f) = FirstOf(P)
        BY DEF ExtIndex
      <4> HIDE DEF P
      <4>3. PICK j \in P : \A i \in P : j <= i
        BY <4>1, MinExists
      <4>4. Min(P) = j
        BY <4>1, <4>3, MinIs
      <4> QED BY <4>1, <4>2, <4>4 DEF FirstOf
    <3> QED BY <3>1, Zenon DEF FlipTargets, f
  <2> HIDE DEF from
  <2>11. PICK U : Siblings(f, W.disk) \in Seq(U)
    BY <2>3, SiblingsSeq
  <2>12. PICK e : from(W.global) = << >> \/ from(W.global) = <<e>>
    BY FlipOneOrNone DEF from
  <2> DEFINE T == U \cup {g, e}
  <2>13. /\ from(W.project) \in Seq(T) /\ from(W.active) \in Seq(T)
         /\ Siblings(f, W.disk) \in Seq(T) /\ from(W.global) \in Seq(T)
    <3>1. g \in T /\ e \in T /\ U \subseteq T
      OBVIOUS
    <3> HIDE DEF T
    <3>2. << >> \in Seq(T) /\ <<g>> \in Seq(T) /\ <<e>> \in Seq(T)
      BY <3>1
    <3>3. Siblings(f, W.disk) \in Seq(T)
      BY <2>11, <3>1
    <3> QED BY <2>8, <2>9, <2>12, <3>2, <3>3, Zenon
  <2> HIDE DEF T
  <2>14. Leads(<<g>>, g)
    BY DEF Leads
  <2> DEFINE p == from(W.project)
             q == from(W.active)
             r == Siblings(f, W.disk)
             s == from(W.global)
  <2>15. Leads(p \o q \o r \o s, g)
    <3>1. /\ p \in Seq(T) /\ q \in Seq(T) /\ r \in Seq(T) /\ s \in Seq(T)
          /\ Leads(p, g) \/ (p = << >> /\ Leads(q, g))
      BY <2>8, <2>9, <2>13, <2>14, Zenon
    <3> HIDE DEF p, q, r, s
    <3> QED BY ONLY <3>1, FirstOfAll, Zenon
  <2>16. Leads(FlipTargets(W, f), g)
    BY <2>10, <2>15, Zenon
  <2> QED BY <2>16, Zenon DEF f, Leads
<1> QED BY <1>1, <1>2, <1>3, PTL DEF NavSpec
=============================================================================
