--------------------------- MODULE WorkspaceProofs ---------------------------
(***************************************************************************)
(* Proofs about module Workspace: the reference counts of the files, the   *)
(* one File object of a name, and the lists that a refresh builds, for any *)
(* set of projects and any contents of their files without a cycle.        *)
(***************************************************************************)
EXTENDS Workspace, ProofLemmas

(***************************************************************************)
(* Counting the holders of a File object                                   *)
(***************************************************************************)
Bit(b) == IF b THEN 1 ELSE 0
FilesIn(prjs, p) == IF p \in DOMAIN prjs THEN prjs[p].files ELSE {}
Holding(prjs, o) == {p \in DOMAIN prjs : o \in prjs[p].files}
Mapped(map, o) == o[1] \in DOMAIN map /\ map[o[1]] = o

\* The number of holders, as a sum that the steps change term by term.
Count(prjs, map, all, active, o) ==
    Cardinality(Holding(prjs, o)) + Bit(Mapped(map, o)) + Bit(o \in all)
    + Bit(o \in active)

MapOK(map) == /\ DOMAIN map \subseteq Names
              /\ \A n \in DOMAIN map : map[n] \in Objects /\ map[n][1] = n

LEMMA BitType == \A b : Bit(b) \in {0, 1} /\ (b <=> Bit(b) = 1) /\ (~b <=> Bit(b) = 0)
BY DEF Bit

LEMMA HoldingFinite ==
    ASSUME NEW prjs, DOMAIN prjs \subseteq Projects, NEW o
    PROVE  IsFiniteSet(Holding(prjs, o)) /\ Cardinality(Holding(prjs, o)) \in Nat
<1>1. Holding(prjs, o) \subseteq Projects
  BY DEF Holding
<1> QED BY <1>1, WorkspaceAssumption, FS_Subset, FS_CardinalityType

\* What Holders says of a File object is this sum.
LEMMA HoldersCount ==
    ASSUME MapOK(globalMap), NEW o
    PROVE  Holders(o) = Count(projects, globalMap, fileList, activeList, o)
<1>1. ASSUME NEW x, NEW b
      PROVE  Cardinality({l \in {x} : b}) = Bit(b)
  <2>1. CASE b
    <3>1. {l \in {x} : b} = {x}
      BY <2>1
    <3> QED BY <2>1, <3>1, FS_Singleton DEF Bit
  <2>2. CASE ~b
    <3>1. {l \in {x} : b} = {}
      BY <2>2
    <3> QED BY <2>2, <3>1, FS_EmptySet DEF Bit
  <2> QED BY <2>1, <2>2
<1>2. Cardinality({n \in DOMAIN globalMap : globalMap[n] = o}) = Bit(Mapped(globalMap, o))
  <2>1. CASE Mapped(globalMap, o)
    <3>1. {n \in DOMAIN globalMap : globalMap[n] = o} = {o[1]}
      BY <2>1 DEF Mapped, MapOK
    <3> QED BY <2>1, <3>1, FS_Singleton DEF Bit
  <2>2. CASE ~Mapped(globalMap, o)
    <3>1. {n \in DOMAIN globalMap : globalMap[n] = o} = {}
      BY <2>2 DEF Mapped, MapOK
    <3> QED BY <2>2, <3>1, FS_EmptySet DEF Bit
  <2> QED BY <2>1, <2>2
<1>3. /\ Cardinality({l \in {"all"} : o \in fileList}) = Bit(o \in fileList)
      /\ Cardinality({l \in {"active"} : o \in activeList}) = Bit(o \in activeList)
  BY <1>1
<1> QED BY <1>2, <1>3 DEF Holders, Count, Holding

\* When one project's files change, the count changes by whether it holds the file.
LEMMA HoldingStep ==
    ASSUME NEW prjs, DOMAIN prjs \subseteq Projects, NEW o,
           NEW prjs2, DOMAIN prjs2 \subseteq Projects, NEW p \in Projects,
           \A q \in Projects \ {p} : FilesIn(prjs2, q) = FilesIn(prjs, q)
    PROVE  Cardinality(Holding(prjs2, o)) =
              Cardinality(Holding(prjs, o)) - Bit(o \in FilesIn(prjs, p))
                                            + Bit(o \in FilesIn(prjs2, p))
<1> DEFINE H == Holding(prjs, o)
           H2 == Holding(prjs2, o)
<1>1. IsFiniteSet(H) /\ Cardinality(H) \in Nat /\ IsFiniteSet(H2) /\ Cardinality(H2) \in Nat
  BY HoldingFinite
<1>2. H \ {p} = H2 \ {p}
  BY DEF Holding, FilesIn
<1>3. (p \in H <=> o \in FilesIn(prjs, p)) /\ (p \in H2 <=> o \in FilesIn(prjs2, p))
  BY DEF Holding, FilesIn
<1> DEFINE x == o \in FilesIn(prjs, p)
           x2 == o \in FilesIn(prjs2, p)
<1> HIDE DEF H, H2, x, x2
<1>4. Cardinality(H \ {p}) = Cardinality(H) - Bit(x)
  <2>1. Cardinality(H \ {p}) = IF p \in H THEN Cardinality(H) - 1 ELSE Cardinality(H)
    BY <1>1, FS_RemoveElement
  <2> QED BY <1>1, <1>3, <2>1 DEF Bit, x
<1>5. Cardinality(H2 \ {p}) = Cardinality(H2) - Bit(x2)
  <2>1. Cardinality(H2 \ {p}) = IF p \in H2 THEN Cardinality(H2) - 1 ELSE Cardinality(H2)
    BY <1>1, FS_RemoveElement
  <2> QED BY <1>1, <1>3, <2>1 DEF Bit, x2
<1>6. Bit(x) \in Nat /\ Bit(x2) \in Nat
  BY DEF Bit
<1>7. Cardinality(H2) = Cardinality(H) - Bit(x) + Bit(x2)
  BY <1>1, <1>2, <1>4, <1>5, <1>6
<1> QED BY <1>7 DEF H, H2, x, x2

LEMMA HoldingSame ==
    ASSUME NEW prjs, DOMAIN prjs \subseteq Projects, NEW o,
           NEW prjs2, DOMAIN prjs2 \subseteq Projects,
           \A q \in Projects : FilesIn(prjs2, q) = FilesIn(prjs, q)
    PROVE  Holding(prjs2, o) = Holding(prjs, o)
BY DEF Holding, FilesIn

(***************************************************************************)
(* The invariant of the File objects                                       *)
(***************************************************************************)
\* The list of active files may hold a File object of a name that RemoveAll() has
\* taken out of the global file map, but not two.
ActiveOnce == \A o, q \in activeList : o[1] = q[1] => o = q
CountsExact ==
    \A o \in Objects : refs[o] = Count(projects, globalMap, fileList, activeList, o)
ObjectsOK ==
    /\ MapOK(globalMap)
    /\ fileList \subseteq Objects /\ activeList \subseteq Objects
    /\ refs \in [Objects -> Nat]
FileInv == ObjectsOK /\ CountsExact /\ OneFilePerName /\ ActiveOnce

PrjOK == DOMAIN projects \subseteq Projects /\ \A p \in DOMAIN projects : projects[p] \in Project

\* A name that is not in the global file map has a File object that is not in use.
LEMMA FreeObject ==
    ASSUME PrjOK, FileInv, NEW n \in Names, n \notin DOMAIN globalMap
    PROVE  \E g \in {0, 1} : refs[<<n, g>>] = 0
<1>1. ASSUME NEW g \in {0, 1}, refs[<<n, g>>] # 0
      PROVE  <<n, g>> \in activeList
  <2> DEFINE o == <<n, g>>
  <2>1. o \in Objects /\ o[1] = n
    BY DEF Objects
  <2> HIDE DEF o
  <2>2. Holding(projects, o) = {} /\ o \notin fileList /\ ~Mapped(globalMap, o)
    BY <2>1 DEF FileInv, OneFilePerName, FilesOf, Holding, Mapped
  <2>3. Cardinality(Holding(projects, o)) = 0
    BY <2>2, FS_EmptySet
  <2>4. refs[o] = Bit(o \in activeList)
    BY <2>1, <2>2, <2>3 DEF FileInv, CountsExact, Count, Bit
  <2> QED BY <1>1, <2>4 DEF Bit, o
<1>2. ~(<<n, 0>> \in activeList /\ <<n, 1>> \in activeList)
  <2>1. <<n, 0>>[1] = <<n, 1>>[1] /\ <<n, 0>> # <<n, 1>>
    OBVIOUS
  <2> QED BY <2>1 DEF FileInv, ActiveOnce
<1> QED BY <1>1, <1>2

\* File::Create() keeps the map and the counts, whatever names are asked for.
LEMMA CreateKeeps ==
    ASSUME PrjOK, FileInv, NEW S \in SUBSET Names
    PROVE  /\ MapOK(Create(S).map) /\ DOMAIN Create(S).map = DOMAIN globalMap \cup S
           /\ \A n \in DOMAIN globalMap : Create(S).map[n] = globalMap[n]
           /\ DOMAIN Create(S).refs = Objects
           /\ \A o \in Objects :
                 Create(S).refs[o] = Count(projects, Create(S).map, fileList, activeList, o)
<1> DEFINE new == S \ DOMAIN globalMap
           fresh(n) == <<n, CHOOSE g \in {0, 1} : refs[<<n, g>>] = 0>>
           m == Create(S).map
           r == Create(S).refs
<1>1. /\ m = [n \in DOMAIN globalMap \cup S |-> IF n \in new THEN fresh(n) ELSE globalMap[n]]
      /\ r = AddRefs(refs, {fresh(n) : n \in new})
  BY DEF Create
<1>2. ASSUME NEW n \in new
      PROVE  fresh(n) \in Objects /\ fresh(n)[1] = n /\ refs[fresh(n)] = 0
  <2>1. \E g \in {0, 1} : refs[<<n, g>>] = 0
    BY FreeObject
  <2> DEFINE g == CHOOSE g \in {0, 1} : refs[<<n, g>>] = 0
  <2>2. g \in {0, 1} /\ refs[<<n, g>>] = 0
    BY <2>1
  <2>3. fresh(n) = <<n, g>>
    OBVIOUS
  <2> HIDE DEF g, fresh
  <2> QED BY <2>2, <2>3 DEF Objects
<1> HIDE DEF fresh, m, r
<1>3. /\ DOMAIN m = DOMAIN globalMap \cup S
      /\ \A n \in DOMAIN globalMap : m[n] = globalMap[n]
      /\ \A n \in new : m[n] = fresh(n)
  BY <1>1
<1>4. MapOK(m)
  BY <1>2, <1>3 DEF FileInv, ObjectsOK, MapOK
<1>5. ASSUME NEW o \in Objects
      PROVE  r[o] = Count(projects, m, fileList, activeList, o)
  <2>1. refs[o] = Count(projects, globalMap, fileList, activeList, o) /\ refs[o] \in Nat
    BY DEF FileInv, CountsExact, ObjectsOK
  <2>2. /\ Cardinality(Holding(projects, o)) \in Nat
        /\ \A b : Bit(b) \in {0, 1}
    BY HoldingFinite DEF PrjOK, Bit
  <2>3. CASE \E n \in new : o = fresh(n)
    <3>1. PICK n \in new : o = fresh(n)
      BY <2>3
    <3>2. Mapped(m, o) /\ ~Mapped(globalMap, o) /\ refs[o] = 0
      BY <1>2, <1>3, <3>1 DEF Mapped
    <3>3. r[o] = refs[o] + 1
      BY <1>1, <3>1 DEF AddRefs
    <3>4. Bit(Mapped(m, o)) = 1 /\ Bit(Mapped(globalMap, o)) = 0
      BY <3>2 DEF Bit
    <3> QED BY <2>1, <2>2, <3>3, <3>4 DEF Count
  <2>4. CASE ~\E n \in new : o = fresh(n)
    <3>1. r[o] = refs[o]
      BY <1>1, <2>4 DEF AddRefs
    <3>2. Mapped(m, o) <=> Mapped(globalMap, o)
      BY <1>3, <2>4 DEF Mapped
    <3>3. Bit(Mapped(m, o)) = Bit(Mapped(globalMap, o))
      BY <3>2 DEF Bit
    <3> QED BY <2>1, <3>1, <3>3 DEF Count
  <2> QED BY <2>3, <2>4
<1>6. DOMAIN r = Objects
  BY <1>1 DEF AddRefs
<1> QED BY <1>3, <1>4, <1>5, <1>6 DEF m, r

(***************************************************************************)
(* The invariant of the calls                                              *)
(***************************************************************************)
FlagsOK == open \in BOOLEAN /\ filesRefreshed \in BOOLEAN /\ quiet \in BOOLEAN
DiskOK ==
    /\ exists \in [Projects -> BOOLEAN]
    /\ DOMAIN mtime = Projects /\ \A p \in Projects : mtime[p] \in DOMAIN Lists[p]
    /\ pc \in {"idle", "adding", "extra", "refresh", "tags"}

\* A call for a project that a solution lists comes before that of the solution's
\* next one; the solution stays known until they have all been made, since none
\* of them leads back to it.
CallType == [name : Projects, active : BOOLEAN, noRefresh : BOOLEAN,
             lister : Solutions \cup {NoProject}, reading : BOOLEAN]
CallsAre(c, known) ==
    /\ c \in Seq(CallType)
    /\ \A i \in 1 .. Len(c) : c[i].lister # NoProject =>
          c[i].lister \in known /\ \A k \in 1 .. i : c[k].name < c[i].lister
    /\ \A i \in 1 .. Len(c) : c[i].reading => i = 1 /\ c[i].name \in known
CallsOK == CallsAre(calls, DOMAIN projects)

ListedBelow ==
    \A p \in DOMAIN projects : \A o \in projects[p].files : o[1] \in Projects => o[1] <= p

\* The solution that is open is known when a refresh marks its projects.
WorkspaceAdded ==
    /\ exists[Workspace]
    /\ pc = "refresh" /\ open =>
          \/ Workspace \in DOMAIN projects
          \/ calls # << >> /\ Top.name = Workspace
CallInv == FlagsOK /\ DiskOK /\ PrjOK /\ CallsOK /\ ListedBelow /\ WorkspaceAdded
IInv == CallInv /\ FileInv

LEMMA InsideNames ==
    ASSUME NEW p, NEW S
    PROVE  Inside(p, S) \in Seq((NamesOf(S) \cap Projects) \ {p})
<1> DEFINE T == (NamesOf(S) \cap Projects) \ {p}
<1>1. T \subseteq Projects /\ Projects \subseteq Nat
  BY WorkspaceAssumption DEF Names
<1>2. IsFiniteSet(T) /\ T \in SUBSET Nat
  BY <1>1, WorkspaceAssumption, FS_Subset
<1> HIDE DEF T
<1>3. InOrder(T) \in Seq(T)
  BY <1>2, InOrderOf
<1> QED BY <1>3 DEF Inside, T

LEMMA ProjectsInNames ==
    ASSUME NEW s \in Seq(Names)
    PROVE  ProjectsIn(s) \in Seq(ToSet(s) \cap Projects)
<1> DEFINE P == {i \in DOMAIN s : s[i] \in Projects}
           m == EntriesAt(s, P)
<1>1. /\ m \in Seq(Names) /\ Len(m) = Len(InOrder(P))
      /\ \A k \in 1 .. Len(m) : InOrder(P)[k] \in P /\ InOrder(P)[k] \in 1 .. Len(s)
                                /\ m[k] = s[InOrder(P)[k]]
  BY EntriesOf
<1>2. \A k \in 1 .. Len(m) : m[k] \in ToSet(s) \cap Projects
  BY <1>1, ToSetOfSeq
<1>3. ProjectsIn(s) = m
  BY DEF ProjectsIn
<1> HIDE DEF m
<1>4. m \in Seq(ToSet(s) \cap Projects)
  BY <1>1, <1>2, SMTT(30)
<1> QED BY <1>3, <1>4

\* The calls for the projects of s, made before the rest of the calls.
LEMMA PushCalls ==
    ASSUME NEW c, NEW known, CallsAre(c, known), c # << >>,
           NEW s \in Seq(Projects), NEW active \in BOOLEAN, NEW noRefresh \in BOOLEAN,
           NEW lister \in {Head(c).name, NoProject},
           lister # NoProject => lister \in Solutions \cap known,
           \A i \in 1 .. Len(s) : s[i] < Head(c).name
    PROVE  CallsAre(CallsFor(s, active, noRefresh, lister) \o Tail(c), known)
<1> DEFINE front == CallsFor(s, active, noRefresh, lister)
           all == front \o Tail(c)
           n == Len(s)
<1>1. c \in Seq(CallType) /\ Len(c) \in Nat /\ Len(c) >= 1 /\ Head(c) = c[1] /\ n \in Nat
  BY DEF CallsAre
<1>2. \A i \in 1 .. Len(c) : /\ c[i].name \in Nat
                             /\ c[i].lister # NoProject => c[i].lister \in Nat
  <2> SUFFICES ASSUME NEW i \in 1 .. Len(c) PROVE c[i].name \in Nat /\ c[i].lister \in Nat
    OBVIOUS
  <2>1. c[i] \in CallType
    BY <1>1
  <2>2. c[i].name \in Projects /\ c[i].lister \in Projects \cup {NoProject}
    BY <2>1, WorkspaceAssumption DEF CallType
  <2> QED BY <2>2, WorkspaceAssumption DEF Names, NoProject
<1>3. ASSUME NEW i \in 1 .. n
      PROVE  /\ Call(s[i], active, noRefresh, lister) \in CallType
             /\ front[i].name = s[i] /\ front[i].lister = lister /\ ~front[i].reading
             /\ s[i] \in Nat
  <2>1. s[i] \in Projects
    OBVIOUS
  <2>2. front[i] = Call(s[i], active, noRefresh, lister)
    BY DEF CallsFor
  <2>3. s[i] \in Nat
    BY <2>1, WorkspaceAssumption DEF Names
  <2> QED BY <2>1, <2>2, <2>3 DEF Call, CallType
<1>4. front \in Seq(CallType) /\ Len(front) = n
  BY <1>1, <1>3 DEF CallsFor
<1> HIDE DEF front
<1>5. /\ all \in Seq(CallType) /\ Len(all) = n + Len(c) - 1
      /\ \A i \in 1 .. n : all[i] = front[i]
      /\ \A i \in 1 .. n + Len(c) - 1 : i > n =>
            i - n + 1 \in 2 .. Len(c) /\ all[i] = c[i - n + 1]
  <2>1. c # << >> /\ Len(front) = n
    BY <1>4
  <2>2. /\ all \in Seq(CallType) /\ Len(all) = Len(front) + Len(c) - 1
        /\ \A i \in 1 .. Len(front) : all[i] = front[i]
        /\ \A i \in 1 .. Len(front) + Len(c) - 1 : i > Len(front) =>
              i - Len(front) + 1 \in 2 .. Len(c) /\ all[i] = c[i - Len(front) + 1]
    <3>1. c \in Seq(CallType) /\ front \in Seq(CallType)
      BY <1>1, <1>4
    <3> HIDE DEF n
    <3> QED BY ONLY <2>1, <3>1, ReplaceHead, Zenon
  <2> HIDE DEF n, all
  <2> QED BY <2>1, <2>2
<1>b. \A i \in 1 .. n : s[i] < c[1].name
  BY <1>1
<1> HIDE DEF all, n
<1>l. lister # NoProject => lister = c[1].name /\ lister \in known
  BY <1>1
<1>6. ASSUME NEW i \in 1 .. Len(all), all[i].lister # NoProject
      PROVE  all[i].lister \in known /\ \A k \in 1 .. i : all[k].name < all[i].lister
  <2>1. CASE i <= n
    <3>1. i \in 1 .. n /\ all[i] = front[i] /\ front[i].lister = lister
      BY <1>1, <1>3, <1>5, <2>1
    <3>2. ASSUME NEW k \in 1 .. i
          PROVE  all[k].name < lister
      <4>1. k \in 1 .. n
        BY <1>1, <3>1
      <4>2. all[k] = front[k] /\ front[k].name = s[k] /\ s[k] < c[1].name
        BY <1>3, <1>5, <1>b, <4>1
      <4> QED BY <1>6, <1>l, <3>1, <4>2
    <3> QED BY <1>6, <1>l, <3>1, <3>2
  <2>2. CASE i > n
    <3>1. PICK j \in 2 .. Len(c) : j = i - n + 1 /\ all[i] = c[j]
      BY <1>1, <1>5, <2>2
    <3>2. c[j].lister \in known /\ \A k \in 1 .. j : c[k].name < c[j].lister
      BY <1>1, <1>6, <3>1 DEF CallsAre
    <3>3. ASSUME NEW k \in 1 .. i
          PROVE  all[k].name < all[i].lister
      <4>1. CASE k <= n
        <5>0. k \in 1 .. n
          BY <1>1, <1>5, <4>1
        <5>1. all[k].name = s[k] /\ s[k] < c[1].name
          BY <1>3, <1>5, <1>b, <5>0
        <5>2. c[1].name < c[j].lister /\ c[1].name \in Nat /\ c[j].lister \in Nat
          <6>1. j \in 1 .. Len(c) /\ 1 \in 1 .. j /\ 1 \in 1 .. Len(c)
            BY <1>1, <3>1
          <6> QED BY <1>2, <1>6, <3>1, <3>2, <6>1
        <5>3. s[k] \in Nat
          BY <1>3, <5>0
        <5>4. s[k] < c[j].lister
          BY <5>1, <5>2, <5>3
        <5> QED BY <3>1, <5>1, <5>4
      <4>2. CASE k > n
        <5>1. k \in 1 .. n + Len(c) - 1
          BY <1>1, <1>5
        <5>2. k - n + 1 \in 1 .. j /\ all[k] = c[k - n + 1]
          BY <1>1, <1>5, <3>1, <4>2, <5>1
        <5> QED BY <3>1, <3>2, <5>2
      <4> QED BY <1>1, <4>1, <4>2
    <3> QED BY <3>1, <3>2, <3>3
  <2> QED BY <1>1, <2>1, <2>2
<1>7. ASSUME NEW i \in 1 .. Len(all)
      PROVE  ~all[i].reading
  <2>1. CASE i <= n
    <3>1. i \in 1 .. n
      BY <1>1, <2>1
    <3> QED BY <1>3, <1>5, <3>1
  <2>2. CASE i > n
    <3>1. i - n + 1 \in 2 .. Len(c) /\ all[i] = c[i - n + 1]
      BY <1>1, <1>5, <2>2
    <3> QED BY <1>1, <3>1 DEF CallsAre
  <2> QED BY <1>1, <2>1, <2>2
<1> QED BY <1>5, <1>6, <1>7 DEF CallsAre, all, front

\* A project more that is known does no harm, nor does the end of the first call,
\* after which its project may be gone.
LEMMA MoreKnown ==
    ASSUME NEW c, NEW known, CallsAre(c, known), NEW more, known \subseteq more
    PROVE  CallsAre(c, more)
BY DEF CallsAre

LEMMA PopCall ==
    ASSUME NEW c, NEW known, CallsAre(c, known), c # << >>
    PROVE  CallsAre(Tail(c), known \ {Head(c).name})
<1>1. /\ c \in Seq(CallType) /\ Len(c) \in Nat /\ Len(c) >= 1 /\ Head(c) = c[1]
      /\ Tail(c) \in Seq(CallType) /\ Len(Tail(c)) = Len(c) - 1
      /\ \A i \in 1 .. Len(Tail(c)) : Tail(c)[i] = c[i + 1]
  BY HeadTailProperties, EmptySeq DEF CallsAre
<1>2. ASSUME NEW i \in 1 .. Len(c) - 1
      PROVE  i + 1 \in 2 .. Len(c) /\ i + 1 \in 1 .. Len(c) /\ Tail(c)[i] = c[i + 1]
  BY <1>1
<1> DEFINE t == Tail(c)
<1> HIDE DEF t
<1>3. ASSUME NEW i \in 1 .. Len(c) - 1
      PROVE  ~t[i].reading
  BY <1>1, <1>2 DEF CallsAre, t
<1>4. ASSUME NEW i \in 1 .. Len(c) - 1, t[i].lister # NoProject
      PROVE  /\ t[i].lister \in known \ {c[1].name}
             /\ \A k \in 1 .. i : t[k].name < t[i].lister
  <2>1. /\ c[i + 1].lister \in known
        /\ \A k \in 1 .. i + 1 : c[k].name < c[i + 1].lister
    BY <1>2, <1>4 DEF CallsAre, t
  <2>2. c[1].name < c[i + 1].lister /\ c[1].name \in Nat
    <3>1. c[1] \in CallType
      BY <1>1
    <3> QED BY <1>1, <2>1, <3>1, WorkspaceAssumption DEF CallType, Names
  <2>3. ASSUME NEW k \in 1 .. i
        PROVE  t[k].name < t[i].lister
    <3>1. k \in 1 .. Len(c) - 1 /\ k + 1 \in 1 .. i + 1
      BY <1>1
    <3> QED BY <1>2, <2>1, <3>1 DEF t
  <2>4. c[1].name # c[i + 1].lister
    BY <2>2
  <2> QED BY <1>2, <2>1, <2>3, <2>4 DEF t
<1> QED BY <1>1, <1>3, <1>4 DEF CallsAre, t

\* The first call goes on with the reading of its file.
LEMMA ReadTop ==
    ASSUME NEW c, NEW known, CallsAre(c, known), c # << >>
    PROVE  CallsAre(<< [Head(c) EXCEPT !.reading = TRUE] >> \o Tail(c),
                    known \cup {Head(c).name})
<1> DEFINE top == [Head(c) EXCEPT !.reading = TRUE]
           all == << top >> \o Tail(c)
<1>1. c \in Seq(CallType) /\ Len(c) \in Nat /\ Len(c) >= 1 /\ Head(c) = c[1]
  BY DEF CallsAre
<1>2. c[1] \in CallType
  BY <1>1
<1>3. /\ top \in CallType /\ top.name = c[1].name /\ top.lister = c[1].lister
  BY <1>1, <1>2 DEF CallType
<1> HIDE DEF top
<1>4. /\ << top >> \in Seq(CallType) /\ Len(<< top >>) = 1
      /\ << top >>[1] = top /\ c # << >>
  BY <1>3
<1>5. /\ all \in Seq(CallType) /\ Len(all) = 1 + Len(c) - 1
      /\ \A i \in 1 .. 1 : all[i] = << top >>[i]
      /\ \A i \in 1 .. 1 + Len(c) - 1 : i > 1 =>
            i - 1 + 1 \in 2 .. Len(c) /\ all[i] = c[i - 1 + 1]
  <2> DEFINE s == << top >>
  <2> HIDE DEF s
  <2>1. s \in Seq(CallType) /\ Len(s) = 1 /\ c \in Seq(CallType) /\ c # << >>
    BY <1>1, <1>4 DEF s
  <2>2. /\ s \o Tail(c) \in Seq(CallType) /\ Len(s \o Tail(c)) = Len(s) + Len(c) - 1
        /\ \A i \in 1 .. Len(s) : (s \o Tail(c))[i] = s[i]
        /\ \A i \in 1 .. Len(s) + Len(c) - 1 : i > Len(s) =>
              i - Len(s) + 1 \in 2 .. Len(c) /\ (s \o Tail(c))[i] = c[i - Len(s) + 1]
    BY ONLY <2>1, ReplaceHead, Zenon
  <2>3. all = s \o Tail(c) /\ s[1] = << top >>[1]
    BY DEF s
  <2> HIDE DEF all
  <2> QED BY <2>1, <2>2, <2>3
<1> HIDE DEF all
<1>6. Len(all) = Len(c) /\ all[1] = top /\ \A i \in 2 .. Len(c) : all[i] = c[i]
  <2>1. \A i \in 2 .. Len(c) : i \in 1 .. 1 + Len(c) - 1 /\ i > 1 /\ i - 1 + 1 = i
    BY <1>1
  <2> QED BY <1>1, <1>4, <1>5, <2>1
<1>7. \A i \in 1 .. Len(c) : all[i].name = c[i].name /\ all[i].lister = c[i].lister
  <2>1. \A i \in 1 .. Len(c) : i = 1 \/ i \in 2 .. Len(c)
    BY <1>1
  <2> QED BY <1>3, <1>6, <2>1
<1>8. \A i \in 1 .. Len(c) : \A k \in 1 .. i : k \in 1 .. Len(c)
  BY <1>1
<1>9. \A i \in 1 .. Len(all) : all[i].reading => i = 1 /\ all[i].name \in known \cup {c[1].name}
  <2>1. \A i \in 1 .. Len(c) : i = 1 \/ i \in 2 .. Len(c)
    BY <1>1
  <2> QED BY <1>3, <1>6, <2>1 DEF CallsAre
<1>10. \A i \in 1 .. Len(all) : all[i].lister # NoProject =>
          /\ all[i].lister \in known \cup {c[1].name}
          /\ \A k \in 1 .. i : all[k].name < all[i].lister
  BY <1>6, <1>7, <1>8 DEF CallsAre
<1> QED BY <1>1, <1>5, <1>9, <1>10 DEF CallsAre, all, top

LEMMA TopCall ==
    ASSUME PrjOK, CallsOK, calls # << >>
    PROVE  /\ Top \in CallType /\ Top.name \in Projects /\ Top.name \in Nat
           /\ Top.lister # NoProject =>
                 Top.lister \in Solutions \cap DOMAIN projects /\ Top.name < Top.lister
           /\ Top.lister # Top.name
           /\ Top.reading => Top.name \in DOMAIN projects
<1>1. calls \in Seq(CallType) /\ Len(calls) \in Nat /\ Len(calls) >= 1 /\ Top = calls[1]
  BY DEF CallsOK, CallsAre, Top
<1>2. 1 \in 1 .. Len(calls) /\ 1 \in 1 .. 1
  BY <1>1
<1>3. /\ Top.lister # NoProject => Top.lister \in DOMAIN projects /\ Top.name < Top.lister
      /\ Top.reading => Top.name \in DOMAIN projects
  BY <1>1, <1>2 DEF CallsOK, CallsAre
<1>4. Top \in CallType
  BY <1>1, <1>2
<1>5. Top.name \in Projects /\ Top.lister \in Solutions \cup {NoProject}
  BY <1>4 DEF CallType
<1>6. Top.name \in Nat /\ Top.name # NoProject
  BY <1>5, WorkspaceAssumption DEF Names
<1>7. Top.lister # Top.name
  BY <1>3, <1>6
<1> QED BY <1>3, <1>4, <1>5, <1>6, <1>7

(***************************************************************************)
(* Every step keeps the invariant of the calls                             *)
(***************************************************************************)
\* The project that is reading or being looked at.
LEMMA KnownProject ==
    ASSUME PrjOK, NEW p \in DOMAIN projects
    PROVE  /\ p \in Projects /\ projects[p] \in Project
           /\ projects[p].files \in SUBSET Objects /\ projects[p].time \in Nat
           /\ projects[p].active \in BOOLEAN
BY DEF PrjOK, Project

\* Only the time stamps of Project records, their flags or nothing changes.
LEMMA FilesSameBelow ==
    ASSUME ListedBelow, DOMAIN projects' \subseteq DOMAIN projects,
           \A p \in DOMAIN projects' : projects'[p].files = projects[p].files
    PROVE  ListedBelow'
BY DEF ListedBelow

LEMMA CallsDisk ==
    ASSUME CallInv, NEW p \in Projects,
           EditProject(p) \/ DeleteProject(p) \/ RestoreProject(p)
    PROVE  CallInv'
<1>1. UNCHANGED <<open, projects, heap, lists, calls, pc, quiet>>
  BY DEF EditProject, DeleteProject, RestoreProject
<1>2. FlagsOK' /\ PrjOK' /\ CallsOK' /\ ListedBelow'
  BY <1>1 DEF CallInv, FlagsOK, PrjOK, CallsOK, ListedBelow, lists
<1>3. ASSUME NEW q \in Projects, mtime[q] < Len(Lists[q])
      PROVE  mtime[q] + 1 \in DOMAIN Lists[q]
  <2>1. Lists[q] \in Seq(Seq(Names))
    BY WorkspaceAssumption
  <2>2. DOMAIN Lists[q] = 1 .. Len(Lists[q]) /\ Len(Lists[q]) \in Nat
    BY <2>1
  <2> QED BY <1>3, <2>2 DEF CallInv, DiskOK
<1>4. DiskOK'
  <2>1. /\ exists' \in [Projects -> BOOLEAN] /\ DOMAIN mtime' = Projects
        /\ \A q \in Projects : mtime'[q] # mtime[q] =>
                mtime[q] < Len(Lists[q]) /\ mtime'[q] = mtime[q] + 1
    <3>1. \/ mtime' = [mtime EXCEPT ![p] = @ + 1] /\ mtime[p] < Len(Lists[p])
          \/ mtime' = mtime
      BY DEF EditProject, DeleteProject, RestoreProject
    <3>2. exists' = exists \/ exists' = [exists EXCEPT ![p] = TRUE]
             \/ exists' = [exists EXCEPT ![p] = FALSE]
      BY DEF EditProject, DeleteProject, RestoreProject
    <3>3. exists \in [Projects -> BOOLEAN] /\ DOMAIN mtime = Projects
      BY DEF CallInv, DiskOK
    <3>4. exists' \in [Projects -> BOOLEAN]
      BY <3>2, <3>3
    <3>5. /\ DOMAIN mtime' = Projects
          /\ \A q \in Projects : mtime'[q] # mtime[q] =>
                mtime[q] < Len(Lists[q]) /\ mtime'[q] = mtime[q] + 1
      <4>1. CASE mtime' = mtime
        BY <3>3, <4>1
      <4>2. CASE mtime' = [mtime EXCEPT ![p] = @ + 1] /\ mtime[p] < Len(Lists[p])
        <5>1. DOMAIN mtime' = Projects
          BY <3>3, <4>2
        <5>2. ASSUME NEW q \in Projects
              PROVE  mtime'[q] = IF q = p THEN mtime[q] + 1 ELSE mtime[q]
          BY <3>3, <4>2
        <5> QED BY <4>2, <5>1, <5>2
      <4> QED BY <3>1, <4>1, <4>2
    <3> QED BY <3>4, <3>5
  <2> QED BY <1>1, <1>3, <2>1 DEF CallInv, DiskOK
<1>5. exists'[Workspace]
  <2>1. Workspace \in Projects /\ Workspace \notin Deletable
    BY WorkspaceAssumption
  <2> QED BY <2>1 DEF EditProject, DeleteProject, RestoreProject, CallInv, DiskOK, WorkspaceAdded
<1>6. WorkspaceAdded'
  BY <1>1, <1>5 DEF CallInv, WorkspaceAdded, Top
<1> QED BY <1>2, <1>4, <1>6 DEF CallInv

\* One call, for a project of a client, of the extra files or of the workspace.
LEMMA OneCall ==
    ASSUME NEW p \in Projects, NEW noRefresh \in BOOLEAN, NEW known
    PROVE  CallsAre(<< Call(p, TRUE, noRefresh, NoProject) >>, known)
<1> DEFINE c == Call(p, TRUE, noRefresh, NoProject)
<1>1. c \in CallType /\ c.lister = NoProject /\ ~c.reading
  BY DEF Call, CallType
<1> HIDE DEF c
<1>2. << c >> \in Seq(CallType) /\ Len(<< c >>) = 1 /\ << c >>[1] = c
  BY <1>1
<1>3. \A i \in 1 .. Len(<< c >>) : << c >>[i] = c
  BY <1>2
<1> QED BY <1>1, <1>2, <1>3 DEF CallsAre, c

LEMMA NoCalls == ASSUME NEW known PROVE CallsAre(<< >>, known)
<1>1. << >> \in Seq(CallType) /\ Len(<< >>) = 0 /\ 1 .. 0 = {}
  OBVIOUS
<1> QED BY <1>1 DEF CallsAre

LEMMA CallsInterface ==
    ASSUME CallInv, NEW p \in Projects, NEW b \in BOOLEAN,
           AddProject(p, b) \/ SetActive(p, b) \/ AddProjectEnd \/ RefreshFileList
           \/ OpenOrClose
    PROVE  CallInv'
<1>1. Extra \in Projects
  BY WorkspaceAssumption
<1>2. CASE AddProject(p, b)
  <2>1. CallsOK'
    BY <1>2, OneCall DEF AddProject, CallsOK
  <2> QED BY <1>2, <2>1 DEF AddProject, CallInv, FlagsOK, DiskOK, PrjOK, ListedBelow,
             WorkspaceAdded, disk, heap, lists
<1>3. CASE SetActive(p, b)
  <2>1. /\ DOMAIN projects' = DOMAIN projects
        /\ \A q \in DOMAIN projects :
              projects'[q] = IF q = p THEN [projects[p] EXCEPT !.active = b, !.changed = TRUE]
                             ELSE projects[q]
    BY <1>3 DEF SetActive
  <2>2. PrjOK'
    <3>1. PrjOK
      BY DEF CallInv
    <3>2. ASSUME NEW q \in DOMAIN projects, q = p
          PROVE  projects'[q] \in Project
      <4>1. projects[p] \in Project
        BY <3>1, <3>2 DEF PrjOK
      <4> QED BY <2>1, <3>2, <4>1 DEF Project
    <3>3. ASSUME NEW q \in DOMAIN projects, q # p
          PROVE  projects'[q] \in Project
      BY <2>1, <3>1, <3>3 DEF PrjOK
    <3> QED BY <2>1, <3>1, <3>2, <3>3 DEF PrjOK
  <2>3. ListedBelow'
    <3>1. \A q \in DOMAIN projects : projects'[q].files = projects[q].files
      BY <2>1, ZenonT(40) DEF CallInv, PrjOK, Project
    <3> QED BY <2>1, <3>1 DEF CallInv, ListedBelow
  <2>4. CallsOK'
    BY <1>3, <2>1 DEF SetActive, CallInv, CallsOK
  <2> QED BY <1>3, <2>2, <2>3, <2>4 DEF SetActive, CallInv, FlagsOK, DiskOK, WorkspaceAdded,
             disk, lists
<1>4. CASE AddProjectEnd
  BY <1>4 DEF AddProjectEnd, CallInv, FlagsOK, DiskOK, PrjOK, CallsOK, ListedBelow,
         WorkspaceAdded, disk, lists
<1>5. ASSUME ReadExtraFiles
      PROVE  CallsOK'
  <2>1. \A known : CallsAre(<< >>, known)
           /\ CallsAre(<< Call(Extra, TRUE, FALSE, NoProject) >>, known)
    BY <1>1, OneCall, NoCalls
  <2> QED BY <1>5, <2>1 DEF ReadExtraFiles, CallsOK
<1>6. CASE RefreshFileList
  BY <1>5, <1>6 DEF RefreshFileList, ReadExtraFiles, CallInv, FlagsOK, DiskOK, PrjOK,
         ListedBelow, WorkspaceAdded, disk, lists
<1>7. CASE OpenOrClose
  <2>1. projects' = << >> /\ DOMAIN projects' = {}
    BY <1>7 DEF OpenOrClose, RemoveAll
  <2>2. PrjOK' /\ ListedBelow'
    BY <2>1 DEF PrjOK, ListedBelow
  <2>3. open' \in BOOLEAN /\ filesRefreshed' \in BOOLEAN /\ quiet' \in BOOLEAN
    BY <1>7 DEF OpenOrClose, RemoveAll, CallInv, FlagsOK
  <2> QED BY <1>5, <1>7, <2>2, <2>3 DEF OpenOrClose, ReadExtraFiles, CallInv, FlagsOK, DiskOK,
             WorkspaceAdded
<1> QED BY <1>2, <1>3, <1>4, <1>6, <1>7

LEMMA CallsGone ==
    ASSUME CallInv, AddGone
    PROVE  CallInv'
<1>1. /\ calls # << >> /\ ~exists[Top.name] /\ Top.name \in DOMAIN projects
      /\ projects' = [p \in DOMAIN projects \ {Top.name} |-> projects[p]]
      /\ calls' = Tail(calls) /\ UNCHANGED <<exists, mtime, open, filesRefreshed, pc>>
      /\ quiet' = TRUE
  BY DEF AddGone, Calling, disk, lists
<1>2. CallsOK'
  BY <1>1, PopCall DEF CallInv, CallsOK, Top
<1>3. PrjOK' /\ ListedBelow' /\ DiskOK' /\ FlagsOK'
  BY <1>1 DEF CallInv, PrjOK, ListedBelow, DiskOK, FlagsOK
<1>4. WorkspaceAdded'
  BY <1>1 DEF CallInv, WorkspaceAdded
<1> QED BY <1>2, <1>3, <1>4 DEF CallInv

LEMMA CallsReadFails ==
    ASSUME CallInv, ReadFails
    PROVE  CallInv'
<1>1. /\ calls # << >> /\ ~exists[Top.name] /\ calls' = Tail(calls)
      /\ UNCHANGED <<exists, mtime, open, projects, filesRefreshed, pc, quiet>>
  BY DEF ReadFails, Reading, disk, lists
<1>2. CallsOK'
  <2>1. CallsAre(Tail(calls), DOMAIN projects \ {Top.name})
    BY <1>1, PopCall DEF CallInv, CallsOK, Top
  <2> QED BY <1>1, <2>1, MoreKnown DEF CallsOK
<1>3. WorkspaceAdded'
  BY <1>1 DEF CallInv, WorkspaceAdded
<1> QED BY <1>1, <1>2, <1>3 DEF CallInv, PrjOK, ListedBelow, DiskOK, FlagsOK

\* What AddHelper() makes of the projects.
LEMMA AddHelperProjects ==
    ASSUME IInv, AddHelper
    PROVE  /\ DOMAIN projects' = DOMAIN projects \cup {Top.name}
           /\ \A q \in DOMAIN projects' : projects'[q] \in Project
           /\ \A q \in Projects \ {Top.lister} : FilesIn(projects', q) = FilesIn(projects, q)
           /\ Top.lister # NoProject =>
                 FilesIn(projects', Top.lister) = FilesIn(projects, Top.lister)
                    \cup Added(Create({Top.name}), FilesIn(projects, Top.lister), {Top.name})
<1> DEFINE p == Top.name
           isNew == p \notin DOMAIN projects
           project == IF isNew THEN NewProject(Top.active) ELSE projects[p]
           noRefresh == Top.noRefresh /\ ~isNew
           stamp == IF exists[p] THEN mtime[p] ELSE 0
           read == ~noRefresh /\ project.time # stamp
           h == Create(IF Top.lister = NoProject THEN {} ELSE {p})
           listed == IF Top.lister = NoProject THEN {}
                     ELSE Added(h, projects[Top.lister].files, {p})
           called == [project EXCEPT !.touched = TRUE, !.member = FALSE,
                                     !.time = IF read THEN stamp ELSE @]
<1>1. /\ calls # << >>
      /\ projects' = [q \in DOMAIN projects \cup {p} |->
                        CASE q = p -> called
                          [] q = Top.lister -> [projects[q] EXCEPT !.files = @ \cup listed]
                          [] OTHER -> projects[q]]
  BY DEF AddHelper, Calling
<1>2. PrjOK /\ CallsOK
  BY DEF IInv, CallInv
<1>3. /\ Top \in CallType /\ p \in Projects
      /\ Top.lister # NoProject => Top.lister \in DOMAIN projects
      /\ Top.lister # p /\ Top.active \in BOOLEAN
  <2>1. Top \in CallType /\ p \in Projects /\ Top.lister # p
        /\ (Top.lister # NoProject => Top.lister \in DOMAIN projects)
    BY <1>1, <1>2, TopCall
  <2> QED BY <2>1 DEF CallType
<1>4. project \in Project
  <2>1. NewProject(Top.active) \in Project
    BY <1>3 DEF NewProject, Project
  <2> QED BY <1>2, <2>1 DEF PrjOK
<1>5. stamp \in Nat
  <2>1. mtime[p] \in DOMAIN Lists[p] /\ Lists[p] \in Seq(Seq(Names))
    BY <1>3, WorkspaceAssumption DEF IInv, CallInv, DiskOK
  <2>2. mtime[p] \in Nat
    BY <2>1
  <2> QED BY <2>2
<1> HIDE DEF stamp
<1>6. called \in Project /\ called.files = project.files
  <2> HIDE DEF read, project
  <2> QED BY <1>4, <1>5 DEF Project
<1>7. project.files = FilesIn(projects, p)
  BY DEF NewProject, FilesIn
<1>8. listed \in SUBSET Objects
  <2>1. CASE Top.lister = NoProject
    BY <2>1
  <2>2. CASE Top.lister # NoProject
    <3>1. {p} \in SUBSET Names
      BY <1>3 DEF Names
    <3>2. MapOK(h.map) /\ DOMAIN h.map = DOMAIN globalMap \cup {p}
      BY <1>2, <2>2, <3>1, CreateKeeps DEF IInv
    <3> QED BY <2>2, <3>2 DEF Added, MapOK
  <2> QED BY <2>1, <2>2
<1> HIDE DEF called, project, listed
<1>9. DOMAIN projects' = DOMAIN projects \cup {p}
  BY <1>1
<1>10. ASSUME NEW q \in DOMAIN projects'
       PROVE  /\ projects'[q] \in Project
              /\ q # Top.lister => projects'[q].files = FilesIn(projects, q)
              /\ q = Top.lister => projects'[q].files = FilesIn(projects, q) \cup listed
  <2>1. CASE q = p
    <3>1. projects'[q] = called
      <4> HIDE DEF p
      <4>1. q \in DOMAIN projects \cup {p} /\ Top.lister # p
        BY <1>3, <1>9
      <4> QED BY <1>1, <2>1, <4>1
    <3> QED BY <1>3, <1>6, <1>7, <2>1, <3>1
  <2>2. CASE q # p /\ q = Top.lister
    <3>1. projects'[q] = [projects[q] EXCEPT !.files = @ \cup listed] /\ q \in DOMAIN projects
      BY <1>1, <2>2
    <3>2. projects[q] \in Project
      BY <1>2, <3>1 DEF PrjOK
    <3> QED BY <1>8, <2>2, <3>1, <3>2 DEF Project, FilesIn
  <2>3. CASE q # p /\ q # Top.lister
    <3>1. projects'[q] = projects[q] /\ q \in DOMAIN projects
      BY <1>1, <2>3
    <3> QED BY <1>2, <2>3, <3>1 DEF PrjOK, FilesIn
  <2> QED BY <2>1, <2>2, <2>3
<1>11. ASSUME NEW q \in Projects \ {Top.lister}
       PROVE  FilesIn(projects', q) = FilesIn(projects, q)
  <2>1. CASE q \in DOMAIN projects'
    BY <1>10, <2>1 DEF FilesIn
  <2>2. CASE q \notin DOMAIN projects'
    BY <1>9, <2>2 DEF FilesIn
  <2> QED BY <2>1, <2>2
<1>12. ASSUME Top.lister # NoProject
       PROVE  FilesIn(projects', Top.lister) = FilesIn(projects, Top.lister)
                 \cup Added(Create({p}), FilesIn(projects, Top.lister), {p})
  <2>1. Top.lister \in DOMAIN projects /\ Top.lister \in DOMAIN projects'
    BY <1>3, <1>9, <1>12
  <2>2. listed = Added(Create({p}), FilesIn(projects, Top.lister), {p})
    BY <1>12, <2>1 DEF listed, FilesIn
  <2>3. FilesIn(projects', Top.lister) = FilesIn(projects, Top.lister) \cup listed
    BY <1>10, <2>1, SMTT(30) DEF FilesIn
  <2> QED BY <2>2, <2>3
<1> QED BY <1>9, <1>10, <1>11, <1>12

LEMMA CallsAddHelper ==
    ASSUME IInv, AddHelper
    PROVE  CallInv'
<1> DEFINE p == Top.name
           isNew == p \notin DOMAIN projects
           project == IF isNew THEN NewProject(Top.active) ELSE projects[p]
           noRefresh == Top.noRefresh /\ ~isNew
           stamp == IF exists[p] THEN mtime[p] ELSE 0
           read == ~noRefresh /\ project.time # stamp
           known == DOMAIN projects
<1>1. /\ calls # << >>
      /\ calls' = (IF read THEN << [Top EXCEPT !.reading = TRUE] >>
                   ELSE CallsFor(Inside(p, project.files), project.active, noRefresh, NoProject))
                  \o Tail(calls)
      /\ UNCHANGED <<exists, mtime, open, filesRefreshed, pc, quiet>>
  BY DEF AddHelper, Calling, disk, lists
<1>2. PrjOK /\ CallsOK /\ CallInv
  BY SMTT(30) DEF IInv, CallInv
<1>3. /\ Top \in CallType /\ p \in Projects /\ p \in Nat
      /\ Top.lister # NoProject =>
            Top.lister \in Solutions \cap DOMAIN projects /\ Top.name < Top.lister
      /\ Top.lister # p
  BY <1>1, <1>2, TopCall
<1>4. /\ DOMAIN projects' = known \cup {p}
      /\ \A q \in DOMAIN projects' : projects'[q] \in Project
      /\ \A q \in Projects \ {Top.lister} : FilesIn(projects', q) = FilesIn(projects, q)
      /\ Top.lister # NoProject =>
            FilesIn(projects', Top.lister) = FilesIn(projects, Top.lister)
               \cup Added(Create({p}), FilesIn(projects, Top.lister), {p})
  BY AddHelperProjects
<1>5. PrjOK'
  BY <1>2, <1>3, <1>4 DEF PrjOK
<1>6. ListedBelow'
  <2> SUFFICES ASSUME NEW q \in DOMAIN projects', NEW o \in projects'[q].files, o[1] \in Projects
               PROVE  o[1] <= q
    BY DEF ListedBelow
  <2>1. q \in Projects /\ o \in FilesIn(projects', q)
    BY <1>5 DEF PrjOK, FilesIn
  <2>2. CASE o \in FilesIn(projects, q)
    BY <1>2, <2>2 DEF CallInv, ListedBelow, FilesIn
  <2>3. CASE o \notin FilesIn(projects, q)
    <3>1. q = Top.lister /\ Top.lister # NoProject
      <4>1. q = Top.lister
        BY <1>4, <2>1, <2>3
      <4>2. q # NoProject
        BY <2>1, WorkspaceAssumption DEF Names
      <4> QED BY <4>1, <4>2
    <3>2. o \in Added(Create({p}), FilesIn(projects, q), {p})
      BY <1>4, <2>1, <2>3, <3>1
    <3>3. o = Create({p}).map[p]
      BY <3>2 DEF Added
    <3>4. MapOK(Create({p}).map) /\ p \in DOMAIN Create({p}).map
      <4>1. {p} \in SUBSET Names /\ FileInv
        BY <1>3 DEF Names, IInv
      <4> QED BY <1>2, <4>1, CreateKeeps
    <3>5. o[1] = p
      BY <3>3, <3>4 DEF MapOK
    <3>6. q \in Nat /\ p < q
      BY <1>3, <2>1, <3>1, WorkspaceAssumption DEF Names
    <3> QED BY <1>3, <3>5, <3>6
  <2> QED BY <2>2, <2>3
<1>7. CallsOK'
  <2>1. CASE read
    <3>1. calls' = << [Top EXCEPT !.reading = TRUE] >> \o Tail(calls)
      BY <1>1, <2>1, SMTT(30)
    <3>2. CallsAre(<< [Top EXCEPT !.reading = TRUE] >> \o Tail(calls), known \cup {p})
      BY <1>1, <1>2, ReadTop DEF CallsOK, Top
    <3> QED BY <1>4, <3>1, <3>2 DEF CallsOK
  <2>2. CASE ~read
    <3> DEFINE s == Inside(p, project.files)
               a == project.active
    <3>1. calls' = CallsFor(s, a, noRefresh, NoProject) \o Tail(calls)
      BY <1>1, <2>2
    <3>2. s \in Seq((NamesOf(project.files) \cap Projects) \ {p})
      BY InsideNames
    <3>3. a \in BOOLEAN
      <4>1. NewProject(Top.active).active = Top.active /\ Top.active \in BOOLEAN
        BY <1>3 DEF NewProject, CallType
      <4> QED BY <1>2, <4>1, KnownProject
    <3>4. noRefresh \in BOOLEAN
      BY <1>3 DEF CallType
    <3>5. ASSUME NEW q \in NamesOf(project.files) \cap Projects, q # p
          PROVE  q < p
      <4>1. PICK o \in project.files : q = o[1]
        BY DEF NamesOf
      <4>2. ~isNew
        BY <4>1 DEF NewProject
      <4>3. o[1] <= p /\ q \in Nat
        BY <1>2, <3>5, <4>1, <4>2, WorkspaceAssumption DEF CallInv, ListedBelow, Names
      <4> QED BY <1>3, <3>5, <4>1, <4>3
    <3> HIDE DEF s, a, noRefresh, project
    <3>6. s \in Seq(Projects)
      BY <3>2
    <3>7. \A i \in 1 .. Len(s) : s[i] < Head(calls).name
      <4> SUFFICES ASSUME NEW i \in 1 .. Len(s) PROVE s[i] < Top.name
        BY DEF Top
      <4>1. s[i] \in (NamesOf(project.files) \cap Projects) \ {p}
        BY <3>2
      <4> QED BY <3>5, <4>1
    <3>8. CallsAre(calls', known)
      <4>1. CallsAre(calls, known) /\ NoProject \in {Head(calls).name, NoProject}
        BY <1>2 DEF CallsOK
      <4> QED BY <1>1, <3>1, <3>3, <3>4, <3>6, <3>7, <4>1, PushCalls
    <3> QED BY <1>4, <3>8, MoreKnown, SMTT(30) DEF CallsOK
  <2> QED BY <2>1, <2>2
<1>8. WorkspaceAdded'
  BY <1>1, <1>2, <1>4 DEF CallInv, WorkspaceAdded
<1> QED BY <1>1, <1>2, <1>5, <1>6, <1>7, <1>8, SMTT(30) DEF CallInv, FlagsOK, DiskOK

\* A project whose file list alone changes.
LEMMA NewFiles ==
    ASSUME CallInv, NEW p \in DOMAIN projects, NEW S \in SUBSET Objects,
           projects' = [projects EXCEPT ![p].files = S],
           \A o \in S : o[1] \in Projects => o[1] <= p
    PROVE  /\ PrjOK' /\ ListedBelow' /\ DOMAIN projects' = DOMAIN projects
           /\ FilesIn(projects, p) = projects[p].files /\ FilesIn(projects', p) = S
           /\ \A q \in Projects \ {p} : FilesIn(projects', q) = FilesIn(projects, q)
<1>1. /\ DOMAIN projects' = DOMAIN projects
      /\ projects'[p] = [projects[p] EXCEPT !.files = S]
      /\ \A q \in DOMAIN projects \ {p} : projects'[q] = projects[q]
  OBVIOUS
<1>2. projects[p] \in Project
  BY KnownProject DEF CallInv
<1>3. projects'[p] \in Project /\ projects'[p].files = S
  BY <1>1, <1>2 DEF Project
<1>4. PrjOK'
  BY <1>1, <1>3 DEF CallInv, PrjOK
<1>5. ListedBelow'
  BY <1>1, <1>3 DEF CallInv, ListedBelow
<1> QED BY <1>1, <1>3, <1>4, <1>5 DEF FilesIn

\* The project file that is read, in the version that is on disk.
LEMMA FileRead ==
    ASSUME CallInv, Reading
    PROVE  LET p == Top.name
               list == Lists[p][mtime[p]]
           IN /\ p \in DOMAIN projects /\ p \in Projects /\ p \in Nat
              /\ list \in Seq(Names) /\ ToSet(list) \in SUBSET Names
              /\ p \in Solutions => list \in Seq(Projects)
              /\ \A n \in ToSet(list) \cap Projects : n < p
<1> DEFINE p == Top.name
           list == Lists[p][mtime[p]]
<1>1. p \in DOMAIN projects /\ p \in Projects /\ p \in Nat
  BY TopCall DEF CallInv, Reading
<1>2. Lists[p] \in Seq(Seq(Names)) /\ mtime[p] \in DOMAIN Lists[p]
  BY <1>1, WorkspaceAssumption DEF CallInv, DiskOK
<1>3. list \in Seq(Names)
  BY <1>2
<1>4. \A n \in ToSet(list) \cap Projects : n < p
  BY <1>1, <1>2, WorkspaceAssumption
<1>5. ASSUME p \in Solutions PROVE list \in Seq(Projects)
  <2>1. Lists[p] \in Seq(Seq(Projects))
    BY <1>5, WorkspaceAssumption
  <2> QED BY <1>2, <2>1
<1> HIDE DEF list
<1>6. ToSet(list) \in SUBSET Names
  BY <1>3, ToSetOfSeq
<1> QED BY <1>1, <1>3, <1>4, <1>5, <1>6 DEF list

LEMMA CallsReadProject ==
    ASSUME IInv, ReadProject
    PROVE  CallInv'
<1> DEFINE p == Top.name
           list == Lists[p][mtime[p]]
           h == Create(ToSet(list))
           files == projects[p].files
           added == Added(h, files, ToSet(list))
           now == Relisted(files \cup added, ToSet(list))
           s == ProjectsIn(list)
           a == projects[p].active
<1>1. /\ calls # << >> /\ Reading
      /\ projects' = [projects EXCEPT ![p].files = now]
      /\ filesRefreshed' = (filesRefreshed \/ now # files)
      /\ calls' = CallsFor(s, a, FALSE, NoProject) \o Tail(calls)
      /\ UNCHANGED <<exists, mtime, open, pc, quiet>>
  BY DEF ReadProject, Reading, disk
<1>2. PrjOK /\ CallsOK /\ CallInv /\ FileInv
  BY SMTT(30) DEF IInv, CallInv
<1>3. /\ p \in DOMAIN projects /\ p \in Projects /\ p \in Nat
      /\ list \in Seq(Names) /\ ToSet(list) \in SUBSET Names
      /\ \A n \in ToSet(list) \cap Projects : n < p
  BY <1>1, <1>2, FileRead
<1> HIDE DEF list
<1>4. MapOK(h.map) /\ DOMAIN h.map = DOMAIN globalMap \cup ToSet(list)
  BY <1>2, <1>3, CreateKeeps
<1>5. files \in SUBSET Objects /\ a \in BOOLEAN
  BY <1>2, <1>3, KnownProject
<1>6. added \in SUBSET Objects
  BY <1>4 DEF Added, MapOK
<1> HIDE DEF files, added
<1>7. now \in SUBSET Objects /\ \A o \in now : o[1] \in Projects => o[1] <= p
  <2>1. \A o \in now : o \in Objects /\ o[1] \in ToSet(list)
    BY <1>5, <1>6 DEF Relisted
  <2>2. \A n \in ToSet(list) \cap Projects : n <= p
    BY <1>3, WorkspaceAssumption DEF Names
  <2> QED BY <2>1, <2>2
<1> HIDE DEF now, p
<1>8. PrjOK' /\ ListedBelow' /\ DOMAIN projects' = DOMAIN projects
  BY <1>1, <1>2, <1>3, <1>7, NewFiles
<1>9. CallsOK'
  <2>1. s \in Seq(ToSet(list) \cap Projects)
    BY <1>3, ProjectsInNames
  <2> HIDE DEF s, a
  <2>2. s \in Seq(Projects) /\ \A i \in 1 .. Len(s) : s[i] < Head(calls).name
    BY <1>3, <2>1 DEF p, Top
  <2>3. CallsAre(calls, DOMAIN projects) /\ NoProject \in {Head(calls).name, NoProject}
    BY <1>2 DEF CallsOK
  <2>4. CallsAre(calls', DOMAIN projects)
    BY <1>1, <1>5, <2>2, <2>3, PushCalls
  <2> QED BY <1>8, <2>4 DEF CallsOK
<1>10. WorkspaceAdded'
  BY <1>1, <1>2, <1>3, <1>8 DEF CallInv, WorkspaceAdded, p
<1>11. FlagsOK'
  BY <1>1, <1>2 DEF CallInv, FlagsOK
<1> QED BY <1>1, <1>2, <1>8, <1>9, <1>10, <1>11, SMTT(30) DEF CallInv, DiskOK

LEMMA CallsReadSolution ==
    ASSUME IInv, ReadSolution
    PROVE  CallInv'
<1> DEFINE p == Top.name
           list == Lists[p][mtime[p]]
           h == Create({p})
           files == projects[p].files
           added == Added(h, files, {p})
           a == projects[p].active
<1>1. /\ calls # << >> /\ Reading /\ p \in Solutions
      /\ projects' = [projects EXCEPT ![p].files = files \cup added]
      /\ calls' = CallsFor(list, a, FALSE, p) \o Tail(calls)
      /\ UNCHANGED <<exists, mtime, open, filesRefreshed, pc, quiet>>
  BY SMTT(30) DEF ReadSolution, Reading, disk, lists
<1>2. PrjOK /\ CallsOK /\ CallInv /\ FileInv
  BY DEF IInv, CallInv
<1>3. /\ p \in DOMAIN projects /\ p \in Projects /\ p \in Nat
      /\ list \in Seq(Projects)
      /\ \A n \in ToSet(list) \cap Projects : n < p
  BY <1>1, <1>2, FileRead
<1> HIDE DEF list
<1>4. MapOK(h.map) /\ p \in DOMAIN h.map
  <2>1. {p} \in SUBSET Names
    BY <1>3 DEF Names
  <2> QED BY <1>2, <2>1, CreateKeeps
<1>5. files \in SUBSET Objects /\ a \in BOOLEAN
  BY <1>2, <1>3, KnownProject
<1>6. added \in SUBSET Objects /\ \A o \in added : o[1] = p
  BY <1>4 DEF Added, MapOK
<1>7. \A o \in files : o[1] \in Projects => o[1] <= p
  BY <1>2, <1>3 DEF CallInv, ListedBelow
<1> HIDE DEF files, added
<1>8. /\ files \cup added \in SUBSET Objects
      /\ \A o \in files \cup added : o[1] \in Projects => o[1] <= p
  BY <1>3, <1>5, <1>6, <1>7
<1> DEFINE S == files \cup added
<1> HIDE DEF S, p
<1>9. PrjOK' /\ ListedBelow' /\ DOMAIN projects' = DOMAIN projects
  <2>1. projects' = [projects EXCEPT ![p].files = S]
    BY <1>1 DEF S
  <2>2. S \in SUBSET Objects /\ \A o \in S : o[1] \in Projects => o[1] <= p
    BY <1>8 DEF S
  <2> QED BY <1>2, <1>3, <2>1, <2>2, NewFiles
<1>10. CallsOK'
  <2> HIDE DEF a
  <2>1. \A i \in 1 .. Len(list) : list[i] < Head(calls).name
    BY <1>3, ToSetOfSeq DEF p, Top
  <2>2. /\ CallsAre(calls, DOMAIN projects) /\ p \in {Head(calls).name, NoProject}
        /\ p \in Solutions \cap DOMAIN projects
    BY <1>1, <1>2, <1>3 DEF CallsOK, p, Top
  <2>3. CallsAre(calls', DOMAIN projects)
    BY <1>1, <1>3, <1>5, <2>1, <2>2, PushCalls
  <2> QED BY <1>9, <2>3 DEF CallsOK
<1>11. WorkspaceAdded'
  BY <1>1, <1>2, <1>3, <1>9 DEF CallInv, WorkspaceAdded, p
<1> QED BY <1>1, <1>2, <1>9, <1>10, <1>11, SMTT(30) DEF CallInv, FlagsOK, DiskOK

LEMMA CallsRefresh ==
    ASSUME CallInv, Refresh
    PROVE  CallInv'
<1>1. /\ calls = << >> /\ pc' = "refresh" /\ UNCHANGED <<exists, mtime, open>>
      /\ projects' = [p \in DOMAIN projects |-> [projects[p] EXCEPT !.member = FALSE]]
      /\ calls' = IF open THEN << Call(Workspace, TRUE, FALSE, NoProject) >> ELSE << >>
      /\ UNCHANGED <<filesRefreshed, quiet>>
  BY DEF Refresh, disk, lists
<1>2. ASSUME NEW p \in DOMAIN projects
      PROVE  projects'[p] \in Project /\ projects'[p].files = projects[p].files
  <2>1. projects'[p] = [projects[p] EXCEPT !.member = FALSE] /\ projects[p] \in Project
    BY <1>1, KnownProject DEF CallInv
  <2> QED BY <2>1 DEF Project
<1>3. DOMAIN projects' = DOMAIN projects
  BY <1>1
<1>4. PrjOK' /\ ListedBelow'
  BY <1>2, <1>3, FilesSameBelow DEF CallInv, PrjOK
<1>5. Workspace \in Projects
  BY WorkspaceAssumption
<1>6. CallsOK'
  BY <1>1, <1>5, OneCall, NoCalls DEF CallsOK
<1>7. WorkspaceAdded'
  <2>1. ASSUME open
        PROVE  calls' # << >> /\ Head(calls').name = Workspace
    <3> DEFINE c == Call(Workspace, TRUE, FALSE, NoProject)
    <3>1. c.name = Workspace
      BY DEF Call
    <3> HIDE DEF c
    <3>2. calls' = << c >>
      BY <1>1, <2>1 DEF c
    <3> QED BY <3>1, <3>2
  <2> QED BY <1>1, <2>1 DEF CallInv, WorkspaceAdded, Top
<1> QED BY <1>1, <1>4, <1>6, <1>7 DEF CallInv, FlagsOK, DiskOK

\* The end of a refresh, part by part.
Marked == [p \in DOMAIN projects |->
              [projects[p] EXCEPT !.member = p \in Members, !.active = @ \/ p \in Members,
                                  !.touched = FALSE, !.changed = FALSE]]
Swept == {p \in DOMAIN projects : ~projects[p].touched}
Kept == DOMAIN projects \ Swept
Rebuild == filesRefreshed \/ Swept # {} \/ \E p \in Kept : projects[p].changed
AfterSweep == [o \in Objects |-> refs[o] - Cardinality({p \in Swept : o \in projects[p].files})]
AllFiles == FilesOf(Marked, Kept)
ActiveFiles == FilesOf(Marked, {p \in Kept : Marked[p].active})
AfterBuild == AddRefs(AddRefs(Release(Release(AfterSweep, fileList), activeList), AllFiles),
                      ActiveFiles)
UnusedFiles == Unused(globalMap, AfterBuild)
Activated == \E p \in DOMAIN projects : Marked[p].active # projects[p].active

LEMMA RefreshEndParts ==
    ASSUME RefreshEnd
    PROVE  /\ pc = "refresh" /\ calls = << >> /\ pc' \in {"idle", "tags"}
           /\ projects' = [p \in Kept |-> Marked[p]] /\ filesRefreshed' = Rebuild
           /\ Rebuild => /\ fileList' = AllFiles /\ activeList' = ActiveFiles
                         /\ globalMap' = [n \in {m \in DOMAIN globalMap :
                                                   globalMap[m] \notin UnusedFiles} |-> globalMap[n]]
                         /\ refs' = Release(AfterBuild, UnusedFiles) /\ quiet' = FALSE
           /\ ~Rebuild => /\ refs' = AfterSweep /\ quiet' = (quiet \/ Activated)
                          /\ UNCHANGED <<fileList, activeList, globalMap>>
           /\ UNCHANGED <<exists, mtime, open, calls>>
BY DEF RefreshEnd, Marked, Swept, Kept, Rebuild, AfterSweep, AllFiles, ActiveFiles, AfterBuild,
       UnusedFiles, Activated, disk

LEMMA MarkedProject ==
    ASSUME CallInv, NEW p \in DOMAIN projects
    PROVE  /\ Marked[p] \in Project /\ Marked[p].files = projects[p].files
           /\ Marked[p].time = projects[p].time /\ ~Marked[p].changed
           /\ Marked[p].active <=> projects[p].active \/ p \in Members
<1>1. Marked[p] = [projects[p] EXCEPT !.member = p \in Members, !.active = @ \/ p \in Members,
                                      !.touched = FALSE, !.changed = FALSE]
  BY DEF Marked
<1>2. projects[p] \in Project
  BY KnownProject DEF CallInv
<1> DEFINE a == projects[p].active \/ p \in Members
           m == p \in Members
<1>3. a \in BOOLEAN /\ m \in BOOLEAN
  BY <1>2 DEF Project
<1>4. Marked[p] = [projects[p] EXCEPT !.member = m, !.active = a, !.touched = FALSE,
                                      !.changed = FALSE]
  BY <1>1
<1>5. Marked[p].active = a
  <2> HIDE DEF a, m
  <2> QED BY <1>2, <1>4 DEF Project
<1> HIDE DEF a, m
<1>6. /\ Marked[p] \in Project /\ Marked[p].files = projects[p].files
      /\ Marked[p].time = projects[p].time /\ ~Marked[p].changed
  BY <1>2, <1>3, <1>4 DEF Project
<1> QED BY <1>5, <1>6 DEF a

LEMMA CallsRefreshEnd ==
    ASSUME CallInv, RefreshEnd
    PROVE  CallInv'
<1>1. /\ calls = << >> /\ pc' \in {"idle", "tags"} /\ UNCHANGED <<exists, mtime, open, calls>>
      /\ projects' = [p \in Kept |-> Marked[p]]
  BY RefreshEndParts
<1>2. DOMAIN projects' = Kept /\ Kept \subseteq DOMAIN projects
  BY <1>1 DEF Kept
<1>3. ASSUME NEW p \in Kept
      PROVE  projects'[p] \in Project /\ projects'[p].files = projects[p].files
  BY <1>1, <1>2, MarkedProject
<1>4. PrjOK' /\ ListedBelow'
  BY <1>2, <1>3, FilesSameBelow DEF CallInv, PrjOK
<1>5. CallsOK'
  BY <1>1, NoCalls DEF CallsOK
<1>6. Rebuild \in BOOLEAN /\ filesRefreshed' = Rebuild
  BY RefreshEndParts DEF CallInv, FlagsOK, Rebuild
<1>7. quiet' \in BOOLEAN
  <2>1. quiet \in BOOLEAN
    BY DEF CallInv, FlagsOK
  <2>2. CASE Rebuild
    BY <2>2, RefreshEndParts
  <2>3. CASE ~Rebuild
    <3>1. quiet' = (quiet \/ Activated)
      BY <2>3, RefreshEndParts
    <3> QED BY <2>1, <3>1
  <2> QED BY <2>2, <2>3
<1>8. FlagsOK'
  BY <1>1, <1>6, <1>7 DEF CallInv, FlagsOK
<1> QED BY <1>1, <1>4, <1>5, <1>8 DEF CallInv, DiskOK, WorkspaceAdded

LEMMA CallsTags ==
    ASSUME CallInv, TagsRefreshed \/ UNCHANGED vars
    PROVE  CallInv'
<1>1. /\ UNCHANGED <<exists, mtime, open, projects, calls, quiet>>
      /\ pc' = pc \/ pc' = "idle"
  BY DEF TagsRefreshed, vars, disk
<1>2. filesRefreshed' = filesRefreshed \/ filesRefreshed' = FALSE
  BY DEF TagsRefreshed, vars, lists
<1>3. FlagsOK'
  BY <1>1, <1>2 DEF CallInv, FlagsOK
<1>4. DiskOK'
  BY <1>1 DEF CallInv, DiskOK
<1>5. PrjOK' /\ CallsOK' /\ ListedBelow'
  BY <1>1 DEF CallInv, PrjOK, CallsOK, ListedBelow
<1>6. WorkspaceAdded'
  BY <1>1 DEF CallInv, WorkspaceAdded, Top
<1> QED BY <1>3, <1>4, <1>5, <1>6 DEF CallInv

LEMMA CallsStep ==
    ASSUME IInv, [Next]_vars
    PROVE  CallInv'
<1>1. CallInv
  BY DEF IInv
<1>2. CASE UNCHANGED vars
  BY <1>1, <1>2, CallsTags
<1>3. ASSUME NEW p \in Projects,
             EditProject(p) \/ DeleteProject(p) \/ RestoreProject(p)
      PROVE  CallInv'
  BY <1>1, <1>3, CallsDisk
<1>4. ASSUME NEW p \in Projects, NEW b \in BOOLEAN, AddProject(p, b) \/ SetActive(p, b)
      PROVE  CallInv'
  BY <1>1, <1>4, CallsInterface
<1>5. ASSUME OpenOrClose \/ RefreshFileList \/ AddProjectEnd
      PROVE  CallInv'
  <2>1. Extra \in Projects
    BY WorkspaceAssumption
  <2> QED BY <1>1, <1>5, <2>1, CallsInterface
<1>6. CASE CallSteps
  BY <1>1, <1>6, CallsGone, CallsAddHelper, CallsReadFails, CallsReadProject, CallsReadSolution
     DEF CallSteps
<1>7. CASE Refresh \/ RefreshEnd \/ TagsRefreshed
  BY <1>1, <1>7, CallsRefresh, CallsRefreshEnd, CallsTags
<1> QED BY <1>2, <1>3, <1>4, <1>5, <1>6, <1>7 DEF Next, JobSteps

(***************************************************************************)
(* Every step keeps the invariant of the File objects                      *)
(***************************************************************************)
\* A step in which the files of one project change, after File::Create() has made
\* the counts r.
LEMMA FilesStep ==
    ASSUME PrjOK, PrjOK', FileInv, NEW r, NEW p \in Projects,
           MapOK(globalMap'), DOMAIN globalMap \subseteq DOMAIN globalMap',
           \A n \in DOMAIN globalMap : globalMap'[n] = globalMap[n],
           \A o \in Objects : r[o] = Count(projects, globalMap', fileList, activeList, o),
           UNCHANGED <<fileList, activeList>>,
           \A q \in Projects \ {p} : FilesIn(projects', q) = FilesIn(projects, q),
           \A o \in FilesIn(projects', p) : o \in FilesIn(projects, p) \/ Mapped(globalMap', o),
           refs' = [o \in Objects |-> refs'[o]],
           \A o \in Objects : refs'[o] = r[o] - Bit(o \in FilesIn(projects, p))
                                           + Bit(o \in FilesIn(projects', p))
    PROVE  FileInv'
<1>1. ASSUME NEW o \in Objects
      PROVE  /\ refs'[o] = Count(projects', globalMap', fileList', activeList', o)
             /\ refs'[o] \in Nat
  <2>1. Cardinality(Holding(projects', o)) =
           Cardinality(Holding(projects, o)) - Bit(o \in FilesIn(projects, p))
                                             + Bit(o \in FilesIn(projects', p))
    BY HoldingStep DEF PrjOK
  <2>2. /\ Cardinality(Holding(projects, o)) \in Nat
        /\ Cardinality(Holding(projects', o)) \in Nat
    BY HoldingFinite DEF PrjOK
  <2>3. \A b : Bit(b) \in Nat
    BY DEF Bit
  <2> DEFINE m == Bit(Mapped(globalMap', o))
             a == Bit(o \in fileList)
             c == Bit(o \in activeList)
             x == Bit(o \in FilesIn(projects, p))
             x2 == Bit(o \in FilesIn(projects', p))
  <2>4. /\ r[o] = Cardinality(Holding(projects, o)) + m + a + c
        /\ Count(projects', globalMap', fileList', activeList', o) =
              Cardinality(Holding(projects', o)) + m + a + c
        /\ refs'[o] = r[o] - x + x2
    BY DEF Count
  <2>5. m \in Nat /\ a \in Nat /\ c \in Nat /\ x \in Nat /\ x2 \in Nat
    BY <2>3
  <2> HIDE DEF m, a, c, x, x2
  <2>6. Cardinality(Holding(projects', o)) = Cardinality(Holding(projects, o)) - x + x2
    BY <2>1 DEF x, x2
  <2> QED BY <2>2, <2>4, <2>5, <2>6
<1>2. ObjectsOK'
  <2>1. refs' \in [Objects -> Nat]
    BY <1>1
  <2> QED BY <2>1 DEF FileInv, ObjectsOK
<1>3. OneFilePerName'
  <2>1. \A o \in fileList \cup FilesOf(projects, DOMAIN projects) : Mapped(globalMap', o)
    BY DEF FileInv, OneFilePerName, Mapped
  <2>2. ASSUME NEW q \in DOMAIN projects', NEW o \in projects'[q].files
        PROVE  Mapped(globalMap', o)
    <3>1. q \in Projects /\ o \in FilesIn(projects', q)
      BY DEF PrjOK, FilesIn
    <3>2. o \in FilesIn(projects, q) \/ Mapped(globalMap', o)
      BY <3>1
    <3>3. CASE o \in FilesIn(projects, q)
      <4>1. o \in FilesOf(projects, DOMAIN projects)
        BY <3>3 DEF FilesIn, FilesOf
      <4> QED BY <2>1, <4>1
    <3> QED BY <3>2, <3>3
  <2> QED BY <2>1, <2>2 DEF OneFilePerName, FilesOf, Mapped
<1>4. ActiveOnce'
  BY DEF FileInv, ActiveOnce
<1> QED BY <1>1, <1>2, <1>3, <1>4 DEF FileInv, CountsExact

\* A step in which no project's files change, nor the heap, nor the lists.
LEMMA FilesSame ==
    ASSUME PrjOK, PrjOK', FileInv, UNCHANGED <<heap, fileList, activeList>>,
           DOMAIN projects' = DOMAIN projects,
           \A q \in DOMAIN projects : projects'[q].files = projects[q].files
    PROVE  FileInv'
<1>1. UNCHANGED <<globalMap, refs, fileList, activeList>>
  BY DEF heap
<1>2. \A o : Holding(projects', o) = Holding(projects, o)
  BY DEF Holding
<1>3. FilesOf(projects', DOMAIN projects') = FilesOf(projects, DOMAIN projects)
  BY DEF FilesOf
<1>4. CountsExact'
  BY <1>1, <1>2 DEF FileInv, CountsExact, Count
<1>5. OneFilePerName'
  BY <1>1, <1>3 DEF FileInv, OneFilePerName
<1> QED BY <1>1, <1>4, <1>5 DEF FileInv, ObjectsOK, ActiveOnce

LEMMA FilesInterface ==
    ASSUME IInv, CallInv', NEW p \in Projects, NEW b \in BOOLEAN,
           \/ EditProject(p) \/ DeleteProject(p) \/ RestoreProject(p) \/ AddProject(p, b)
           \/ SetActive(p, b) \/ AddProjectEnd \/ RefreshFileList \/ ReadFails
           \/ Refresh \/ TagsRefreshed \/ UNCHANGED vars
    PROVE  FileInv'
<1>1. UNCHANGED <<heap, fileList, activeList>>
  BY DEF EditProject, DeleteProject, RestoreProject, AddProject, SetActive, AddProjectEnd,
         RefreshFileList, ReadFails, Refresh, TagsRefreshed, vars, lists
<1>2. PrjOK /\ PrjOK' /\ FileInv
  BY DEF IInv, CallInv
<1>3. CASE UNCHANGED projects
  BY <1>1, <1>2, <1>3, FilesSame
<1>4. CASE SetActive(p, b)
  <2>1. projects' = [projects EXCEPT ![p].active = b, ![p].changed = TRUE]
    BY <1>4 DEF SetActive
  <2>2. \A q \in DOMAIN projects : projects'[q].files = projects[q].files
    BY <1>2, <2>1 DEF PrjOK, Project
  <2> QED BY <1>1, <1>2, <2>1, <2>2, FilesSame
<1>5. CASE Refresh
  <2>1. projects' = [q \in DOMAIN projects |-> [projects[q] EXCEPT !.member = FALSE]]
    BY <1>5 DEF Refresh
  <2>2. \A q \in DOMAIN projects : projects'[q].files = projects[q].files
    BY <1>2, <2>1 DEF PrjOK, Project
  <2> QED BY <1>1, <1>2, <2>1, <2>2, FilesSame
<1> QED BY <1>3, <1>4, <1>5 DEF EditProject, DeleteProject, RestoreProject, AddProject,
           AddProjectEnd, RefreshFileList, ReadFails, TagsRefreshed, vars

LEMMA FilesGone ==
    ASSUME IInv, CallInv', AddGone
    PROVE  FileInv'
<1> DEFINE p == Top.name
<1>1. /\ p \in DOMAIN projects
      /\ projects' = [q \in DOMAIN projects \ {p} |-> projects[q]]
      /\ refs' = Release(refs, projects[p].files)
      /\ UNCHANGED <<globalMap, fileList, activeList>>
  BY DEF AddGone, lists
<1>2. PrjOK /\ PrjOK' /\ FileInv /\ p \in Projects
  BY <1>1 DEF IInv, CallInv, PrjOK
<1> HIDE DEF p
<1>3. /\ FilesIn(projects', p) = {} /\ FilesIn(projects, p) = projects[p].files
      /\ \A q \in Projects \ {p} : FilesIn(projects', q) = FilesIn(projects, q)
  BY <1>1 DEF FilesIn
<1>4. \A o \in Objects : refs[o] = Count(projects, globalMap', fileList, activeList, o)
  BY <1>1, <1>2 DEF FileInv, CountsExact
<1>5. refs' = [o \in Objects |-> refs'[o]]
  BY <1>1 DEF Release
<1>6. ASSUME NEW o \in Objects
      PROVE  refs'[o] = refs[o] - Bit(o \in FilesIn(projects, p)) + Bit(o \in FilesIn(projects', p))
  <2>1. refs[o] \in Nat
    BY <1>2 DEF FileInv, ObjectsOK
  <2>2. refs'[o] = IF o \in projects[p].files THEN refs[o] - 1 ELSE refs[o]
    BY <1>1 DEF Release
  <2>3. Bit(o \in FilesIn(projects', p)) = 0
    BY <1>3 DEF Bit
  <2>4. CASE o \in projects[p].files
    <3>1. Bit(o \in FilesIn(projects, p)) = 1
      BY <1>3, <2>4 DEF Bit
    <3> QED BY <2>1, <2>2, <2>3, <2>4, <3>1
  <2>5. CASE o \notin projects[p].files
    <3>1. Bit(o \in FilesIn(projects, p)) = 0
      BY <1>3, <2>5 DEF Bit
    <3> QED BY <2>1, <2>2, <2>3, <2>5, <3>1
  <2> QED BY <2>4, <2>5
<1>7. MapOK(globalMap')
  BY <1>1, <1>2 DEF FileInv, ObjectsOK
<1> QED BY <1>1, <1>2, <1>3, <1>4, <1>5, <1>6, <1>7, FilesStep

\* FileList::Add() adds the File objects of the map, and none that the list has.
LEMMA AddedFiles ==
    ASSUME PrjOK, FileInv, NEW S \in SUBSET Names, NEW L \in SUBSET Objects
    PROVE  \A o \in Added(Create(S), L, S) :
              /\ o \in Objects /\ o \notin L
              /\ Mapped(Create(S).map, o) /\ o[1] \in S
<1> DEFINE m == Create(S).map
<1>1. MapOK(m) /\ DOMAIN m = DOMAIN globalMap \cup S
  BY CreateKeeps
<1> SUFFICES ASSUME NEW o \in Added(Create(S), L, S)
             PROVE  /\ o \in Objects /\ o \notin L
                    /\ Mapped(m, o) /\ o[1] \in S
  OBVIOUS
<1>2. PICK n \in S \ NamesOf(L) : o = m[n]
  BY DEF Added
<1> HIDE DEF m
<1>3. o \in Objects /\ o[1] = n
  BY <1>1, <1>2 DEF MapOK
<1>4. o \notin L
  BY <1>2, <1>3 DEF NamesOf
<1> QED BY <1>1, <1>2, <1>3, <1>4 DEF Mapped

\* What a step with File::Create() and FileList::Add() does to a count.
LEMMA AddedRefs ==
    ASSUME NEW r, DOMAIN r = Objects, NEW o \in Objects, r[o] \in Nat,
           NEW files, NEW added, NEW now, added \cap files = {}, now \subseteq files \cup added
    PROVE  /\ AddRefs(r, added)[o] = r[o] - Bit(o \in files) + Bit(o \in files \cup added)
           /\ Release(AddRefs(r, added), (files \cup added) \ now)[o] =
                 r[o] - Bit(o \in files) + Bit(o \in now)
<1>1. AddRefs(r, added)[o] = IF o \in added THEN r[o] + 1 ELSE r[o]
  BY DEF AddRefs
<1>2. Release(AddRefs(r, added), (files \cup added) \ now)[o] =
         IF o \in (files \cup added) \ now THEN AddRefs(r, added)[o] - 1 ELSE AddRefs(r, added)[o]
  BY DEF Release
<1>3. \A b : Bit(b) = IF b THEN 1 ELSE 0
  BY DEF Bit
<1>4. CASE o \in added
  <2>1. o \notin files /\ o \in files \cup added
    BY <1>4
  <2>2. Bit(o \in files) = 0 /\ Bit(o \in files \cup added) = 1
    BY <2>1 DEF Bit
  <2>3. CASE o \in now
    <3>1. Bit(o \in now) = 1
      BY <2>3 DEF Bit
    <3> QED BY <1>1, <1>2, <1>4, <2>1, <2>2, <2>3, <3>1
  <2>4. CASE o \notin now
    <3>1. Bit(o \in now) = 0
      BY <2>4 DEF Bit
    <3> QED BY <1>1, <1>2, <1>4, <2>1, <2>2, <2>4, <3>1
  <2> QED BY <2>3, <2>4
<1>5. CASE o \in files
  <2>1. o \notin added /\ o \in files \cup added
    BY <1>5
  <2>2. Bit(o \in files) = 1 /\ Bit(o \in files \cup added) = 1
    BY <1>5 DEF Bit
  <2>3. CASE o \in now
    <3>1. Bit(o \in now) = 1
      BY <2>3 DEF Bit
    <3> QED BY <1>1, <1>2, <2>1, <2>2, <2>3, <3>1
  <2>4. CASE o \notin now
    <3>1. Bit(o \in now) = 0
      BY <2>4 DEF Bit
    <3> QED BY <1>1, <1>2, <2>1, <2>2, <2>4, <3>1
  <2> QED BY <2>3, <2>4
<1>6. CASE o \notin files \cup added
  <2>1. o \notin files /\ o \notin added /\ o \notin now
    BY <1>6
  <2>2. Bit(o \in files) = 0 /\ Bit(o \in files \cup added) = 0 /\ Bit(o \in now) = 0
    BY <1>6, <2>1 DEF Bit
  <2> QED BY <1>1, <1>2, <1>6, <2>1, <2>2
<1> QED BY <1>4, <1>5, <1>6

\* The step of one project's files: those added, and those of them that stay.
LEMMA FilesAdded ==
    ASSUME PrjOK, PrjOK', FileInv, NEW S \in SUBSET Names, NEW p \in DOMAIN projects, NEW now,
           UNCHANGED <<fileList, activeList>>,
           globalMap' = Create(S).map,
           \A q \in Projects \ {p} : FilesIn(projects', q) = FilesIn(projects, q),
           FilesIn(projects', p) = now,
           LET files == FilesIn(projects, p)
               added == Added(Create(S), files, S)
           IN /\ now \subseteq files \cup added
              /\ \/ refs' = Release(AddRefs(Create(S).refs, added), (files \cup added) \ now)
                 \/ refs' = AddRefs(Create(S).refs, added) /\ now = files \cup added
    PROVE  FileInv'
<1> DEFINE files == FilesIn(projects, p)
           added == Added(Create(S), files, S)
           r == Create(S).refs
           m == Create(S).map
<1>1. p \in Projects /\ files \in SUBSET Objects
  BY KnownProject DEF FilesIn
<1>2. /\ MapOK(m) /\ DOMAIN m = DOMAIN globalMap \cup S
      /\ \A n \in DOMAIN globalMap : m[n] = globalMap[n]
      /\ DOMAIN r = Objects
      /\ \A o \in Objects : r[o] = Count(projects, m, fileList, activeList, o)
  BY CreateKeeps
<1> HIDE DEF files
<1>3. \A o \in added : o \in Objects /\ o \notin files /\ Mapped(m, o)
  BY <1>1, AddedFiles
<1>4. /\ now \subseteq files \cup added
      /\ \/ refs' = Release(AddRefs(r, added), (files \cup added) \ now)
         \/ refs' = AddRefs(r, added) /\ now = files \cup added
  BY DEF files
<1> HIDE DEF added, r, m
<1>5. ASSUME NEW o \in Objects
      PROVE  refs'[o] = r[o] - Bit(o \in files) + Bit(o \in now)
  <2>1. r[o] \in Nat
    <3>1. Cardinality(Holding(projects, o)) \in Nat
      BY HoldingFinite DEF PrjOK
    <3>2. \A b : Bit(b) \in Nat
      BY DEF Bit
    <3> QED BY <1>2, <3>1, <3>2 DEF Count
  <2>2. added \cap files = {}
    BY <1>3
  <2>3. /\ AddRefs(r, added)[o] = r[o] - Bit(o \in files) + Bit(o \in files \cup added)
        /\ Release(AddRefs(r, added), (files \cup added) \ now)[o] =
              r[o] - Bit(o \in files) + Bit(o \in now)
    BY <1>2, <1>4, <2>1, <2>2, AddedRefs
  <2> QED BY <1>4, <2>3
<1>6. refs' = [o \in Objects |-> refs'[o]]
  <2>1. CASE refs' = AddRefs(r, added)
    BY <2>1 DEF AddRefs
  <2>2. CASE refs' = Release(AddRefs(r, added), (files \cup added) \ now)
    BY <2>2 DEF Release
  <2> QED BY <1>4, <2>1, <2>2
<1>7. \A o \in FilesIn(projects', p) : o \in FilesIn(projects, p) \/ Mapped(globalMap', o)
  BY <1>3, <1>4 DEF files, m
<1>8. globalMap' = m /\ files = FilesIn(projects, p)
  BY DEF m, files
<1> QED BY <1>1, <1>2, <1>5, <1>6, <1>7, <1>8, FilesStep

LEMMA FilesReadProject ==
    ASSUME IInv, CallInv', ReadProject
    PROVE  FileInv'
<1> DEFINE p == Top.name
           list == Lists[p][mtime[p]]
           h == Create(ToSet(list))
           files == projects[p].files
           added == Added(h, files, ToSet(list))
           now == Relisted(files \cup added, ToSet(list))
<1>1. /\ Reading
      /\ projects' = [projects EXCEPT ![p].files = now]
      /\ globalMap' = h.map
      /\ refs' = Release(AddRefs(h.refs, added), (files \cup added) \ now)
      /\ UNCHANGED <<fileList, activeList>>
  BY DEF ReadProject
<1>2. PrjOK /\ PrjOK' /\ FileInv /\ CallInv
  BY SMTT(30) DEF IInv, CallInv
<1>3. p \in DOMAIN projects /\ ToSet(list) \in SUBSET Names
  BY <1>1, <1>2, FileRead
<1>4. now \subseteq files \cup added
  BY DEF Relisted
<1>5. files = FilesIn(projects, p)
  BY <1>3 DEF FilesIn
<1> HIDE DEF now
<1>6. FilesIn(projects', p) = now
  <2> HIDE DEF p
  <2>1. projects[p] \in Project
    BY <1>2, <1>3, KnownProject
  <2> QED BY <1>1, <1>3, <2>1 DEF FilesIn, Project
<1>7. \A q \in Projects \ {p} : FilesIn(projects', q) = FilesIn(projects, q)
  BY <1>1 DEF FilesIn
<1> DEFINE S == ToSet(list)
<1> HIDE DEF p, list
<1>8. /\ S \in SUBSET Names /\ globalMap' = Create(S).map
      /\ now \subseteq FilesIn(projects, p) \cup Added(Create(S), FilesIn(projects, p), S)
      /\ refs' = Release(AddRefs(Create(S).refs, Added(Create(S), FilesIn(projects, p), S)),
                         (FilesIn(projects, p) \cup Added(Create(S), FilesIn(projects, p), S)) \ now)
  BY <1>1, <1>3, <1>4, <1>5
<1> HIDE DEF S
<1> QED BY <1>1, <1>2, <1>3, <1>6, <1>7, <1>8, FilesAdded

LEMMA FilesReadSolution ==
    ASSUME IInv, CallInv', ReadSolution
    PROVE  FileInv'
<1> DEFINE p == Top.name
           h == Create({p})
           files == projects[p].files
           added == Added(h, files, {p})
<1>1. /\ Reading
      /\ projects' = [projects EXCEPT ![p].files = files \cup added]
      /\ globalMap' = h.map
      /\ refs' = AddRefs(h.refs, added)
      /\ UNCHANGED <<fileList, activeList>>
  BY DEF ReadSolution, lists
<1>2. PrjOK /\ PrjOK' /\ FileInv /\ CallInv
  BY DEF IInv, CallInv
<1>3. p \in DOMAIN projects /\ p \in Projects
  BY <1>1, <1>2, FileRead
<1>4. {p} \in SUBSET Names
  BY <1>3 DEF Names
<1>5. files = FilesIn(projects, p)
  BY <1>3 DEF FilesIn
<1> DEFINE now == files \cup added
           S == {p}
<1>6. /\ projects' = [projects EXCEPT ![p].files = now] /\ globalMap' = Create(S).map
      /\ refs' = AddRefs(Create(S).refs, Added(Create(S), FilesIn(projects, p), S))
      /\ now = FilesIn(projects, p) \cup Added(Create(S), FilesIn(projects, p), S)
      /\ S \in SUBSET Names
  BY <1>1, <1>4, <1>5
<1> HIDE DEF now, S, p
<1>7. FilesIn(projects', p) = now
  <2>1. projects[p] \in Project
    BY <1>2, <1>3, KnownProject
  <2> QED BY <1>3, <1>6, <2>1 DEF FilesIn, Project
<1>8. \A q \in Projects \ {p} : FilesIn(projects', q) = FilesIn(projects, q)
  BY <1>6 DEF FilesIn
<1> QED BY <1>1, <1>2, <1>3, <1>6, <1>7, <1>8, FilesAdded

LEMMA FilesAddHelper ==
    ASSUME IInv, CallInv', AddHelper
    PROVE  FileInv'
<1> DEFINE p == Top.name
           h == Create(IF Top.lister = NoProject THEN {} ELSE {p})
           listed == IF Top.lister = NoProject THEN {}
                     ELSE Added(h, projects[Top.lister].files, {p})
<1>1. /\ calls # << >> /\ globalMap' = h.map /\ refs' = AddRefs(h.refs, listed)
      /\ UNCHANGED <<fileList, activeList>>
  BY DEF AddHelper, Calling, lists
<1>2. PrjOK /\ PrjOK' /\ FileInv /\ CallsOK
  BY DEF IInv, CallInv
<1>3. /\ p \in Projects /\ Top.lister # p
      /\ Top.lister # NoProject => Top.lister \in DOMAIN projects
  BY <1>1, <1>2, TopCall
<1>4. /\ \A q \in Projects \ {Top.lister} : FilesIn(projects', q) = FilesIn(projects, q)
      /\ Top.lister # NoProject =>
            FilesIn(projects', Top.lister) = FilesIn(projects, Top.lister)
               \cup Added(Create({p}), FilesIn(projects, Top.lister), {p})
  BY AddHelperProjects
<1>5. CASE Top.lister = NoProject
  <2> DEFINE r == Create({}).refs
  <2>1. globalMap' = Create({}).map /\ refs' = AddRefs(r, {})
    BY <1>1, <1>5
  <2>2. /\ MapOK(globalMap') /\ DOMAIN globalMap \subseteq DOMAIN globalMap'
        /\ \A n \in DOMAIN globalMap : globalMap'[n] = globalMap[n]
        /\ \A o \in Objects : r[o] = Count(projects, globalMap', fileList, activeList, o)
    <3>1. {} \in SUBSET Names
      OBVIOUS
    <3>2. /\ MapOK(Create({}).map) /\ DOMAIN Create({}).map = DOMAIN globalMap \cup {}
          /\ \A n \in DOMAIN globalMap : Create({}).map[n] = globalMap[n]
          /\ \A o \in Objects : r[o] = Count(projects, Create({}).map, fileList, activeList, o)
      BY <1>2, <3>1, CreateKeeps
    <3> HIDE DEF r
    <3> QED BY <2>1, <3>2
  <2> HIDE DEF r
  <2>3. FilesIn(projects', p) = FilesIn(projects, p)
    BY <1>3, <1>4
  <2>4. \A q \in Projects : FilesIn(projects', q) = FilesIn(projects, q)
    <3>1. Top.lister \notin Projects
      BY <1>5, WorkspaceAssumption DEF Names
    <3> QED BY <1>4, <3>1
  <2>5. refs' = [o \in Objects |-> refs'[o]]
    BY <2>1 DEF AddRefs
  <2>6. ASSUME NEW o \in Objects
        PROVE  refs'[o] = r[o] - Bit(o \in FilesIn(projects, p)) + Bit(o \in FilesIn(projects', p))
    <3>1. refs'[o] = r[o]
      BY <2>1 DEF AddRefs
    <3>2. r[o] \in Nat
      <4>1. Cardinality(Holding(projects, o)) \in Nat /\ \A b : Bit(b) \in Nat
        BY <1>2, HoldingFinite DEF PrjOK, Bit
      <4> QED BY <2>2, <4>1 DEF Count
    <3>3. Bit(o \in FilesIn(projects, p)) \in Nat
      BY DEF Bit
    <3> QED BY <2>3, <3>1, <3>2, <3>3
  <2>7. \A o \in FilesIn(projects', p) : o \in FilesIn(projects, p) \/ Mapped(globalMap', o)
    BY <2>3
  <2> HIDE DEF p
  <2> QED BY <1>1, <1>2, <1>3, <2>2, <2>4, <2>5, <2>6, <2>7, FilesStep
<1>6. CASE Top.lister # NoProject
  <2> DEFINE q == Top.lister
             S == {p}
             added == Added(Create(S), FilesIn(projects, q), S)
  <2>1. q \in DOMAIN projects /\ S \in SUBSET Names
    BY <1>3, <1>6 DEF Names
  <2>2. globalMap' = Create(S).map /\ refs' = AddRefs(Create(S).refs, added)
    BY <1>1, <1>6, <2>1 DEF FilesIn
  <2>3. FilesIn(projects', q) = FilesIn(projects, q) \cup added
    BY <1>4, <1>6
  <2>4. \A x \in Projects \ {q} : FilesIn(projects', x) = FilesIn(projects, x)
    BY <1>4
  <2> DEFINE now == FilesIn(projects, q) \cup added
  <2>5. now = FilesIn(projects, q) \cup Added(Create(S), FilesIn(projects, q), S)
    OBVIOUS
  <2>6. FilesIn(projects', q) = now
    BY <2>3
  <2> HIDE DEF S, q, now
  <2> QED BY <1>1, <1>2, <2>1, <2>2, <2>4, <2>5, <2>6, FilesAdded
<1> QED BY <1>5, <1>6, SMTT(30)

LEMMA FilesOpenOrClose ==
    ASSUME IInv, CallInv', OpenOrClose
    PROVE  FileInv'
<1>1. /\ projects' = << >> /\ fileList' = {} /\ globalMap' = << >>
      /\ refs' = [o \in Objects |-> IF o \in activeList THEN 1 ELSE 0]
      /\ activeList' = activeList
  BY DEF OpenOrClose, RemoveAll
<1>2. DOMAIN projects' = {} /\ DOMAIN globalMap' = {}
  BY <1>1
<1>3. ASSUME NEW o \in Objects
      PROVE  refs'[o] = Count(projects', globalMap', fileList', activeList', o)
  <2>1. Cardinality(Holding(projects', o)) = 0
    BY <1>2, FS_EmptySet DEF Holding
  <2>2. Bit(Mapped(globalMap', o)) = 0 /\ Bit(o \in fileList') = 0
    BY <1>1, <1>2 DEF Mapped, Bit
  <2>3. refs'[o] = Bit(o \in activeList')
    BY <1>1 DEF Bit
  <2>4. Bit(o \in activeList') \in Nat
    BY DEF Bit
  <2> QED BY <2>1, <2>2, <2>3, <2>4 DEF Count
<1>4. ObjectsOK' /\ ActiveOnce'
  BY <1>1, <1>2 DEF IInv, FileInv, ObjectsOK, MapOK, ActiveOnce
<1>5. OneFilePerName'
  BY <1>1, <1>2 DEF OneFilePerName, FilesOf
<1> QED BY <1>3, <1>4, <1>5 DEF FileInv, CountsExact

\* The projects that are swept give their files back.
LEMMA SweptCounts ==
    ASSUME IInv, RefreshEnd, NEW o \in Objects
    PROVE  AfterSweep[o] = Count(projects', globalMap, fileList, activeList, o)
<1> DEFINE H == Holding(projects, o)
           S == {p \in Swept : o \in projects[p].files}
<1>1. IsFiniteSet(H) /\ Cardinality(H) \in Nat
  BY HoldingFinite DEF IInv, CallInv, PrjOK
<1>2. S \subseteq H
  BY DEF Swept, Holding
<1>3. Holding(projects', o) = H \ S
  <2>1. projects' = [p \in Kept |-> Marked[p]]
    BY RefreshEndParts
  <2>2. \A p \in Kept : p \in DOMAIN projects /\ projects'[p].files = projects[p].files
    BY <2>1, MarkedProject DEF Kept, IInv
  <2>3. DOMAIN projects' = Kept
    BY <2>1
  <2> QED BY <2>2, <2>3 DEF Holding, Kept
<1> HIDE DEF H, S
<1>4. IsFiniteSet(S) /\ Cardinality(S) \in Nat /\ H \cap S = S
  BY <1>1, <1>2, FS_Subset, FS_CardinalityType
<1>5. Cardinality(H \ S) = Cardinality(H) - Cardinality(S)
  BY <1>1, <1>4, FS_Difference
<1>6. AfterSweep[o] = refs[o] - Cardinality(S)
  BY DEF AfterSweep, S
<1>7. refs[o] = Cardinality(H) + Bit(Mapped(globalMap, o)) + Bit(o \in fileList)
                + Bit(o \in activeList)
  BY DEF IInv, FileInv, CountsExact, Count, H
<1>8. /\ Bit(Mapped(globalMap, o)) \in Nat /\ Bit(o \in fileList) \in Nat
      /\ Bit(o \in activeList) \in Nat
  BY DEF Bit
<1>9. Count(projects', globalMap, fileList, activeList, o) =
         Cardinality(H \ S) + Bit(Mapped(globalMap, o)) + Bit(o \in fileList)
         + Bit(o \in activeList)
  BY <1>3 DEF Count
<1> QED BY <1>1, <1>4, <1>5, <1>6, <1>7, <1>8, <1>9

\* And the lists that are built again have their files in the place of the old ones.
LEMMA BuiltCounts ==
    ASSUME IInv, CallInv', RefreshEnd, NEW o \in Objects
    PROVE  /\ AfterBuild[o] = Count(projects', globalMap, AllFiles, ActiveFiles, o)
           /\ AfterBuild[o] \in Nat
<1> DEFINE f == Bit(o \in fileList)
           a == Bit(o \in activeList)
           f2 == Bit(o \in AllFiles)
           a2 == Bit(o \in ActiveFiles)
           r1 == Release(AfterSweep, fileList)
           r2 == Release(r1, activeList)
           r3 == AddRefs(r2, AllFiles)
<1>1. /\ Cardinality(Holding(projects', o)) \in Nat /\ Bit(Mapped(globalMap, o)) \in Nat
      /\ f \in {0, 1} /\ a \in {0, 1} /\ f2 \in {0, 1} /\ a2 \in {0, 1}
  BY HoldingFinite DEF CallInv, PrjOK, Bit
<1>2. /\ f = IF o \in fileList THEN 1 ELSE 0
      /\ a = IF o \in activeList THEN 1 ELSE 0
      /\ f2 = IF o \in AllFiles THEN 1 ELSE 0
      /\ a2 = IF o \in ActiveFiles THEN 1 ELSE 0
  BY DEF Bit
<1>3. r1[o] = IF o \in fileList THEN AfterSweep[o] - 1 ELSE AfterSweep[o]
  BY DEF Release
<1>4. r2[o] = IF o \in activeList THEN r1[o] - 1 ELSE r1[o]
  <2> HIDE DEF r1
  <2> QED BY DEF Release
<1>5. r3[o] = IF o \in AllFiles THEN r2[o] + 1 ELSE r2[o]
  <2> HIDE DEF r2
  <2> QED BY DEF AddRefs
<1>6. AfterBuild[o] = IF o \in ActiveFiles THEN r3[o] + 1 ELSE r3[o]
  <2>1. AfterBuild = AddRefs(r3, ActiveFiles)
    BY DEF AfterBuild
  <2> HIDE DEF r3
  <2> QED BY <2>1 DEF AddRefs
<1>7. /\ AfterSweep[o] = Cardinality(Holding(projects', o)) + Bit(Mapped(globalMap, o)) + f + a
      /\ Count(projects', globalMap, AllFiles, ActiveFiles, o) =
            Cardinality(Holding(projects', o)) + Bit(Mapped(globalMap, o)) + f2 + a2
  BY SweptCounts DEF Count
<1> HIDE DEF f, a, f2, a2, r1, r2, r3
<1>8. AfterSweep[o] \in Int
  BY <1>1, <1>7
<1>9. r1[o] = AfterSweep[o] - f /\ r1[o] \in Int
  BY <1>2, <1>3, <1>8
<1>10. r2[o] = r1[o] - a /\ r2[o] \in Int
  BY <1>2, <1>4, <1>9
<1>11. r3[o] = r2[o] + f2 /\ r3[o] \in Int
  BY <1>2, <1>5, <1>10
<1>12. AfterBuild[o] = r3[o] + a2
  BY <1>2, <1>6, <1>11
<1> QED BY <1>1, <1>7, <1>8, <1>9, <1>10, <1>11, <1>12

\* Every file of a project that stays is the File object of its name.
LEMMA KeptFiles ==
    ASSUME IInv, RefreshEnd
    PROVE  /\ AllFiles = FilesOf(projects', DOMAIN projects') /\ ActiveFiles \subseteq AllFiles
           /\ \A o \in AllFiles : /\ o \in Objects /\ Mapped(globalMap, o)
                                  /\ \E p \in DOMAIN projects' : o \in projects'[p].files
<1>1. projects' = [p \in Kept |-> Marked[p]] /\ Kept \subseteq DOMAIN projects
  BY RefreshEndParts DEF Kept
<1>2. DOMAIN projects' = Kept /\ \A p \in Kept : projects'[p] = Marked[p]
  BY <1>1
<1>3. AllFiles = FilesOf(projects', DOMAIN projects') /\ ActiveFiles \subseteq AllFiles
  BY <1>2 DEF AllFiles, ActiveFiles, FilesOf
<1>4. ASSUME NEW o \in AllFiles
      PROVE  /\ o \in Objects /\ Mapped(globalMap, o)
             /\ \E p \in DOMAIN projects' : o \in projects'[p].files
  <2>1. PICK p \in Kept : o \in Marked[p].files
    BY DEF AllFiles, FilesOf
  <2>2. o \in projects[p].files /\ p \in DOMAIN projects
    BY <1>1, <2>1, MarkedProject DEF IInv
  <2>3. o \in Objects
    BY <2>2, KnownProject DEF IInv, CallInv
  <2>4. Mapped(globalMap, o)
    BY <2>2 DEF IInv, FileInv, OneFilePerName, FilesOf, Mapped
  <2> QED BY <1>2, <2>1, <2>3, <2>4
<1> QED BY <1>3, <1>4

LEMMA FilesRefreshEnd ==
    ASSUME IInv, CallInv', RefreshEnd
    PROVE  FileInv'
<1>1. FileInv /\ PrjOK'
  BY DEF IInv, CallInv
<1>2. CASE ~Rebuild
  <2>1. refs' = AfterSweep /\ UNCHANGED <<fileList, activeList, globalMap>>
    BY <1>2, RefreshEndParts
  <2>2. CountsExact'
    BY <2>1, SweptCounts DEF CountsExact
  <2>3. refs' \in [Objects -> Nat]
    <3>1. refs' = [o \in Objects |-> refs'[o]]
      BY <2>1 DEF AfterSweep
    <3>2. ASSUME NEW o \in Objects
          PROVE  refs'[o] \in Nat
      <4>1. Cardinality(Holding(projects', o)) \in Nat /\ \A b : Bit(b) \in Nat
        BY <1>1, HoldingFinite DEF PrjOK, Bit
      <4> QED BY <2>2, <4>1 DEF CountsExact, Count
    <3> QED BY <3>1, <3>2
  <2>4. ObjectsOK' /\ ActiveOnce'
    BY <1>1, <2>1, <2>3 DEF FileInv, ObjectsOK, ActiveOnce
  <2>5. OneFilePerName'
    BY <1>1, <2>1, KeptFiles DEF FileInv, OneFilePerName, Mapped
  <2> QED BY <2>2, <2>4, <2>5 DEF FileInv
<1>3. CASE Rebuild
  <2>1. /\ fileList' = AllFiles /\ activeList' = ActiveFiles
        /\ globalMap' = [n \in {m \in DOMAIN globalMap : globalMap[m] \notin UnusedFiles} |->
                            globalMap[n]]
        /\ refs' = Release(AfterBuild, UnusedFiles)
    BY <1>3, RefreshEndParts
  <2>2. ASSUME NEW o
        PROVE  Mapped(globalMap', o) <=> Mapped(globalMap, o) /\ o \notin UnusedFiles
    BY <2>1 DEF Mapped
  <2>3. MapOK(globalMap')
    BY <1>1, <2>1 DEF FileInv, ObjectsOK, MapOK
  <2>4. ASSUME NEW o \in UnusedFiles
        PROVE  Mapped(globalMap, o) /\ AfterBuild[o] = 1
    BY <1>1, <2>4 DEF UnusedFiles, Unused, Mapped, FileInv, ObjectsOK, MapOK
  <2>5. ASSUME NEW o \in Objects
        PROVE  refs'[o] = Count(projects', globalMap', fileList', activeList', o) /\ refs'[o] \in Nat
    <3>1. /\ AfterBuild[o] = Count(projects', globalMap, AllFiles, ActiveFiles, o)
          /\ AfterBuild[o] \in Nat
      BY BuiltCounts
    <3>2. /\ Cardinality(Holding(projects', o)) \in Nat /\ Bit(o \in AllFiles) \in Nat
          /\ Bit(o \in ActiveFiles) \in Nat
      BY <1>1, HoldingFinite DEF PrjOK, Bit
    <3>3. refs'[o] = IF o \in UnusedFiles THEN AfterBuild[o] - 1 ELSE AfterBuild[o]
      BY <2>1 DEF Release
    <3>4. CASE o \in UnusedFiles
      <4>1. Bit(Mapped(globalMap, o)) = 1 /\ Bit(Mapped(globalMap', o)) = 0
        BY <2>2, <2>4, <3>4 DEF Bit
      <4>2. AfterBuild[o] = 1
        BY <2>4, <3>4
      <4> QED BY <2>1, <3>1, <3>2, <3>3, <3>4, <4>1, <4>2 DEF Count
    <3>5. CASE o \notin UnusedFiles
      <4>1. Bit(Mapped(globalMap, o)) = Bit(Mapped(globalMap', o))
        BY <2>2, <3>5 DEF Bit
      <4> QED BY <2>1, <3>1, <3>3, <3>5, <4>1 DEF Count
    <3> QED BY <3>4, <3>5
  <2>6. ObjectsOK'
    <3>1. refs' = [o \in Objects |-> refs'[o]]
      BY <2>1 DEF Release
    <3>2. refs' \in [Objects -> Nat]
      BY <2>5, <3>1
    <3> QED BY <2>1, <2>3, <3>2, KeptFiles DEF ObjectsOK
  <2>7. ASSUME NEW o \in AllFiles
        PROVE  Mapped(globalMap', o)
    <3>1. /\ o \in Objects /\ Mapped(globalMap, o)
          /\ \E p \in DOMAIN projects' : o \in projects'[p].files
      BY KeptFiles
    <3>2. o \notin UnusedFiles
      <4>1. AfterBuild[o] = Count(projects', globalMap, AllFiles, ActiveFiles, o)
        BY <3>1, BuiltCounts
      <4>2. Bit(Mapped(globalMap, o)) = 1 /\ Bit(o \in AllFiles) = 1 /\ Bit(o \in ActiveFiles) \in Nat
        BY <3>1 DEF Bit
      <4>3. Cardinality(Holding(projects', o)) \in Nat
        BY <1>1, HoldingFinite DEF PrjOK
      <4>4. AfterBuild[o] # 1
        BY <4>1, <4>2, <4>3 DEF Count
      <4> QED BY <2>4, <4>4
    <3> QED BY <2>2, <3>1, <3>2
  <2>8. OneFilePerName'
    BY <2>1, <2>7, KeptFiles DEF OneFilePerName, Mapped
  <2>9. ActiveOnce'
    BY <2>1, KeptFiles DEF ActiveOnce, Mapped
  <2> QED BY <2>5, <2>6, <2>8, <2>9 DEF FileInv, CountsExact
<1> QED BY <1>2, <1>3

LEMMA FilesStepAll ==
    ASSUME IInv, CallInv', [Next]_vars
    PROVE  FileInv'
<1>1. Extra \in Projects /\ TRUE \in BOOLEAN
  BY WorkspaceAssumption
<1>2. CASE UNCHANGED vars \/ AddProjectEnd \/ RefreshFileList \/ ReadFails \/ Refresh \/ TagsRefreshed
  BY <1>1, <1>2, FilesInterface
<1>3. ASSUME NEW p \in Projects, NEW b \in BOOLEAN,
             \/ EditProject(p) \/ DeleteProject(p) \/ RestoreProject(p)
             \/ AddProject(p, b) \/ SetActive(p, b)
      PROVE  FileInv'
  BY <1>3, FilesInterface
<1>4. CASE OpenOrClose
  BY <1>4, FilesOpenOrClose
<1>5. CASE AddGone \/ AddHelper \/ ReadProject \/ ReadSolution
  BY <1>5, FilesGone, FilesAddHelper, FilesReadProject, FilesReadSolution
<1>6. CASE RefreshEnd
  BY <1>6, FilesRefreshEnd
<1> QED BY <1>1, <1>2, <1>3, <1>4, <1>5, <1>6 DEF Next, JobSteps, CallSteps

(***************************************************************************)
(* The invariant                                                           *)
(***************************************************************************)
LEMMA InvInit == Init => IInv
<1> SUFFICES ASSUME Init PROVE IInv
  OBVIOUS
<1>1. /\ projects = << >> /\ globalMap = << >> /\ fileList = {} /\ activeList = {}
      /\ refs = [o \in Objects |-> 0] /\ calls = << >> /\ pc = "idle"
      /\ open = FALSE /\ filesRefreshed = FALSE /\ quiet = FALSE
      /\ exists = [p \in Projects |-> TRUE] /\ mtime = [p \in Projects |-> 1]
  BY DEF Init
<1>2. DOMAIN projects = {} /\ DOMAIN globalMap = {}
  BY <1>1
<1>3. FlagsOK
  BY <1>1 DEF FlagsOK
<1>4. DiskOK
  <2>1. ASSUME NEW p \in Projects
        PROVE  1 \in DOMAIN Lists[p]
    <3>1. Lists[p] \in Seq(Seq(Names)) /\ Lists[p] # << >>
      BY WorkspaceAssumption
    <3> QED BY <3>1
  <2> QED BY <1>1, <2>1 DEF DiskOK
<1>5. PrjOK /\ ListedBelow
  BY <1>2 DEF PrjOK, ListedBelow
<1>6. CallsOK
  BY <1>1, NoCalls DEF CallsOK
<1>7. WorkspaceAdded
  <2>1. Workspace \in Projects
    BY WorkspaceAssumption
  <2> QED BY <1>1, <2>1 DEF WorkspaceAdded
<1>8. CountsExact
  <2> SUFFICES ASSUME NEW o \in Objects
               PROVE  Count(projects, globalMap, fileList, activeList, o) = 0
    BY <1>1 DEF CountsExact
  <2>1. Cardinality(Holding(projects, o)) = 0
    BY <1>2, FS_EmptySet DEF Holding
  <2>2. /\ Bit(Mapped(globalMap, o)) = 0 /\ Bit(o \in fileList) = 0
        /\ Bit(o \in activeList) = 0
    BY <1>1, <1>2 DEF Bit, Mapped
  <2> QED BY <2>1, <2>2 DEF Count
<1>9. ObjectsOK /\ OneFilePerName /\ ActiveOnce
  BY <1>1, <1>2 DEF ObjectsOK, MapOK, OneFilePerName, FilesOf, ActiveOnce
<1> QED BY <1>3, <1>4, <1>5, <1>6, <1>7, <1>8, <1>9 DEF IInv, CallInv, FileInv

THEOREM InvHolds == Spec => []IInv
<1>1. IInv /\ [Next]_vars => IInv'
  BY CallsStep, FilesStepAll DEF IInv
<1> QED BY <1>1, InvInit, PTL DEF Spec

\* The types, with what the calls still to be made refer to: a solution that is
\* being read stays known while the calls for its projects are made.
THEOREM WorkspaceTypeCorrect == Spec => []WorkspaceTypeOK
<1>1. IInv => WorkspaceTypeOK
  <2> SUFFICES ASSUME IInv PROVE WorkspaceTypeOK
    OBVIOUS
  <2>1. DiskOK /\ FlagsOK /\ PrjOK /\ CallsOK /\ ObjectsOK
    BY DEF IInv, CallInv, FileInv
  <2>2. \A i \in 1 .. Len(calls) : /\ calls[i].name \in Projects
                                   /\ calls[i].lister \in DOMAIN projects \cup {NoProject}
                                   /\ calls[i].reading => i = 1
    <3>1. calls \in Seq(CallType)
      BY <2>1 DEF CallsOK, CallsAre
    <3>2. \A i \in 1 .. Len(calls) : calls[i] \in CallType
      BY <3>1
    <3>3. \A i \in 1 .. Len(calls) : calls[i].name \in Projects
      BY <3>2 DEF CallType
    <3> QED BY <2>1, <3>3 DEF CallsOK, CallsAre
  <2> QED BY <2>1, <2>2 DEF WorkspaceTypeOK, DiskOK, FlagsOK, PrjOK, ObjectsOK, MapOK
<1> QED BY <1>1, InvHolds, PTL

\* The count of every File object is the number of lists it is in.
THEOREM RefsCorrect == Spec => []RefsExact
<1>1. IInv => RefsExact
  BY HoldersCount DEF IInv, FileInv, CountsExact, ObjectsOK, RefsExact
<1> QED BY <1>1, InvHolds, PTL

\* Projects that list the same file share its File object.
THEOREM OneFile == Spec => []OneFilePerName
<1>1. IInv => OneFilePerName
  BY DEF IInv, FileInv
<1> QED BY <1>1, InvHolds, PTL

(***************************************************************************)
(* The file lists of projects and their time stamps                        *)
(***************************************************************************)
\* Between the operations no call is under way, and a time stamp is never that of
\* a version still to come.
IdleOK == pc \in {"idle", "tags"} => calls = << >>
TimesOK == \A p \in DOMAIN projects : projects[p].time <= mtime[p]
\* The project whose file is about to be read.
BeingRead(p) == Reading /\ Top.name = p
CurrentInv == IdleOK /\ TimesOK /\ ListsCurrent

LEMMA VersionType == ASSUME DiskOK, NEW p \in Projects PROVE mtime[p] \in Nat \ {0}
<1>1. Lists[p] \in Seq(Seq(Names)) /\ mtime[p] \in DOMAIN Lists[p]
  BY WorkspaceAssumption DEF DiskOK
<1> QED BY <1>1

\* What is listed stays listed: of the projects that are known after a step, those
\* that have to be current had to be so before it.
LEMMA CurrentKept ==
    ASSUME ListsCurrent, DOMAIN projects' \subseteq DOMAIN projects,
           \A p \in DOMAIN projects' \ Solutions :
              exists'[p] /\ projects'[p].time = mtime'[p] /\ ~BeingRead(p)' =>
                 /\ exists[p] /\ projects[p].time = mtime[p] /\ ~BeingRead(p)
                 /\ mtime'[p] = mtime[p] /\ projects'[p].files = projects[p].files
    PROVE  ListsCurrent'
BY DEF ListsCurrent, BeingRead

LEMMA CurrentDisk ==
    ASSUME IInv, CurrentInv, NEW x \in Projects,
           EditProject(x) \/ DeleteProject(x) \/ RestoreProject(x)
    PROVE  CurrentInv'
<1>1. UNCHANGED <<projects, calls, pc>>
  BY DEF EditProject, DeleteProject, RestoreProject
<1>2. \/ mtime' = [mtime EXCEPT ![x] = @ + 1] /\ exists' \in {exists, [exists EXCEPT ![x] = TRUE]}
      \/ mtime' = mtime /\ exists' = [exists EXCEPT ![x] = FALSE]
  BY DEF EditProject, DeleteProject, RestoreProject
<1>3. DiskOK /\ PrjOK
  BY DEF IInv, CallInv
<1>4. ASSUME NEW p \in DOMAIN projects
      PROVE  /\ projects[p].time \in Nat /\ mtime[p] \in Nat /\ projects[p].time <= mtime[p]
             /\ \/ mtime'[p] = mtime[p]
                \/ p = x /\ mtime'[p] = mtime[p] + 1
             /\ p # x => mtime'[p] = mtime[p] /\ exists'[p] = exists[p]
  <2>1. p \in Projects /\ projects[p].time \in Nat /\ mtime[p] \in Nat
    BY <1>3, KnownProject, VersionType
  <2>2. projects[p].time <= mtime[p]
    BY DEF CurrentInv, TimesOK
  <2>3. DOMAIN mtime = Projects /\ DOMAIN exists = Projects
    BY <1>3 DEF DiskOK
  <2>4. mtime'[p] = mtime[p] \/ (p = x /\ mtime'[p] = mtime[p] + 1)
    BY <1>2, <2>1, <2>3
  <2>5. p # x => mtime'[p] = mtime[p] /\ exists'[p] = exists[p]
    BY <1>2, <2>1, <2>3
  <2> QED BY <2>1, <2>2, <2>4, <2>5
<1>5. TimesOK'
  <2> SUFFICES ASSUME NEW p \in DOMAIN projects PROVE projects[p].time <= mtime'[p]
    BY <1>1 DEF TimesOK
  <2> QED BY <1>4
<1>6. ASSUME NEW p \in DOMAIN projects' \ Solutions,
             exists'[p] /\ projects'[p].time = mtime'[p] /\ ~BeingRead(p)'
      PROVE  /\ exists[p] /\ projects[p].time = mtime[p] /\ ~BeingRead(p)
             /\ mtime'[p] = mtime[p] /\ projects'[p].files = projects[p].files
  <2>1. p \in DOMAIN projects /\ projects'[p] = projects[p] /\ ~BeingRead(p)
    BY <1>1, <1>6 DEF BeingRead, Reading, Top
  <2>2. mtime'[p] = mtime[p]
    BY <1>4, <1>6, <2>1
  <2>3. exists[p]
    <3>1. CASE p # x
      BY <1>4, <1>6, <2>1, <3>1
    <3>2. CASE p = x
      <4>1. x \in DOMAIN mtime /\ x \in DOMAIN exists /\ mtime[x] \in Nat
        BY <1>3, VersionType DEF DiskOK
      <4>2. mtime' = mtime /\ exists' = [exists EXCEPT ![x] = FALSE]
        BY <1>2, <2>2, <3>2, <4>1
      <4> QED BY <1>6, <3>2, <4>1, <4>2
    <3> QED BY <3>1, <3>2
  <2> QED BY <1>6, <2>1, <2>2, <2>3
<1>7. ListsCurrent'
  BY <1>1, <1>6, CurrentKept DEF CurrentInv
<1>8. IdleOK'
  BY <1>1 DEF CurrentInv, IdleOK
<1> QED BY <1>5, <1>7, <1>8 DEF CurrentInv

\* The steps that leave the files, the time stamps and the disk as they are.
LEMMA CurrentInterface ==
    ASSUME IInv, CurrentInv, NEW x \in Projects, NEW b \in BOOLEAN,
           \/ AddProject(x, b) \/ SetActive(x, b) \/ AddProjectEnd \/ RefreshFileList
           \/ OpenOrClose \/ Refresh \/ RefreshEnd \/ TagsRefreshed
    PROVE  CurrentInv'
<1>1. UNCHANGED <<exists, mtime>>
  BY DEF AddProject, SetActive, AddProjectEnd, RefreshFileList, OpenOrClose, Refresh, RefreshEnd,
         TagsRefreshed, disk
<1>2. calls = << >>
  <2>1. CASE pc \in {"idle", "tags"}
    BY <2>1, SMTT(30) DEF CurrentInv, IdleOK
  <2>2. CASE pc \notin {"idle", "tags"}
    BY <2>2 DEF AddProject, SetActive, AddProjectEnd, RefreshFileList, OpenOrClose, Refresh,
           RefreshEnd, TagsRefreshed, Idle, ReadExtraFiles
  <2> QED BY <2>1, <2>2
<1>3. ASSUME NEW p \in DOMAIN projects'
      PROVE  /\ p \in DOMAIN projects /\ projects'[p].time = projects[p].time
             /\ projects'[p].files = projects[p].files
  <2>1. CASE UNCHANGED projects
    BY <2>1
  <2>2. CASE SetActive(x, b)
    <3>1. projects' = [projects EXCEPT ![x].active = b, ![x].changed = TRUE]
      BY <2>2 DEF SetActive
    <3>2. p \in DOMAIN projects /\ projects[p] \in Project
      BY <3>1, KnownProject DEF IInv, CallInv
    <3> QED BY <3>1, <3>2 DEF Project
  <2>3. CASE OpenOrClose
    <3>1. DOMAIN projects' = {}
      BY <2>3 DEF OpenOrClose, RemoveAll
    <3> QED BY <3>1
  <2>4. CASE Refresh
    <3>1. projects' = [q \in DOMAIN projects |-> [projects[q] EXCEPT !.member = FALSE]]
      BY <2>4 DEF Refresh
    <3>2. p \in DOMAIN projects /\ projects[p] \in Project
      BY <3>1, KnownProject DEF IInv, CallInv
    <3> QED BY <3>1, <3>2 DEF Project
  <2>5. CASE RefreshEnd
    <3>1. projects' = [q \in Kept |-> Marked[q]] /\ Kept \subseteq DOMAIN projects
      BY <2>5, RefreshEndParts DEF Kept
    <3> QED BY <3>1, MarkedProject DEF IInv
  <2> QED BY <2>1, <2>2, <2>3, <2>4, <2>5 DEF AddProject, AddProjectEnd, RefreshFileList,
             TagsRefreshed
<1>4. \A p : ~BeingRead(p)
  BY <1>2 DEF BeingRead, Reading
<1>5. ListsCurrent'
  BY <1>1, <1>3, <1>4, CurrentKept DEF CurrentInv
<1>6. TimesOK'
  BY <1>1, <1>3, SMTT(30) DEF CurrentInv, TimesOK
<1>7. IdleOK'
  BY <1>2 DEF AddProject, SetActive, AddProjectEnd, RefreshFileList, OpenOrClose, Refresh,
         RefreshEnd, TagsRefreshed, IdleOK, Idle, ReadExtraFiles
<1> QED BY <1>5, <1>6, <1>7, SMTT(30) DEF CurrentInv

LEMMA CurrentGone ==
    ASSUME IInv, CurrentInv, AddGone \/ ReadFails
    PROVE  CurrentInv'
<1>1. /\ UNCHANGED <<exists, mtime, pc>> /\ calls # << >> /\ ~exists[Top.name]
  BY DEF AddGone, ReadFails, Calling, Reading, disk
<1>2. ASSUME NEW p \in DOMAIN projects'
      PROVE  p \in DOMAIN projects /\ projects'[p] = projects[p]
  BY DEF AddGone, ReadFails
<1>3. \A p : exists[p] => ~BeingRead(p)
  BY <1>1 DEF BeingRead
<1>4. ListsCurrent'
  BY <1>1, <1>2, <1>3, CurrentKept DEF CurrentInv
<1>5. TimesOK' /\ IdleOK'
  BY <1>1, <1>2 DEF CurrentInv, TimesOK, IdleOK
<1> QED BY <1>4, <1>5 DEF CurrentInv

\* Besides the files, AddHelper() changes the time stamp of its project, when it
\* goes on to read its file, and a new project is marked as changed.
LEMMA AddHelperRecords ==
    ASSUME IInv, AddHelper
    PROVE  /\ \A q \in DOMAIN projects :
                 /\ projects'[q].changed = projects[q].changed
                 /\ projects'[q].active = projects[q].active
                 /\ q # Top.name => projects'[q].time = projects[q].time
           /\ Top.name \notin DOMAIN projects => projects'[Top.name].changed
           /\ \/ Top.name \in DOMAIN projects /\ projects'[Top.name].time = projects[Top.name].time
              \/ ~exists[Top.name] /\ projects'[Top.name].time = 0
              \/ /\ projects'[Top.name].time = mtime[Top.name]
                 /\ Reading' /\ Top'.name = Top.name
<1> DEFINE p == Top.name
           isNew == p \notin DOMAIN projects
           project == IF isNew THEN NewProject(Top.active) ELSE projects[p]
           noRefresh == Top.noRefresh /\ ~isNew
           stamp == IF exists[p] THEN mtime[p] ELSE 0
           read == ~noRefresh /\ project.time # stamp
           h == Create(IF Top.lister = NoProject THEN {} ELSE {p})
           listed == IF Top.lister = NoProject THEN {}
                     ELSE Added(h, projects[Top.lister].files, {p})
           called == [project EXCEPT !.touched = TRUE, !.member = FALSE,
                                     !.time = IF read THEN stamp ELSE @]
           pushed == IF read THEN << [Top EXCEPT !.reading = TRUE] >>
                     ELSE CallsFor(Inside(p, project.files), project.active, noRefresh, NoProject)
<1>1. /\ calls # << >> /\ (exists[p] \/ isNew)
      /\ projects' = [q \in DOMAIN projects \cup {p} |->
                        CASE q = p -> called
                          [] q = Top.lister -> [projects[q] EXCEPT !.files = @ \cup listed]
                          [] OTHER -> projects[q]]
      /\ calls' = pushed \o Tail(calls)
  BY ZenonT(40) DEF AddHelper, Calling
<1>2. PrjOK /\ CallsOK
  BY DEF IInv, CallInv
<1>3. Top \in CallType /\ p \in Projects /\ Top.lister # p
  BY <1>1, <1>2, TopCall
<1>4. project \in Project
  <2>1. NewProject(Top.active) \in Project
    BY <1>3 DEF NewProject, Project, CallType
  <2> QED BY <1>2, <2>1 DEF PrjOK
<1>5. called.changed = project.changed /\ called.active = project.active
      /\ called.time = IF read THEN stamp ELSE project.time
  <2> HIDE DEF read, stamp, project
  <2> QED BY <1>4 DEF Project
<1>6. isNew => project.changed /\ project.time = 0
  BY DEF NewProject
<1>7. p \in DOMAIN projects => project = projects[p]
  OBVIOUS
<1>8. read => exists[p] /\ stamp = mtime[p]
  BY <1>1, <1>6
<1> HIDE DEF called, project, listed, read, stamp
<1>9. projects'[p] = called
  <2> HIDE DEF p
  <2>1. p \in DOMAIN projects \cup {p}
    OBVIOUS
  <2> QED BY <1>1, <1>3, <2>1
<1>10. ASSUME NEW q \in DOMAIN projects
       PROVE  /\ projects'[q].changed = projects[q].changed
              /\ projects'[q].active = projects[q].active
              /\ q # p => projects'[q].time = projects[q].time
  <2>1. CASE q = p
    BY <1>5, <1>7, <1>9, <2>1
  <2>2. CASE q # p /\ q = Top.lister
    <3>1. projects'[q] = [projects[q] EXCEPT !.files = @ \cup listed]
      BY <1>1, <2>2
    <3>2. projects[q] \in Project
      BY <1>2 DEF PrjOK
    <3> QED BY <3>1, <3>2 DEF Project
  <2>3. CASE q # p /\ q # Top.lister
    <3>1. projects'[q] = projects[q]
      BY <1>1, <2>3
    <3> QED BY <3>1
  <2> QED BY <2>1, <2>2, <2>3
<1>11. \/ p \in DOMAIN projects /\ projects'[p].time = projects[p].time
       \/ ~exists[p] /\ projects'[p].time = 0
       \/ projects'[p].time = mtime[p] /\ Reading' /\ Top'.name = p
  <2>1. CASE ~read
    <3>1. projects'[p].time = project.time
      BY <1>5, <1>9, <2>1
    <3>2. isNew => ~exists[p] \/ noRefresh
      <4>1. isNew /\ exists[p] => project.time = 0 /\ stamp = mtime[p] /\ mtime[p] # 0
        BY <1>3, <1>6, VersionType DEF IInv, CallInv, stamp
      <4> QED BY <2>1, <4>1 DEF read
    <3> QED BY <1>6, <1>7, <3>1, <3>2
  <2>2. CASE read
    <3> DEFINE top == [Top EXCEPT !.reading = TRUE]
    <3>1. calls' = << top >> \o Tail(calls) /\ calls # << >>
      BY <1>1, <2>2
    <3>2. top \in CallType /\ top.name = p /\ top.reading
      BY <1>3 DEF CallType
    <3> HIDE DEF top
    <3>3. Tail(calls) \in Seq(CallType)
      BY <1>1, <1>2, HeadTailProperties DEF CallsOK, CallsAre
    <3> DEFINE t == Tail(calls)
    <3> HIDE DEF t
    <3>4. << top >> \o t # << >> /\ Head(<< top >> \o t) = top
      BY <3>2, <3>3 DEF t
    <3>5. Reading' /\ Top'.name = p
      <4>0. calls' = << top >> \o t
        BY <3>1 DEF t
      <4> DEFINE c == << top >> \o t
      <4> HIDE DEF c
      <4>1. calls' = c /\ c # << >> /\ Head(c) = top
        BY <3>4, <4>0 DEF c
      <4>2. Head(calls)' = top
        BY <4>1
      <4> QED BY <3>2, <4>1, <4>2 DEF Reading, Top
    <3>6. projects'[p].time = mtime[p]
      BY <1>5, <1>8, <1>9, <2>2
    <3> QED BY <3>5, <3>6
  <2> QED BY <2>1, <2>2
<1>12. p \notin DOMAIN projects => projects'[p].changed
  BY <1>5, <1>6, <1>9
<1> QED BY <1>10, <1>11, <1>12, SMTT(30)

LEMMA CurrentAddHelper ==
    ASSUME IInv, CallInv', CurrentInv, AddHelper
    PROVE  CurrentInv'
<1> DEFINE p == Top.name
<1>1. /\ calls # << >> /\ ~Top.reading /\ UNCHANGED <<exists, mtime, pc>>
  BY DEF AddHelper, Calling, disk
<1>2. PrjOK /\ CallsOK /\ PrjOK' /\ DiskOK
  BY DEF IInv, CallInv
<1>3. /\ p \in Projects
      /\ Top.lister # NoProject => Top.lister \in Solutions /\ Top.lister \in DOMAIN projects
  BY <1>1, <1>2, TopCall
<1>4. /\ DOMAIN projects' = DOMAIN projects \cup {p}
      /\ \A q \in Projects \ {Top.lister} : FilesIn(projects', q) = FilesIn(projects, q)
  BY AddHelperProjects
<1>5. /\ \A q \in DOMAIN projects : q # p => projects'[q].time = projects[q].time
      /\ \/ p \in DOMAIN projects /\ projects'[p].time = projects[p].time
         \/ ~exists[p] /\ projects'[p].time = 0
         \/ projects'[p].time = mtime[p] /\ Reading' /\ Top'.name = p
  BY AddHelperRecords
<1>6. \A q : ~BeingRead(q)
  BY <1>1 DEF BeingRead, Reading
<1> HIDE DEF p
<1>7. TimesOK'
  <2> SUFFICES ASSUME NEW q \in DOMAIN projects' PROVE projects'[q].time <= mtime'[q]
    BY DEF TimesOK
  <2>1. mtime[q] \in Nat /\ mtime'[q] = mtime[q]
    BY <1>1, <1>2, VersionType DEF PrjOK
  <2>2. q \in DOMAIN projects => projects[q].time <= mtime[q]
    BY DEF CurrentInv, TimesOK
  <2> QED BY <1>4, <1>5, <2>1, <2>2
<1>8. ListsCurrent'
  <2> SUFFICES ASSUME NEW q \in DOMAIN projects' \ Solutions, exists'[q],
                      projects'[q].time = mtime'[q], ~BeingRead(q)'
               PROVE  NamesOf(projects'[q].files) = ToSet(Lists[q][mtime'[q]])
    BY DEF ListsCurrent, BeingRead
  <2>1. exists[q] /\ mtime'[q] = mtime[q] /\ q \in Projects
    BY <1>1, <1>2 DEF PrjOK
  <2>2. q \in DOMAIN projects /\ projects'[q].time = projects[q].time
    BY <1>1, <1>4, <1>5, <2>1 DEF BeingRead
  <2>3. q # Top.lister
    <3>1. q \in Names /\ q # NoProject
      BY <2>1, WorkspaceAssumption DEF Names
    <3> QED BY <1>3, <3>1
  <2>4. projects'[q].files = projects[q].files
    BY <1>4, <2>1, <2>2, <2>3 DEF FilesIn
  <2>5. NamesOf(projects[q].files) = ToSet(Lists[q][mtime[q]])
    BY <1>6, <2>1, <2>2 DEF CurrentInv, ListsCurrent, BeingRead
  <2> QED BY <2>1, <2>4, <2>5
<1>9. IdleOK'
  BY <1>1 DEF CurrentInv, IdleOK
<1> QED BY <1>7, <1>8, <1>9, SMTT(30) DEF CurrentInv

\* What ReadVCProjFile() makes of the files: those that are listed, each once.
LEMMA ReadNames ==
    ASSUME PrjOK, FileInv, NEW S \in SUBSET Names, NEW L \in SUBSET Objects
    PROVE  NamesOf(Relisted(L \cup Added(Create(S), L, S), S)) = S
<1> DEFINE m == Create(S).map
           added == Added(Create(S), L, S)
<1>1. MapOK(m) /\ DOMAIN m = DOMAIN globalMap \cup S
  BY CreateKeeps
<1>2. added = {m[n] : n \in S \ NamesOf(L)}
  BY DEF Added
<1> HIDE DEF m, added
<1>3. ASSUME NEW n \in S
      PROVE  \E o \in L \cup added : o[1] = n
  <2>1. CASE n \in NamesOf(L)
    BY <2>1 DEF NamesOf
  <2>2. CASE n \notin NamesOf(L)
    <3>1. m[n] \in added /\ m[n][1] = n
      BY <1>1, <1>2, <2>2 DEF MapOK
    <3> QED BY <3>1
  <2> QED BY <2>1, <2>2
<1> QED BY <1>3 DEF NamesOf, Relisted, added

LEMMA CurrentRead ==
    ASSUME IInv, CurrentInv, ReadProject \/ ReadSolution
    PROVE  CurrentInv'
<1> DEFINE p == Top.name
           list == Lists[p][mtime[p]]
<1>1. Reading /\ calls # << >> /\ UNCHANGED <<exists, mtime, pc>>
  BY DEF ReadProject, ReadSolution, Reading, disk
<1>2. PrjOK /\ FileInv /\ CallInv
  BY DEF IInv, CallInv
<1>3. p \in DOMAIN projects /\ ToSet(list) \in SUBSET Names
  BY <1>1, <1>2, FileRead
<1>4. PICK S : projects' = [projects EXCEPT ![p].files = S]
                  /\ (p \notin Solutions => NamesOf(S) = ToSet(list))
  <2>1. CASE ReadProject
    <3> DEFINE L == projects[p].files
               names == ToSet(list)
    <3>1. projects' = [projects EXCEPT ![p].files =
                          Relisted(L \cup Added(Create(names), L, names), names)]
      BY <2>1 DEF ReadProject
    <3>2. L \in SUBSET Objects /\ names \in SUBSET Names
      BY <1>2, <1>3, KnownProject
    <3> HIDE DEF L, names
    <3>3. NamesOf(Relisted(L \cup Added(Create(names), L, names), names)) = names
      BY <1>2, <3>2, ReadNames
    <3> QED BY <3>1, <3>3 DEF names
  <2>2. CASE ReadSolution
    <3>1. p \in Solutions
      BY <2>2 DEF ReadSolution
    <3> DEFINE L == projects[p].files
               S == L \cup Added(Create({p}), L, {p})
    <3>2. projects' = [projects EXCEPT ![p].files = S]
      BY <2>2 DEF ReadSolution
    <3> HIDE DEF S
    <3> QED BY <3>1, <3>2
  <2> QED BY <2>1, <2>2
<1> HIDE DEF p, list
<1>5. /\ DOMAIN projects' = DOMAIN projects /\ projects'[p].files = S
      /\ \A q \in DOMAIN projects : /\ projects'[q].time = projects[q].time
                                    /\ q # p => projects'[q] = projects[q]
  <2>1. projects[p] \in Project
    BY <1>2, <1>3, KnownProject
  <2> QED BY <1>3, <1>4, <2>1 DEF Project
<1>6. ListsCurrent'
  <2> SUFFICES ASSUME NEW q \in DOMAIN projects' \ Solutions, exists'[q],
                      projects'[q].time = mtime'[q]
               PROVE  NamesOf(projects'[q].files) = ToSet(Lists[q][mtime'[q]])
    BY DEF ListsCurrent
  <2>1. CASE q = p
    BY <1>1, <1>4, <1>5, <2>1 DEF list
  <2>2. CASE q # p
    <3>1. /\ q \in DOMAIN projects \ Solutions /\ projects'[q] = projects[q]
          /\ exists[q] /\ projects[q].time = mtime[q] /\ mtime'[q] = mtime[q]
      BY <1>1, <1>5, <2>2
    <3>2. ~(Reading /\ Top.name = q)
      BY <2>2 DEF p
    <3> QED BY <3>1, <3>2 DEF CurrentInv, ListsCurrent
  <2> QED BY <2>1, <2>2
<1>7. TimesOK'
  <2>1. \A q \in DOMAIN projects' : projects'[q].time = projects[q].time /\ q \in DOMAIN projects
    BY <1>5
  <2> QED BY <1>1, <2>1 DEF CurrentInv, TimesOK
<1>8. IdleOK'
  <2>1. pc \notin {"idle", "tags"}
    BY <1>1 DEF CurrentInv, IdleOK
  <2> QED BY <1>1, <2>1 DEF IdleOK
<1> QED BY <1>6, <1>7, <1>8, SMTT(30) DEF CurrentInv

\* A project with the time stamp of its file lists what the file lists.
THEOREM ListsStayCurrent == Spec => []ListsCurrent
<1>1. Init => CurrentInv
  <2> SUFFICES ASSUME Init PROVE CurrentInv
    OBVIOUS
  <2>1. calls = << >> /\ DOMAIN projects = {}
    BY DEF Init
  <2> QED BY <2>1 DEF CurrentInv, IdleOK, TimesOK, ListsCurrent
<1>2. IInv /\ IInv' /\ CurrentInv /\ [Next]_vars => CurrentInv'
  <2> SUFFICES ASSUME IInv, IInv', CurrentInv, [Next]_vars PROVE CurrentInv'
    OBVIOUS
  <2>1. CallInv'
    BY DEF IInv
  <2>2. CASE UNCHANGED vars
    BY <2>2 DEF CurrentInv, IdleOK, TimesOK, ListsCurrent, vars, disk, Reading, Top
  <2>3. CASE CallSteps
    BY <2>1, <2>3, CurrentGone, CurrentAddHelper, CurrentRead DEF CallSteps
  <2>4. Extra \in Projects /\ TRUE \in BOOLEAN
    BY WorkspaceAssumption
  <2>5. CASE OpenOrClose \/ RefreshFileList \/ AddProjectEnd \/ Refresh \/ RefreshEnd \/ TagsRefreshed
    BY <2>4, <2>5, CurrentInterface
  <2>6. ASSUME NEW p \in Projects, NEW b \in BOOLEAN, AddProject(p, b) \/ SetActive(p, b)
        PROVE  CurrentInv'
    BY <2>6, CurrentInterface
  <2>7. ASSUME NEW p \in Projects, EditProject(p) \/ DeleteProject(p) \/ RestoreProject(p)
        PROVE  CurrentInv'
    BY <2>7, CurrentDisk
  <2> QED BY <2>2, <2>3, <2>5, <2>6, <2>7 DEF Next, JobSteps
<1>3. CurrentInv => ListsCurrent
  BY DEF CurrentInv
<1> QED BY <1>1, <1>2, <1>3, InvHolds, PTL DEF Spec

(***************************************************************************)
(* The lists that a refresh builds                                         *)
(***************************************************************************)
\* Nothing has been noted that would make a refresh build the lists again; at the
\* end of a refresh of the tags they have just been built or left.
Unchanged == ~filesRefreshed /\ \A p \in DOMAIN projects : ~projects[p].changed
CompleteInv ==
    /\ IdleOK
    /\ pc = "tags" => \A p \in DOMAIN projects : ~projects[p].changed
    /\ ~quiet /\ (Unchanged \/ pc = "tags") => ListsComplete

\* The lists stay complete when no project's source files or active state change.
LEMMA SameSources ==
    ASSUME ListsComplete, UNCHANGED <<fileList, activeList>>,
           DOMAIN projects' = DOMAIN projects,
           \A p \in DOMAIN projects :
              /\ SourcesOf(projects'[p].files) = SourcesOf(projects[p].files)
              /\ projects'[p].active <=> projects[p].active
    PROVE  ListsComplete'
<1>1. ASSUME NEW S \in SUBSET DOMAIN projects
      PROVE  SourcesOf(FilesOf(projects', S)) = SourcesOf(FilesOf(projects, S))
  <2>1. ASSUME NEW p \in S, NEW o
        PROVE  o[1] \in Sources => (o \in projects'[p].files <=> o \in projects[p].files)
    <3>1. o \in SourcesOf(projects'[p].files) <=> o \in SourcesOf(projects[p].files)
      OBVIOUS
    <3> QED BY <3>1 DEF SourcesOf
  <2> QED BY <2>1 DEF SourcesOf, FilesOf
<1> DEFINE active == {p \in DOMAIN projects : projects[p].active}
<1>2. {p \in DOMAIN projects' : projects'[p].active} = active
  OBVIOUS
<1>3. /\ SourcesOf(FilesOf(projects', DOMAIN projects')) = SourcesOf(FilesOf(projects, DOMAIN projects))
      /\ SourcesOf(FilesOf(projects', active)) = SourcesOf(FilesOf(projects, active))
  BY <1>1
<1>4. /\ SourcesOf(fileList) = SourcesOf(FilesOf(projects, DOMAIN projects))
      /\ SourcesOf(activeList) = SourcesOf(FilesOf(projects, active))
  BY DEF ListsComplete
<1> HIDE DEF active
<1>5. /\ SourcesOf(fileList') = SourcesOf(FilesOf(projects', DOMAIN projects'))
      /\ SourcesOf(activeList') = SourcesOf(FilesOf(projects', {p \in DOMAIN projects' : projects'[p].active}))
  BY <1>2, <1>3, <1>4
<1> QED BY <1>5 DEF ListsComplete, SourcesOf

\* A step that notes nothing leaves the sources of the projects as they are.
LEMMA CompleteKept ==
    ASSUME CompleteInv, IdleOK', UNCHANGED <<fileList, activeList>>, pc' # "tags",
           ~quiet' /\ Unchanged' =>
              /\ ~quiet /\ (Unchanged \/ pc = "tags") /\ DOMAIN projects' = DOMAIN projects
              /\ \A p \in DOMAIN projects :
                    /\ SourcesOf(projects'[p].files) = SourcesOf(projects[p].files)
                    /\ projects'[p].active <=> projects[p].active
    PROVE  CompleteInv'
<1>1. ASSUME ~quiet', Unchanged'
      PROVE  ListsComplete'
  <2>1. ListsComplete
    BY <1>1 DEF CompleteInv
  <2> QED BY <1>1, <2>1, SameSources
<1> QED BY <1>1 DEF CompleteInv

\* The steps outside the calls and the end of a refresh.
LEMMA CompleteInterface ==
    ASSUME IInv, CompleteInv, NEW x \in Projects, NEW b \in BOOLEAN,
           \/ EditProject(x) \/ DeleteProject(x) \/ RestoreProject(x) \/ AddProject(x, b)
           \/ SetActive(x, b) \/ AddProjectEnd \/ RefreshFileList \/ OpenOrClose \/ Refresh
           \/ TagsRefreshed \/ UNCHANGED vars
    PROVE  CompleteInv'
<1>1. CASE EditProject(x) \/ DeleteProject(x) \/ RestoreProject(x) \/ UNCHANGED vars
  <2>1. UNCHANGED <<projects, lists, calls, pc, quiet>>
    BY <1>1 DEF EditProject, DeleteProject, RestoreProject, vars
  <2>2. UNCHANGED ListsComplete
    BY <2>1 DEF ListsComplete, lists
  <2> QED BY <2>1, <2>2 DEF CompleteInv, IdleOK, Unchanged, lists
<1>2. ASSUME UNCHANGED <<projects, lists, quiet>>, pc \in {"idle", "adding"},
             pc' \in {"idle", "adding", "extra"}, pc' = "idle" => calls' = << >>
      PROVE  CompleteInv'
  <2>1. UNCHANGED ListsComplete
    BY <1>2 DEF ListsComplete, lists
  <2>2. UNCHANGED Unchanged
    BY <1>2 DEF Unchanged, lists
  <2> QED BY <1>2, <2>1, <2>2 DEF CompleteInv, IdleOK
<1>3. CASE AddProject(x, b) \/ AddProjectEnd \/ RefreshFileList
  <2>1. UNCHANGED <<projects, lists, quiet>> /\ pc \in {"idle", "adding"}
    BY <1>3 DEF AddProject, AddProjectEnd, RefreshFileList, Idle, ReadExtraFiles
  <2>2. pc' \in {"idle", "adding", "extra"} /\ (pc' = "idle" => calls' = << >>)
    BY <1>3 DEF AddProject, AddProjectEnd, RefreshFileList, Idle, ReadExtraFiles
  <2> QED BY <1>2, <2>1, <2>2
<1>4. CASE SetActive(x, b)
  <2>1. /\ projects' = [projects EXCEPT ![x].active = b, ![x].changed = TRUE]
        /\ x \in DOMAIN projects /\ calls = << >> /\ pc \in {"idle", "extra"}
        /\ UNCHANGED <<calls, pc>>
    BY <1>4 DEF SetActive
  <2>2. projects'[x].changed
    <3>1. projects[x] \in Project
      BY <2>1, KnownProject DEF IInv, CallInv
    <3> QED BY <2>1, <3>1 DEF Project
  <2>3. ~Unchanged' /\ pc' # "tags" /\ IdleOK'
    BY <2>1, <2>2 DEF Unchanged, IdleOK
  <2> QED BY <2>3 DEF CompleteInv
<1>5. CASE OpenOrClose
  <2>1. filesRefreshed' /\ pc' = "extra"
    BY <1>5 DEF OpenOrClose, RemoveAll, ReadExtraFiles
  <2> QED BY <2>1 DEF CompleteInv, Unchanged, IdleOK
<1>6. CASE Refresh
  <2>1. /\ pc = "extra" /\ pc' = "refresh" /\ UNCHANGED <<fileList, activeList, filesRefreshed, quiet>>
        /\ projects' = [q \in DOMAIN projects |-> [projects[q] EXCEPT !.member = FALSE]]
    BY <1>6 DEF Refresh, lists
  <2>2. /\ DOMAIN projects' = DOMAIN projects
        /\ \A q \in DOMAIN projects :
              /\ projects'[q].files = projects[q].files
              /\ projects'[q].changed = projects[q].changed
              /\ projects'[q].active = projects[q].active
    <3>1. \A q \in DOMAIN projects : projects[q] \in Project
      BY KnownProject DEF IInv, CallInv
    <3> QED BY <2>1, <3>1 DEF Project
  <2>3. Unchanged' => Unchanged
    BY <2>1, <2>2 DEF Unchanged
  <2>4. IdleOK' /\ pc' # "tags"
    BY <2>1 DEF IdleOK
  <2> QED BY <2>1, <2>2, <2>3, <2>4, CompleteKept
<1>7. CASE TagsRefreshed
  <2>1. /\ pc = "tags" /\ pc' = "idle" /\ UNCHANGED <<projects, fileList, activeList, calls, quiet>>
    BY <1>7 DEF TagsRefreshed
  <2>2. UNCHANGED ListsComplete
    BY <2>1 DEF ListsComplete
  <2> QED BY <2>1, <2>2 DEF CompleteInv, IdleOK
<1> QED BY <1>1, <1>3, <1>4, <1>5, <1>6, <1>7

\* The File object of a project is none of the source files.
LEMMA ProjectNoSource ==
    ASSUME PrjOK, FileInv, NEW p \in Projects, NEW L \in SUBSET Objects
    PROVE  SourcesOf(L \cup Added(Create({p}), L, {p})) = SourcesOf(L)
<1>1. {p} \in SUBSET Names /\ p \notin Sources
  BY WorkspaceAssumption DEF Names
<1>2. \A o \in Added(Create({p}), L, {p}) : o[1] \in {p}
  BY <1>1, AddedFiles
<1> QED BY <1>1, <1>2 DEF SourcesOf

LEMMA CompleteAddHelper ==
    ASSUME IInv, CompleteInv, AddHelper
    PROVE  CompleteInv'
<1> DEFINE p == Top.name
<1>1. calls # << >> /\ UNCHANGED <<fileList, activeList, filesRefreshed, pc, quiet>>
  BY DEF AddHelper, Calling, lists
<1>2. PrjOK /\ CallsOK /\ FileInv
  BY DEF IInv, CallInv
<1>3. p \in Projects /\ (Top.lister # NoProject => Top.lister \in Solutions /\ Top.lister \in DOMAIN projects)
  BY <1>1, <1>2, TopCall
<1>4. /\ DOMAIN projects' = DOMAIN projects \cup {p}
      /\ \A q \in Projects \ {Top.lister} : FilesIn(projects', q) = FilesIn(projects, q)
      /\ Top.lister # NoProject =>
            FilesIn(projects', Top.lister) = FilesIn(projects, Top.lister)
               \cup Added(Create({p}), FilesIn(projects, Top.lister), {p})
  BY AddHelperProjects
<1>5. /\ \A q \in DOMAIN projects : /\ projects'[q].changed = projects[q].changed
                                    /\ projects'[q].active = projects[q].active
      /\ p \notin DOMAIN projects => projects'[p].changed
  BY AddHelperRecords
<1>6. ASSUME NEW q \in DOMAIN projects
      PROVE  SourcesOf(projects'[q].files) = SourcesOf(projects[q].files)
  <2>1. q \in Projects /\ q # NoProject /\ projects[q].files \in SUBSET Objects
    BY <1>2, KnownProject, WorkspaceAssumption DEF Names
  <2>2. FilesIn(projects', q) = projects'[q].files /\ FilesIn(projects, q) = projects[q].files
    BY <1>4 DEF FilesIn
  <2>3. CASE q # Top.lister
    BY <1>4, <2>1, <2>2, <2>3
  <2>4. CASE q = Top.lister
    <3> DEFINE L == projects[q].files
    <3>1. projects'[q].files = L \cup Added(Create({p}), L, {p})
      BY <1>4, <2>1, <2>2, <2>4
    <3> HIDE DEF L, p
    <3>2. SourcesOf(L \cup Added(Create({p}), L, {p})) = SourcesOf(L)
      BY <1>2, <1>3, <2>1, ProjectNoSource DEF L
    <3> QED BY <3>1, <3>2 DEF L
  <2> QED BY <2>3, <2>4
<1> HIDE DEF p
<1>7. ASSUME Unchanged'
      PROVE  Unchanged /\ DOMAIN projects' = DOMAIN projects
  <2>1. p \in DOMAIN projects
    BY <1>4, <1>5, <1>7 DEF Unchanged
  <2>2. DOMAIN projects' = DOMAIN projects
    BY <1>4, <2>1
  <2> QED BY <1>1, <1>5, <1>7, <2>2 DEF Unchanged
<1>8. pc' # "tags" /\ IdleOK'
  BY <1>1 DEF CompleteInv, IdleOK
<1> QED BY <1>1, <1>5, <1>6, <1>7, <1>8, CompleteKept, SMTT(30)

LEMMA CompleteRead ==
    ASSUME IInv, CompleteInv, ReadProject \/ ReadSolution
    PROVE  CompleteInv'
<1> DEFINE p == Top.name
           files == projects[p].files
<1>1. Reading /\ calls # << >> /\ UNCHANGED <<fileList, activeList, pc, quiet>>
  BY DEF ReadProject, ReadSolution, Reading, lists
<1>2. PrjOK /\ FileInv /\ CallInv
  BY DEF IInv, CallInv
<1>3. p \in DOMAIN projects /\ p \in Projects /\ files \in SUBSET Objects
  BY <1>1, <1>2, FileRead, KnownProject
<1>4. PICK S : /\ projects' = [projects EXCEPT ![p].files = S]
               /\ ~filesRefreshed' => ~filesRefreshed /\ SourcesOf(S) = SourcesOf(files)
  <2>1. CASE ReadProject
    <3> DEFINE names == ToSet(Lists[p][mtime[p]])
               now == Relisted(files \cup Added(Create(names), files, names), names)
    <3>1. /\ projects' = [projects EXCEPT ![p].files = now]
          /\ filesRefreshed' = (filesRefreshed \/ now # files)
      BY <2>1 DEF ReadProject
    <3> HIDE DEF now, files
    <3>2. ~filesRefreshed' => ~filesRefreshed /\ SourcesOf(now) = SourcesOf(files)
      BY <3>1
    <3> QED BY <3>1, <3>2
  <2>2. CASE ReadSolution
    <3> DEFINE S == files \cup Added(Create({p}), files, {p})
    <3>1. projects' = [projects EXCEPT ![p].files = S] /\ filesRefreshed' = filesRefreshed
      BY <2>2 DEF ReadSolution, lists
    <3>2. SourcesOf(S) = SourcesOf(files)
      <4> HIDE DEF files, p
      <4> QED BY <1>2, <1>3, ProjectNoSource
    <3> HIDE DEF S
    <3> QED BY <3>1, <3>2
  <2> QED BY <2>1, <2>2
<1>5. /\ DOMAIN projects' = DOMAIN projects /\ projects'[p].files = S
      /\ \A q \in DOMAIN projects :
            /\ projects'[q].changed = projects[q].changed
            /\ projects'[q].active = projects[q].active
            /\ q # p => projects'[q] = projects[q]
  <2> HIDE DEF p
  <2>1. projects[p] \in Project
    BY <1>2, <1>3, KnownProject
  <2> QED BY <1>3, <1>4, <2>1 DEF Project
<1>6. ASSUME Unchanged'
      PROVE  /\ Unchanged
             /\ \A q \in DOMAIN projects : SourcesOf(projects'[q].files) = SourcesOf(projects[q].files)
  <2>1. ~filesRefreshed /\ SourcesOf(S) = SourcesOf(files)
    BY <1>4, <1>6 DEF Unchanged
  <2>2. Unchanged
    BY <1>5, <1>6, <2>1 DEF Unchanged
  <2>3. ASSUME NEW q \in DOMAIN projects
        PROVE  SourcesOf(projects'[q].files) = SourcesOf(projects[q].files)
    <3>1. CASE q = p
      BY <1>5, <2>1, <3>1
    <3>2. CASE q # p
      BY <1>5, <3>2
    <3> QED BY <3>1, <3>2
  <2> QED BY <2>2, <2>3
<1>7. pc' # "tags" /\ IdleOK'
  BY <1>1 DEF CompleteInv, IdleOK
<1> QED BY <1>1, <1>5, <1>6, <1>7, CompleteKept, SMTT(30)

LEMMA CompleteGone ==
    ASSUME IInv, CompleteInv, AddGone \/ ReadFails
    PROVE  CompleteInv'
<1>1. calls # << >> /\ pc' = pc
  BY DEF AddGone, ReadFails, Calling, Reading
<1>2. pc' # "tags" /\ IdleOK'
  BY <1>1 DEF CompleteInv, IdleOK
<1>3. CASE AddGone
  <2>1. quiet'
    BY <1>3 DEF AddGone
  <2> QED BY <1>2, <2>1 DEF CompleteInv
<1>4. CASE ReadFails
  <2>1. UNCHANGED <<projects, fileList, activeList, filesRefreshed, quiet>>
    BY <1>4 DEF ReadFails, lists
  <2>2. UNCHANGED ListsComplete
    BY <2>1 DEF ListsComplete
  <2> QED BY <1>2, <2>1, <2>2 DEF CompleteInv, Unchanged
<1> QED BY <1>3, <1>4

\* The lists that are built have the files of the projects; those that are not
\* built again had them already.
LEMMA RefreshCompletes ==
    ASSUME IInv, CompleteInv, RefreshEnd
    PROVE  CompleteInv' /\ (~quiet' => ListsComplete')
<1>1. /\ calls = << >> /\ UNCHANGED calls /\ pc' \in {"idle", "tags"}
      /\ projects' = [p \in Kept |-> Marked[p]] /\ filesRefreshed' = Rebuild
  BY RefreshEndParts
<1>2. /\ DOMAIN projects' = Kept /\ Kept \subseteq DOMAIN projects
      /\ \A p \in Kept : /\ projects'[p] = Marked[p] /\ projects'[p].files = projects[p].files
                         /\ ~projects'[p].changed
  BY <1>1, MarkedProject DEF Kept, IInv
<1>3. ASSUME ~quiet'
      PROVE  ListsComplete'
  <2>1. CASE Rebuild
    <3>1. fileList' = AllFiles /\ activeList' = ActiveFiles
      BY <2>1, RefreshEndParts
    <3>2. AllFiles = FilesOf(projects', DOMAIN projects')
      BY <1>2 DEF AllFiles, FilesOf
    <3>3. {p \in DOMAIN projects' : projects'[p].active} = {p \in Kept : Marked[p].active}
      BY <1>2
    <3>4. ActiveFiles = FilesOf(projects', {p \in DOMAIN projects' : projects'[p].active})
      <4> DEFINE A == {p \in Kept : Marked[p].active}
      <4>1. \A p \in A : projects'[p] = Marked[p]
        BY <1>2
      <4>2. ActiveFiles = FilesOf(Marked, A)
        BY DEF ActiveFiles
      <4> HIDE DEF A
      <4>3. FilesOf(Marked, A) = FilesOf(projects', A)
        BY <4>1 DEF FilesOf
      <4> QED BY <3>3, <4>2, <4>3 DEF A
    <3> QED BY <3>1, <3>2, <3>4 DEF ListsComplete
  <2>2. CASE ~Rebuild
    <3>1. /\ ~filesRefreshed /\ Swept = {} /\ \A p \in Kept : ~projects[p].changed
          /\ Kept = DOMAIN projects
      BY <2>2 DEF Rebuild, Kept
    <3>2. ~quiet /\ ~Activated /\ UNCHANGED <<fileList, activeList>>
      BY <1>3, <2>2, RefreshEndParts
    <3>3. ListsComplete
      BY <3>1, <3>2 DEF CompleteInv, Unchanged
    <3>4. \A p \in DOMAIN projects : projects'[p].active = projects[p].active
      BY <1>2, <3>1, <3>2 DEF Activated
    <3> QED BY <1>2, <3>1, <3>2, <3>3, <3>4, SameSources
  <2> QED BY <2>1, <2>2
<1>4. \A p \in DOMAIN projects' : ~projects'[p].changed
  BY <1>2
<1> QED BY <1>1, <1>3, <1>4 DEF CompleteInv, IdleOK

\* A refresh leaves the lists complete, unless a project was deleted or made active
\* without a note to build them again.
THEOREM RefreshListsComplete == Spec => RefreshedLists
<1>1. Init => CompleteInv
  <2> SUFFICES ASSUME Init PROVE CompleteInv
    OBVIOUS
  <2>1. /\ calls = << >> /\ projects = << >> /\ fileList = {} /\ activeList = {} /\ pc = "idle"
        /\ DOMAIN projects = {}
    BY DEF Init
  <2>2. FilesOf(projects, DOMAIN projects) = {} /\ {p \in DOMAIN projects : projects[p].active} = {}
        /\ FilesOf(projects, {}) = {}
    BY <2>1 DEF FilesOf
  <2>3. ListsComplete
    BY <2>1, <2>2 DEF ListsComplete
  <2> QED BY <2>1, <2>3 DEF CompleteInv, IdleOK
<1>2. IInv /\ CompleteInv /\ [Next]_vars => CompleteInv'
  <2> SUFFICES ASSUME IInv, CompleteInv, [Next]_vars PROVE CompleteInv'
    OBVIOUS
  <2>1. Extra \in Projects /\ TRUE \in BOOLEAN
    BY WorkspaceAssumption
  <2>2. CASE CallSteps
    BY <2>2, CompleteGone, CompleteAddHelper, CompleteRead DEF CallSteps
  <2>3. CASE UNCHANGED vars \/ OpenOrClose \/ RefreshFileList \/ AddProjectEnd \/ Refresh \/ TagsRefreshed
    BY <2>1, <2>3, CompleteInterface
  <2>4. ASSUME NEW p \in Projects, NEW b \in BOOLEAN,
               \/ EditProject(p) \/ DeleteProject(p) \/ RestoreProject(p)
               \/ AddProject(p, b) \/ SetActive(p, b)
        PROVE  CompleteInv'
    BY <2>4, CompleteInterface
  <2>5. CASE RefreshEnd
    BY <2>5, RefreshCompletes
  <2> QED BY <2>1, <2>2, <2>3, <2>4, <2>5 DEF Next, JobSteps
<1>3. IInv /\ CompleteInv /\ [Next]_vars => [RefreshEnd /\ ~quiet' => ListsComplete']_vars
  BY RefreshCompletes
<1> QED BY <1>1, <1>2, <1>3, InvHolds, PTL DEF Spec, RefreshedLists
=============================================================================
