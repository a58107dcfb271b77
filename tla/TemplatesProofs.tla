-------------------------- MODULE TemplatesProofs --------------------------
(***************************************************************************)
(* Proofs about module Templates, for any template files, any contents of  *)
(* them, and any moment at which other programs write, delete and lock     *)
(* them: what a command offers is current, the user's choice is kept, and  *)
(* the parser loses no block.  At the end, about module TemplateCode: the  *)
(* branches of a template's code that are put out are the chosen ones.     *)
(***************************************************************************)
EXTENDS Templates, TemplateCode, ProofLemmas

(***************************************************************************)
(* The inductive invariant                                                 *)
(***************************************************************************)
Group(t) == [file : Files, active : BOOLEAN, stamp : 0 .. t, read : 0 .. t]
Choice == [file : Files, active : BOOLEAN]
Checks(s) == {<<s[k].file, s[k].active>> : k \in DOMAIN s}
OnePerFile(s) == \A i, j \in DOMAIN s : s[i].file = s[j].file => i = j

\* A group with the time stamp of its file holds what is in the file: the time stamp
\* is taken over only when the file is read, and a version that is written after the
\* look at the time has another.
Honest(g, d) == g.stamp = d[g.file] => g.stamp = 0 \/ g.read = g.stamp
GroupsOK(gs, t, d) == /\ gs \in Seq(Group(t)) /\ OnePerFile(gs)
                      /\ \A k \in DOMAIN gs : Honest(gs[k], d)

DiskOK == /\ now \in 0 .. MaxTime
          /\ disk \in [Files -> 0 .. now] /\ locked \subseteq Files
RegistryOK == registry \in Seq(Choice) /\ OnePerFile(registry)
OpenOK == open \in {"none", "select", "list", "both"}

\* The choice is kept in the list and in the registry, so that it is found again in
\* the next session and after the file list dialog has read the registry.
IInv ==
    /\ DiskOK /\ GroupsOK(groups, now, disk) /\ RegistryOK /\ OpenOK
    /\ wanted \subseteq Checks(groups) /\ wanted \subseteq Checks(registry)

(***************************************************************************)
(* The disk                                                                *)
(***************************************************************************)
\* What other programs may do to the files between two moments: a file is gone, has
\* been written once more, or is as it was; a locked one is as it was.
Moved(d1, t1, d2, t2) ==
    /\ t1 \in Nat /\ t2 \in Nat /\ t1 <= t2
    /\ d1 \in [Files -> 0 .. t1] /\ d2 \in [Files -> 0 .. t2]
    /\ \A f \in Files : /\ d2[f] \in {0, d1[f]} \/ d2[f] > t1
                        /\ f \in locked => d2[f] = d1[f]

LEMMA NotMoved == DiskOK => Moved(disk, now, disk, now)
BY FilesAssumption, TextAssumption DEF DiskOK, Moved

\* A refresh lets other programs in.
LEMMA RefreshMoves ==
    ASSUME DiskOK, NEW gs, RefreshOf(gs)
    PROVE  now' \in 0 .. MaxTime /\ Moved(disk, now, disk', now')
<1>1. now \in Nat /\ MaxTime \in Nat
  BY TextAssumption DEF DiskOK
<1>2. CASE UNCHANGED <<now, disk>>
  BY <1>1, <1>2, NotMoved DEF DiskOK
<1>3. ASSUME NEW f \in Files \ locked, now < MaxTime, now' = now + 1,
             disk' = [disk EXCEPT ![f] = now']
      PROVE  now' \in 0 .. MaxTime /\ Moved(disk, now, disk', now')
  BY <1>1, <1>3 DEF DiskOK, Moved
<1>4. ASSUME NEW f \in Files \ locked, UNCHANGED now, disk' = [disk EXCEPT ![f] = 0]
      PROVE  now' \in 0 .. MaxTime /\ Moved(disk, now, disk', now')
  BY <1>1, <1>4 DEF DiskOK, Moved
<1> QED BY <1>2, <1>3, <1>4 DEF RefreshOf

(***************************************************************************)
(* One group                                                               *)
(***************************************************************************)
\* What a command may offer of a file that did not change under it.
Current(g, d1, d2) ==
    d1[g.file] # 0 /\ d2[g.file] = d1[g.file] =>
       \/ g.read = d1[g.file]
       \/ g.read = 0 /\ g.file \in locked

\* A group that keeps its time stamp stays honest, since time goes on.
LEMMA StaysHonest ==
    ASSUME NEW d1, NEW t1, NEW d2, NEW t2, Moved(d1, t1, d2, t2),
           NEW g \in Group(t1), Honest(g, d1)
    PROVE  g \in Group(t2) /\ Honest(g, d2)
<1>1. /\ g.file \in Files /\ g.stamp \in 0 .. t1 /\ g.read \in 0 .. t1
      /\ g = [file |-> g.file, active |-> g.active, stamp |-> g.stamp, read |-> g.read]
      /\ g.active \in BOOLEAN
  BY DEF Group
<1>2. /\ g.stamp \in 0 .. t2 /\ g.read \in 0 .. t2
      /\ d1[g.file] \in 0 .. t1 /\ d2[g.file] \in 0 .. t2
  BY <1>1 DEF Moved
<1>3. g \in Group(t2)
  BY <1>1, <1>2 DEF Group
<1>4. Honest(g, d2)
  BY <1>1, <1>2 DEF Moved, Honest
<1> QED BY <1>3, <1>4

\* Refreshing a group keeps its file and the user's choice, and leaves it with what is
\* in the file or with nothing.
LEMMA ReloadedGroup ==
    ASSUME NEW d1, NEW t1, NEW d2, NEW t2, Moved(d1, t1, d2, t2),
           NEW g \in Group(t1), Honest(g, d1)
    PROVE  LET r == Reloaded(g, d1, d2)
           IN /\ r \in Group(t2) /\ Honest(r, d2) /\ Current(r, d1, d2)
              /\ r.file = g.file /\ r.active = g.active
<1> DEFINE r == Reloaded(g, d1, d2)
           f == g.file
<1>1. /\ g.file \in Files /\ g.stamp \in 0 .. t1 /\ g.read \in 0 .. t1 /\ g.active \in BOOLEAN
      /\ g = [file |-> g.file, active |-> g.active, stamp |-> g.stamp, read |-> g.read]
      /\ d1[f] \in 0 .. t1 /\ d2[f] \in 0 .. t2 /\ d1[f] \in 0 .. t2
      /\ g.stamp \in 0 .. t2 /\ 0 \in 0 .. t2
  BY DEF Group, Moved
<1>2. CASE d1[f] \in {0, g.stamp}
  <2>1. r = g
    BY <1>2 DEF Reloaded
  <2>2. Current(g, d1, d2)
    BY <1>1, <1>2 DEF Current, Honest
  <2> QED BY <2>1, <2>2, StaysHonest
<1>3. CASE d1[f] \notin {0, g.stamp} /\ (d2[f] = 0 \/ f \in locked)
  <2>1. r = [g EXCEPT !.read = 0]
    BY <1>3 DEF Reloaded
  <2>2. /\ r = [file |-> f, active |-> g.active, stamp |-> g.stamp, read |-> 0]
        /\ r.file = f /\ r.active = g.active /\ r.stamp = g.stamp /\ r.read = 0
    BY <1>1, <2>1
  <2>3. r \in Group(t2)
    BY <1>1, <2>2 DEF Group
  <2>4. Honest(r, d2) /\ Current(r, d1, d2)
    BY <1>1, <1>3, <2>2 DEF Honest, Current, Moved
  <2> QED BY <2>2, <2>3, <2>4
<1>4. CASE d1[f] \notin {0, g.stamp} /\ ~(d2[f] = 0 \/ f \in locked)
  <2>1. r = [g EXCEPT !.stamp = d1[f], !.read = d2[f]]
    BY <1>4 DEF Reloaded
  <2>2. /\ r = [file |-> f, active |-> g.active, stamp |-> d1[f], read |-> d2[f]]
        /\ r.file = f /\ r.active = g.active /\ r.stamp = d1[f] /\ r.read = d2[f]
    BY <1>1, <2>1
  <2>3. r \in Group(t2)
    BY <1>1, <2>2 DEF Group
  <2>4. Honest(r, d2) /\ Current(r, d1, d2)
    BY <1>1, <1>4, <2>2 DEF Honest, Current
  <2> QED BY <2>2, <2>3, <2>4
<1> QED BY <1>2, <1>3, <1>4

\* A new group.
LEMMA NewGroupOK ==
    ASSUME DiskOK, NEW f \in Files, NEW on \in BOOLEAN
    PROVE  LET g == NewGroup(f, on)
           IN g \in Group(now) /\ Honest(g, disk) /\ g.file = f /\ g.active = on
<1> DEFINE g == [file |-> f, active |-> on, stamp |-> 0, read |-> 0]
<1>1. g \in Group(now) /\ g.file = f /\ g.active = on /\ Honest(g, disk)
  BY TextAssumption DEF Group, DiskOK, Honest
<1>2. NewGroup(f, on) = Reloaded(g, disk, disk)
  BY DEF NewGroup
<1> HIDE DEF g
<1> QED BY <1>1, <1>2, NotMoved, ReloadedGroup

(***************************************************************************)
(* The list of groups                                                      *)
(***************************************************************************)
\* Honest groups of different files make a list.
LEMMA ListOfGroups ==
    ASSUME NEW n \in Nat, NEW gs, NEW t, NEW d, DOMAIN gs = 1 .. n,
           gs = [k \in 1 .. n |-> gs[k]],
           \A k \in 1 .. n : gs[k] \in Group(t) /\ Honest(gs[k], d),
           \A i, j \in 1 .. n : gs[i].file = gs[j].file => i = j
    PROVE  GroupsOK(gs, t, d) /\ Len(gs) = n
<1>1. gs \in [1 .. n -> Group(t)]
  OBVIOUS
<1>2. gs \in Seq(Group(t)) /\ Len(gs) = n
  BY <1>1
<1> QED BY <1>2 DEF GroupsOK, OnePerFile

Joins(u, s, t, S) ==
    /\ u \in Seq(S) /\ Len(u) = Len(s) + Len(t)
    /\ DOMAIN u = 1 .. Len(u) /\ u = [k \in 1 .. Len(u) |-> u[k]]
    /\ \A k \in 1 .. Len(s) : k \in DOMAIN u /\ u[k] = s[k]
    /\ \A k \in 1 .. Len(t) : Len(s) + k \in DOMAIN u /\ u[Len(s) + k] = t[k]
    /\ \A k \in 1 .. Len(u) : \/ k \in 1 .. Len(s) /\ u[k] = s[k]
                              \/ k - Len(s) \in 1 .. Len(t) /\ u[k] = t[k - Len(s)]

LEMMA Joined ==
    ASSUME NEW S, NEW s \in Seq(S), NEW t \in Seq(S)
    PROVE  Joins(s \o t, s, t, S)
<1> DEFINE u == s \o t
<1>1. Len(s) \in Nat /\ Len(t) \in Nat
  OBVIOUS
<1>2. /\ u \in Seq(S) /\ Len(u) = Len(s) + Len(t)
      /\ \A k \in 1 .. Len(s) : u[k] = s[k]
      /\ \A k \in 1 .. Len(t) : u[Len(s) + k] = t[k]
  OBVIOUS
<1> HIDE DEF u
<1>3. DOMAIN u = 1 .. Len(u) /\ u = [k \in 1 .. Len(u) |-> u[k]]
  <2>1. u \in [1 .. Len(u) -> S]
    BY ONLY <1>2, LenProperties
  <2> QED BY ONLY <2>1
<1>4. ASSUME NEW k \in 1 .. Len(u), ~(k \in 1 .. Len(s))
      PROVE  k - Len(s) \in 1 .. Len(t) /\ u[k] = t[k - Len(s)]
  <2>1. k - Len(s) \in 1 .. Len(t) /\ Len(s) + (k - Len(s)) = k
    BY <1>1, <1>2, <1>4
  <2> QED BY <1>2, <2>1
<1>5. Joins(u, s, t, S)
  BY <1>1, <1>2, <1>3, <1>4 DEF Joins
<1> QED BY <1>5 DEF u

\* Files that have no group yet, each once.
NewFiles(new, gs) ==
    /\ new \in Seq(Files) /\ \A k \in 1 .. Len(new) : new[k] \notin FilesOf(gs)
    /\ \A i, j \in 1 .. Len(new) : new[i] = new[j] => i = j

With(gs, new, on) == gs \o [k \in DOMAIN new |-> NewGroup(new[k], on[k])]

\* The groups before a refresh, and those of the files it finds in the directory.
LEMMA WithNewGroups ==
    ASSUME DiskOK, NEW gs, GroupsOK(gs, now, disk),
           NEW new, NewFiles(new, gs), NEW on \in [DOMAIN new -> BOOLEAN],
           NEW all, all = With(gs, new, on)
    PROVE  /\ GroupsOK(all, now, disk) /\ Checks(gs) \subseteq Checks(all)
           /\ ToSet(new) \subseteq FilesOf(all) /\ FilesOf(gs) \subseteq FilesOf(all)
<1> DEFINE add == [k \in DOMAIN new |-> NewGroup(new[k], on[k])]
<1> USE DEF NewFiles
<1>1. DOMAIN new = 1 .. Len(new) /\ Len(new) \in Nat
  OBVIOUS
<1>2. ASSUME NEW k \in 1 .. Len(new)
      PROVE  /\ add[k] \in Group(now) /\ Honest(add[k], disk)
             /\ add[k].file = new[k]
  <2>1. new[k] \in Files /\ on[k] \in BOOLEAN /\ add[k] = NewGroup(new[k], on[k])
    BY <1>1
  <2> HIDE DEF add
  <2> QED BY <2>1, NewGroupOK
<1>3. add \in Seq(Group(now)) /\ Len(add) = Len(new)
  <2>1. add \in [1 .. Len(new) -> Group(now)]
    BY <1>1, <1>2
  <2> HIDE DEF add
  <2> QED BY <1>1, <2>1
<1>c. all = gs \o add
  BY DEF With
<1> HIDE DEF add
<1>4. /\ gs \in Seq(Group(now)) /\ DOMAIN gs = 1 .. Len(gs) /\ Len(gs) \in Nat
      /\ OnePerFile(gs) /\ \A k \in 1 .. Len(gs) : gs[k] \in Group(now) /\ Honest(gs[k], disk)
  BY DEF GroupsOK
<1>5. /\ all \in Seq(Group(now)) /\ Len(all) = Len(gs) + Len(new)
      /\ DOMAIN all = 1 .. Len(all) /\ all = [k \in 1 .. Len(all) |-> all[k]]
      /\ \A k \in 1 .. Len(gs) : k \in DOMAIN all /\ all[k] = gs[k]
      /\ \A k \in 1 .. Len(new) : Len(gs) + k \in DOMAIN all /\ all[Len(gs) + k] = add[k]
      /\ \A k \in 1 .. Len(all) : \/ k \in 1 .. Len(gs) /\ all[k] = gs[k]
                                  \/ k - Len(gs) \in 1 .. Len(new) /\ all[k] = add[k - Len(gs)]
  <2>2. gs \in Seq(Group(now)) /\ add \in Seq(Group(now))
    BY <1>3, <1>4
  <2>3. Joins(all, gs, add, Group(now))
    BY ONLY <1>c, <2>2, Joined, Zenon
  <2> QED BY ONLY <1>3, <2>3 DEF Joins
<1>6. ASSUME NEW k \in 1 .. Len(all)
      PROVE  \/ k \in 1 .. Len(gs) /\ all[k] = gs[k]
             \/ k - Len(gs) \in 1 .. Len(new) /\ all[k] = add[k - Len(gs)]
  BY <1>5
<1>7. \A k \in 1 .. Len(all) : all[k] \in Group(now) /\ Honest(all[k], disk)
  BY <1>2, <1>4, <1>6
<1>8. ASSUME NEW i \in 1 .. Len(all), NEW j \in 1 .. Len(all), all[i].file = all[j].file
      PROVE  i = j
  <2>1. CASE i \in 1 .. Len(gs) /\ all[i] = gs[i] /\ j \in 1 .. Len(gs) /\ all[j] = gs[j]
    BY <1>4, <1>8, <2>1 DEF OnePerFile
  <2>2. CASE /\ i - Len(gs) \in 1 .. Len(new) /\ all[i] = add[i - Len(gs)]
             /\ j - Len(gs) \in 1 .. Len(new) /\ all[j] = add[j - Len(gs)]
    <3>1. new[i - Len(gs)] = new[j - Len(gs)]
      BY <1>2, <1>8, <2>2
    <3>2. i - Len(gs) = j - Len(gs)
      BY <2>2, <3>1
    <3> QED BY <1>4, <1>5, <3>2
  <2>3. ASSUME NEW a \in 1 .. Len(gs), NEW b \in 1 .. Len(new)
        PROVE  gs[a].file # add[b].file
    <3>1. gs[a].file \in FilesOf(gs)
      BY <1>4 DEF FilesOf
    <3> QED BY <1>2, <3>1
  <2>4. \/ i \in 1 .. Len(gs) /\ all[i] = gs[i]
        \/ i - Len(gs) \in 1 .. Len(new) /\ all[i] = add[i - Len(gs)]
    BY <1>6
  <2>5. \/ j \in 1 .. Len(gs) /\ all[j] = gs[j]
        \/ j - Len(gs) \in 1 .. Len(new) /\ all[j] = add[j - Len(gs)]
    BY <1>6
  <2> QED BY <1>8, <2>1, <2>2, <2>3, <2>4, <2>5, Zenon
<1>9. GroupsOK(all, now, disk)
  <2>1. Len(all) \in Nat /\ DOMAIN all = 1 .. Len(all)
    BY <1>1, <1>4, <1>5
  <2>2. all = [k \in 1 .. Len(all) |-> all[k]]
    BY ONLY <1>5
  <2>3. \A i, j \in 1 .. Len(all) : all[i].file = all[j].file => i = j
    BY <1>8
  <2> QED BY ONLY <1>7, <2>1, <2>2, <2>3, ListOfGroups
<1>10. Checks(gs) \subseteq Checks(all) /\ FilesOf(gs) \subseteq FilesOf(all)
  <2>1. \A k \in DOMAIN gs : k \in DOMAIN all /\ all[k] = gs[k]
    BY <1>4, <1>5
  <2> QED BY <2>1 DEF Checks, FilesOf
<1>11. ToSet(new) \subseteq FilesOf(all)
  <2>1. \A k \in 1 .. Len(new) : Len(gs) + k \in DOMAIN all /\ all[Len(gs) + k].file = new[k]
    BY <1>1, <1>2, <1>4, <1>5
  <2> SUFFICES ASSUME NEW x \in ToSet(new) PROVE x \in FilesOf(all)
    OBVIOUS
  <2>2. PICK k \in 1 .. Len(new) : x = new[k]
    BY <1>1 DEF ToSet
  <2> QED BY <2>1, <2>2 DEF FilesOf
<1> QED BY <1>9, <1>10, <1>11

Each(gs, d1, d2) == [k \in DOMAIN gs |-> Reloaded(gs[k], d1, d2)]

\* Refreshing each group of a list.
LEMMA EachReloaded ==
    ASSUME NEW d1, NEW t1, NEW d2, NEW t2, Moved(d1, t1, d2, t2),
           NEW gs, GroupsOK(gs, t1, d1),
           NEW r, r = Each(gs, d1, d2)
    PROVE  /\ GroupsOK(r, t2, d2) /\ Len(r) = Len(gs)
           /\ Checks(r) = Checks(gs) /\ FilesOf(r) = FilesOf(gs)
           /\ \A k \in DOMAIN r : Current(r[k], d1, d2)
<1>1. /\ DOMAIN gs = 1 .. Len(gs) /\ Len(gs) \in Nat /\ OnePerFile(gs)
      /\ \A k \in 1 .. Len(gs) : gs[k] \in Group(t1) /\ Honest(gs[k], d1)
  BY DEF GroupsOK
<1>2. DOMAIN r = 1 .. Len(gs) /\ r = [k \in 1 .. Len(gs) |-> r[k]]
  BY <1>1 DEF Each
<1>3. ASSUME NEW k \in 1 .. Len(gs)
      PROVE  /\ r[k] \in Group(t2) /\ Honest(r[k], d2) /\ Current(r[k], d1, d2)
             /\ r[k].file = gs[k].file /\ r[k].active = gs[k].active
  <2>1. r[k] = Reloaded(gs[k], d1, d2)
    BY <1>1 DEF Each
  <2> QED BY <1>1, <2>1, ReloadedGroup
<1>4. \A i, j \in 1 .. Len(gs) : r[i].file = r[j].file => i = j
  BY <1>1, <1>3 DEF OnePerFile
<1>5. GroupsOK(r, t2, d2) /\ Len(r) = Len(gs)
  BY <1>1, <1>2, <1>3, <1>4, ListOfGroups
<1>6. Checks(r) = Checks(gs) /\ FilesOf(r) = FilesOf(gs)
  BY <1>1, <1>2, <1>3 DEF Checks, FilesOf
<1> QED BY <1>2, <1>3, <1>5, <1>6

\* TemplateManager::Refresh() keeps every group with its check, adds those of the
\* directory, and leaves each with what is in its file.
LEMMA RefreshedGroups ==
    ASSUME DiskOK, NEW d2, NEW t2, Moved(disk, now, d2, t2),
           NEW gs, GroupsOK(gs, now, disk), NEW r \in Refreshed(gs, d2)
    PROVE  /\ GroupsOK(r, t2, d2) /\ Checks(gs) \subseteq Checks(r)
           /\ \A f \in Local : disk[f] # 0 => f \in FilesOf(r)
           /\ \A k \in DOMAIN r : Current(r[k], disk, d2)
<1> DEFINE found == {f \in Local \ FilesOf(gs) : disk[f] # 0}
           new == InOrder(found)
<1>0. PICK on \in [DOMAIN new -> BOOLEAN] :
         \E all : all = With(gs, new, on) /\ r = Each(all, disk, d2)
  BY Zenon DEF Refreshed, With, Each
<1>1. PICK all : all = With(gs, new, on) /\ r = Each(all, disk, d2)
  BY <1>0
<1>2. found \in SUBSET Files
  BY FilesAssumption
<1>3. /\ new \in Seq(found) /\ ToSet(new) = found
      /\ \A i, j \in 1 .. Len(new) : new[i] = new[j] => i = j
  <2> HIDE DEF found
  <2>1. found \in SUBSET Nat /\ IsFiniteSet(found)
    BY <1>2, FilesAssumption, FS_Subset
  <2> QED BY <2>1, InOrderOf
<1>4. NewFiles(new, gs)
  <2> HIDE DEF new
  <2> QED BY <1>2, <1>3 DEF NewFiles
<1> HIDE DEF new, found
<1>5. /\ GroupsOK(all, now, disk) /\ Checks(gs) \subseteq Checks(all)
      /\ ToSet(new) \subseteq FilesOf(all) /\ FilesOf(gs) \subseteq FilesOf(all)
  BY <1>1, <1>4, WithNewGroups, Zenon
<1>6. /\ GroupsOK(r, t2, d2) /\ Checks(r) = Checks(all) /\ FilesOf(r) = FilesOf(all)
      /\ \A k \in DOMAIN r : Current(r[k], disk, d2)
  <2>1. GroupsOK(all, now, disk) /\ r = Each(all, disk, d2) /\ Moved(disk, now, d2, t2)
    BY <1>1, <1>5
  <2> QED BY ONLY <2>1, EachReloaded
<1>7. \A f \in Local : disk[f] # 0 => f \in FilesOf(r)
  BY <1>3, <1>5, <1>6 DEF found
<1> QED BY <1>5, <1>6, <1>7

(***************************************************************************)
(* The registry                                                            *)
(***************************************************************************)
\* What LoadRegistry() reads is the first part of the list.
LEMMA ReadableEntries ==
    ASSUME NEW reg \in Seq(Choice), OnePerFile(reg)
    PROVE  /\ Readable(reg) \in Seq(Choice) /\ OnePerFile(Readable(reg))
           /\ Checks(Readable(reg)) \subseteq Checks(reg)
           /\ \A w \in Checks(reg) : w[1] \in FilesOf(Readable(reg)) => w \in Checks(Readable(reg))
<1> DEFINE gone == {k \in DOMAIN reg : disk[reg[k].file] = 0}
           m == IF gone = {} THEN Len(reg) ELSE Min(gone) - 1
           rd == SubSeq(reg, 1, m)
<1>1. Len(reg) \in Nat /\ DOMAIN reg = 1 .. Len(reg) /\ \A k \in 1 .. Len(reg) : reg[k] \in Choice
  OBVIOUS
<1>2. m \in 0 .. Len(reg)
  <2>1. ASSUME gone # {}
        PROVE  Min(gone) \in 1 .. Len(reg)
    <3>1. gone \in SUBSET Nat /\ gone \subseteq 1 .. Len(reg)
      BY <1>1
    <3> HIDE DEF gone
    <3>2. \E x \in gone : \A y \in gone : x <= y
      BY <2>1, <3>1, MinExists
    <3>3. Min(gone) \in gone
      BY <3>2 DEF Min
    <3> QED BY <3>1, <3>3
  <2> HIDE DEF gone
  <2> QED BY <1>1, <2>1
<1>3. Readable(reg) = rd
  BY DEF Readable
<1> HIDE DEF m
<1>4. /\ rd \in Seq(Choice) /\ Len(rd) = m /\ DOMAIN rd = 1 .. m
      /\ \A k \in 1 .. m : k \in 1 .. Len(reg) /\ rd[k] = reg[k]
  BY <1>1, <1>2, SubSeqProperties
<1> HIDE DEF rd
<1>5. OnePerFile(rd) /\ Checks(rd) \subseteq Checks(reg)
  BY <1>1, <1>4 DEF OnePerFile, Checks
<1>6. ASSUME NEW w \in Checks(reg), w[1] \in FilesOf(rd)
      PROVE  w \in Checks(rd)
  <2>1. PICK k \in 1 .. Len(reg) : w = <<reg[k].file, reg[k].active>>
    BY <1>1 DEF Checks
  <2>2. PICK j \in 1 .. m : w[1] = rd[j].file
    BY <1>4, <1>6 DEF FilesOf
  <2>3. j \in 1 .. Len(reg) /\ reg[j].file = reg[k].file
    BY <1>4, <2>1, <2>2
  <2>4. j = k
    BY <1>1, <2>1, <2>3 DEF OnePerFile
  <2> QED BY <1>4, <2>1, <2>4 DEF Checks
<1> QED BY <1>3, <1>4, <1>5, <1>6

\* LoadRegistry() makes a group of each of them, with its check.
LEMMA LoadedGroups ==
    ASSUME DiskOK, NEW reg \in Seq(Choice), OnePerFile(reg)
    PROVE  /\ GroupsOK(Load(reg), now, disk)
           /\ Checks(Load(reg)) = Checks(Readable(reg))
<1> DEFINE rd == Readable(reg)
           gs == Load(reg)
<1>1. rd \in Seq(Choice) /\ OnePerFile(rd)
  BY ReadableEntries
<1>2. gs = [k \in DOMAIN rd |-> NewGroup(rd[k].file, rd[k].active)]
  BY DEF Load
<1> HIDE DEF rd, gs
<1>3. Len(rd) \in Nat /\ DOMAIN rd = 1 .. Len(rd)
  BY <1>1
<1>4. DOMAIN gs = 1 .. Len(rd) /\ gs = [k \in 1 .. Len(rd) |-> gs[k]]
  BY <1>2, <1>3
<1>5. ASSUME NEW k \in 1 .. Len(rd)
      PROVE  /\ gs[k] \in Group(now) /\ Honest(gs[k], disk)
             /\ gs[k].file = rd[k].file /\ gs[k].active = rd[k].active
  <2>1. rd[k].file \in Files /\ rd[k].active \in BOOLEAN
    <3>1. rd[k] \in Choice
      BY ONLY <1>1, <1>3
    <3> QED BY ONLY <3>1 DEF Choice
  <2>2. gs[k] = NewGroup(rd[k].file, rd[k].active)
    BY <1>2, <1>3
  <2> DEFINE g == NewGroup(rd[k].file, rd[k].active)
  <2>3. g \in Group(now) /\ Honest(g, disk) /\ g.file = rd[k].file /\ g.active = rd[k].active
    BY <2>1, NewGroupOK
  <2> HIDE DEF g
  <2> QED BY <2>2, <2>3 DEF g
<1>6. \A i, j \in 1 .. Len(rd) : gs[i].file = gs[j].file => i = j
  BY <1>1, <1>3, <1>5 DEF OnePerFile
<1>7. GroupsOK(gs, now, disk)
  BY <1>3, <1>4, <1>5, <1>6, ListOfGroups
<1>8. Checks(gs) = Checks(rd)
  BY <1>3, <1>4, <1>5 DEF Checks
<1> QED BY <1>7, <1>8 DEF gs, rd

\* SaveRegistry() keeps each group's file and check.
LEMMA SavedGroups ==
    ASSUME NEW t, NEW d, NEW gs, GroupsOK(gs, t, d)
    PROVE  Saved(gs) \in Seq(Choice) /\ OnePerFile(Saved(gs)) /\ Checks(Saved(gs)) = Checks(gs)
<1> DEFINE reg == Saved(gs)
<1>1. /\ Len(gs) \in Nat /\ DOMAIN gs = 1 .. Len(gs) /\ OnePerFile(gs)
      /\ \A k \in 1 .. Len(gs) : gs[k] \in Group(t)
  BY DEF GroupsOK
<1>2. reg = [k \in 1 .. Len(gs) |-> [file |-> gs[k].file, active |-> gs[k].active]]
  BY <1>1 DEF Saved
<1> HIDE DEF reg
<1>3. ASSUME NEW k \in 1 .. Len(gs)
      PROVE  /\ reg[k] \in Choice /\ reg[k].file = gs[k].file /\ reg[k].active = gs[k].active
  <2>1. gs[k].file \in Files /\ gs[k].active \in BOOLEAN
    BY <1>1 DEF Group
  <2>2. reg[k] = [file |-> gs[k].file, active |-> gs[k].active]
    BY <1>2
  <2> QED BY <2>1, <2>2 DEF Choice
<1>4. reg \in Seq(Choice) /\ DOMAIN reg = 1 .. Len(gs)
  <2>1. reg \in [1 .. Len(gs) -> Choice]
    BY <1>2, <1>3
  <2> QED BY <1>1, <2>1
<1>5. OnePerFile(reg) /\ Checks(reg) = Checks(gs)
  BY <1>1, <1>3, <1>4 DEF OnePerFile, Checks
<1> QED BY <1>4, <1>5 DEF reg

(***************************************************************************)
(* Removing groups                                                         *)
(***************************************************************************)
\* The groups after each of the rows s that were removed up to the n-th.
RemovedUpTo(f, n, s) ==
    f = [k \in 0 .. n |-> IF k = 0 THEN groups ELSE RemoveAt(f[k - 1], s[k])]

\* There are such groups, for any number of rows: the least number for which there
\* were none would be one more than a number for which there are.
LEMMA RemovedExists == ASSUME NEW s, NEW n \in Nat PROVE \E f : RemovedUpTo(f, n, s)
<1> DEFINE B == {m \in Nat : ~\E f : RemovedUpTo(f, m, s)}
<1> SUFFICES ASSUME ~\E f : RemovedUpTo(f, n, s) PROVE FALSE
  OBVIOUS
<1>1. B \in SUBSET Nat /\ B # {}
  OBVIOUS
<1>2. PICK m \in B : \A x \in B : m <= x
  <2> HIDE DEF B
  <2> QED BY <1>1, MinExists
<1>3. m \in Nat /\ ~\E f : RemovedUpTo(f, m, s)
  OBVIOUS
<1>4. m # 0
  <2>1. RemovedUpTo([k \in 0 .. 0 |-> groups], 0, s)
    BY DEF RemovedUpTo
  <2> QED BY <1>3, <2>1
<1>5. m - 1 \in Nat /\ ~(m <= m - 1)
  BY <1>3, <1>4
<1>6. PICK g : RemovedUpTo(g, m - 1, s)
  <2>1. m - 1 \notin B
    <3> HIDE DEF B
    <3> QED BY <1>2, <1>5
  <2> QED BY <1>5, <2>1
<1> DEFINE f == [k \in 0 .. m |-> IF k = m THEN RemoveAt(g[m - 1], s[m]) ELSE g[k]]
<1>7. ASSUME NEW k \in 0 .. m
      PROVE  f[k] = IF k = 0 THEN groups ELSE RemoveAt(f[k - 1], s[k])
  <2>1. ASSUME NEW i \in 0 .. m - 1
        PROVE  f[i] = g[i]
    BY <1>3, <1>5
  <2>2. CASE k = m
    <3>1. f[k] = RemoveAt(g[m - 1], s[m])
      BY <2>2
    <3>2. k # 0 /\ k - 1 \in 0 .. m - 1 /\ k - 1 = m - 1
      BY <1>3, <1>4, <2>2
    <3> HIDE DEF f
    <3> QED BY <2>1, <2>2, <3>1, <3>2
  <2>3. CASE k # m
    <3>1. k \in 0 .. m - 1 /\ (k # 0 => k - 1 \in 0 .. m - 1)
      BY <1>3, <2>3
    <3>2. g[k] = IF k = 0 THEN groups ELSE RemoveAt(g[k - 1], s[k])
      BY <1>6, <3>1 DEF RemovedUpTo
    <3> HIDE DEF f
    <3> QED BY <2>1, <3>1, <3>2
  <2> QED BY <2>2, <2>3
<1>8. RemovedUpTo(f, m, s)
  <2>1. f = [k \in 0 .. m |-> f[k]]
    OBVIOUS
  <2> HIDE DEF f
  <2> QED BY <1>7, <2>1 DEF RemovedUpTo
<1> QED BY <1>3, <1>8

LEMMA RemovedSteps ==
    ASSUME NEW s, Len(s) \in Nat
    PROVE  \E f : RemovedUpTo(f, Len(s), s) /\ Removed(s) = f[Len(s)]
<1> DEFINE F == CHOOSE f : f = [k \in 0 .. Len(s) |-> IF k = 0 THEN groups
                                                     ELSE RemoveAt(f[k - 1], s[k])]
<1>1. \E f : f = [k \in 0 .. Len(s) |-> IF k = 0 THEN groups ELSE RemoveAt(f[k - 1], s[k])]
  BY RemovedExists DEF RemovedUpTo
<1>2. RemovedUpTo(F, Len(s), s)
  BY <1>1, Zenon DEF RemovedUpTo
<1>3. Removed(s) = F[Len(s)]
  BY DEF Removed
<1> QED BY <1>2, <1>3

\* TemplateManager::Remove()
LEMMA RemovedOne ==
    ASSUME NEW t, NEW d, NEW gs, GroupsOK(gs, t, d), NEW i \in 1 .. Len(gs),
           NEW r, r = RemoveAt(gs, i)
    PROVE  /\ GroupsOK(r, t, d) /\ Len(r) = Len(gs) - 1
           /\ Checks(r) \subseteq Checks(gs)
<1>1. /\ Len(gs) \in Nat /\ DOMAIN gs = 1 .. Len(gs) /\ OnePerFile(gs)
      /\ gs \in Seq(Group(t))
      /\ \A k \in 1 .. Len(gs) : gs[k] \in Group(t) /\ Honest(gs[k], d)
  BY DEF GroupsOK
<1> DEFINE a == SubSeq(gs, 1, i - 1)
           b == SubSeq(gs, i + 1, Len(gs))
<1>2. /\ a \in Seq(Group(t)) /\ Len(a) = i - 1
      /\ \A k \in 1 .. i - 1 : a[k] = gs[k]
  <2>1. 1 \in Int /\ i - 1 \in Int /\ \A k \in 1 .. i - 1 : gs[k] \in Group(t)
    BY <1>1
  <2>2. /\ a \in Seq(Group(t)) /\ Len(a) = (IF 1 <= i - 1 THEN i - 1 - 1 + 1 ELSE 0)
        /\ \A k \in 1 .. i - 1 - 1 + 1 : a[k] = gs[1 + k - 1]
    BY <2>1, SubSeqProperties
  <2> HIDE DEF a
  <2> QED BY <1>1, <2>2
<1>3. /\ b \in Seq(Group(t)) /\ Len(b) = Len(gs) - i
      /\ \A k \in 1 .. Len(gs) - i : b[k] = gs[i + k]
  <2>1. i + 1 \in Int /\ Len(gs) \in Int /\ \A k \in i + 1 .. Len(gs) : gs[k] \in Group(t)
    BY <1>1
  <2>2. /\ b \in Seq(Group(t))
        /\ Len(b) = (IF i + 1 <= Len(gs) THEN Len(gs) - (i + 1) + 1 ELSE 0)
        /\ \A k \in 1 .. Len(gs) - (i + 1) + 1 : b[k] = gs[i + 1 + k - 1]
    BY <2>1, SubSeqProperties
  <2> HIDE DEF b
  <2>3. Len(b) = Len(gs) - i
    <3>1. i \in Nat /\ i <= Len(gs) /\ Len(gs) \in Nat
      BY <1>1
    <3>2. (IF i + 1 <= Len(gs) THEN Len(gs) - (i + 1) + 1 ELSE 0) = Len(gs) - i
      BY ONLY <3>1
    <3> QED BY ONLY <2>2, <3>2
  <2>4. ASSUME NEW k \in 1 .. Len(gs) - i
        PROVE  b[k] = gs[i + k]
    <3>1. k \in 1 .. Len(gs) - (i + 1) + 1 /\ i + 1 + k - 1 = i + k
      BY <1>1
    <3>2. b[k] = gs[i + 1 + k - 1]
      BY <2>2, <3>1
    <3> QED BY <3>1, <3>2
  <2> QED BY <2>2, <2>3, <2>4
<1>4. r = a \o b
  BY DEF RemoveAt
<1> HIDE DEF a, b
<1>5. Joins(r, a, b, Group(t))
  BY <1>2, <1>3, <1>4, Joined
<1>6. /\ Len(r) = Len(gs) - 1 /\ DOMAIN r = 1 .. Len(r) /\ r = [k \in 1 .. Len(r) |-> r[k]]
      /\ \A k \in 1 .. Len(r) :
            LET j == IF k <= i - 1 THEN k ELSE k + 1
            IN j \in 1 .. Len(gs) /\ r[k] = gs[j]
  <2>1. /\ Len(r) = Len(a) + Len(b) /\ DOMAIN r = 1 .. Len(r) /\ r = [k \in 1 .. Len(r) |-> r[k]]
        /\ \A k \in 1 .. Len(a) : r[k] = a[k]
        /\ \A k \in 1 .. Len(b) : r[Len(a) + k] = b[k]
    BY <1>5 DEF Joins
  <2>2. Len(r) = Len(gs) - 1
    BY <1>1, <1>2, <1>3, <2>1
  <2>3. ASSUME NEW k \in 1 .. Len(r), k <= i - 1
        PROVE  k \in 1 .. Len(gs) /\ r[k] = gs[k]
    BY <1>1, <1>2, <2>1, <2>2, <2>3
  <2>4. ASSUME NEW k \in 1 .. Len(r), ~(k <= i - 1)
        PROVE  k + 1 \in 1 .. Len(gs) /\ r[k] = gs[k + 1]
    <3> DEFINE x == k - (i - 1)
    <3>1. x \in 1 .. Len(gs) - i /\ Len(a) + x = k /\ i + x = k + 1 /\ k + 1 \in 1 .. Len(gs)
      BY <1>1, <1>2, <2>2, <2>4
    <3> HIDE DEF x
    <3>2. r[Len(a) + x] = b[x] /\ b[x] = gs[i + x]
      BY <1>3, <2>1, <3>1
    <3> QED BY <3>1, <3>2
  <2> QED BY <2>1, <2>2, <2>3, <2>4
<1>7. PICK at \in [1 .. Len(r) -> 1 .. Len(gs)] :
         /\ \A k \in 1 .. Len(r) : r[k] = gs[at[k]]
         /\ \A k, m \in 1 .. Len(r) : at[k] = at[m] => k = m
  <2> DEFINE g == [k \in 1 .. Len(r) |-> IF k <= i - 1 THEN k ELSE k + 1]
  <2>1. g \in [1 .. Len(r) -> 1 .. Len(gs)] /\ \A k \in 1 .. Len(r) : r[k] = gs[g[k]]
    BY <1>6
  <2>2. \A k, m \in 1 .. Len(r) : g[k] = g[m] => k = m
    BY <1>1, <1>6
  <2> QED BY <2>1, <2>2
<1>8. \A k \in 1 .. Len(r) : r[k] \in Group(t) /\ Honest(r[k], d)
  BY <1>1, <1>7
<1>9. \A k, m \in 1 .. Len(r) : r[k].file = r[m].file => k = m
  BY <1>1, <1>7 DEF OnePerFile
<1>10. GroupsOK(r, t, d)
  <2>1. Len(r) \in Nat
    BY <1>1, <1>6
  <2> QED BY <1>6, <1>8, <1>9, <2>1, ListOfGroups
<1>11. Checks(r) \subseteq Checks(gs)
  BY <1>1, <1>6, <1>7 DEF Checks
<1> QED BY <1>6, <1>10, <1>11

\* Removing rows takes groups away and leaves the others as they are.
LEMMA RemovedGroups ==
    ASSUME NEW t, NEW d, GroupsOK(groups, t, d),
           NEW s \in Seq(Nat \ {0}), InRange(s)
    PROVE  GroupsOK(Removed(s), t, d) /\ Checks(Removed(s)) \subseteq Checks(groups)
<1>1. Len(s) \in Nat /\ DOMAIN s = 1 .. Len(s) /\ Len(groups) \in Nat
  BY DEF GroupsOK
<1>2. PICK f : RemovedUpTo(f, Len(s), s) /\ Removed(s) = f[Len(s)]
  BY <1>1, RemovedSteps
<1> DEFINE Fine(k) == /\ GroupsOK(f[k], t, d) /\ Len(f[k]) = Len(groups) - k
                      /\ Checks(f[k]) \subseteq Checks(groups)
           B == {k \in 0 .. Len(s) : ~Fine(k)}
<1>3. f[0] = groups /\ \A k \in 1 .. Len(s) : f[k] = RemoveAt(f[k - 1], s[k])
  <2>1. \A k \in 0 .. Len(s) : f[k] = IF k = 0 THEN groups ELSE RemoveAt(f[k - 1], s[k])
    BY <1>2, Zenon DEF RemovedUpTo
  <2>2. 0 \in 0 .. Len(s) /\ \A k \in 1 .. Len(s) : k \in 0 .. Len(s) /\ k # 0
    BY ONLY <1>1
  <2> QED BY ONLY <2>1, <2>2
<1>4. Fine(0)
  BY <1>1, <1>3
<1>5. ASSUME NEW k \in 1 .. Len(s), Fine(k - 1)
      PROVE  Fine(k)
  <2>1. s[k] \in 1 .. Len(f[k - 1])
    <3>0. s[k] \in Nat \ {0} /\ k \in DOMAIN s
      BY ONLY <1>1, s \in Seq(Nat \ {0}), k \in 1 .. Len(s)
    <3>1. s[k] <= Len(groups) - (k - 1) /\ s[k] \in Nat \ {0}
      BY <3>0, Zenon DEF InRange
    <3> QED BY <1>1, <1>5, <3>1
  <2>2. /\ GroupsOK(f[k], t, d) /\ Len(f[k]) = Len(f[k - 1]) - 1
        /\ Checks(f[k]) \subseteq Checks(f[k - 1])
    BY <1>3, <1>5, <2>1, RemovedOne
  <2>3. Len(groups) - (k - 1) - 1 = Len(groups) - k
    BY <1>1
  <2> QED BY <1>5, <2>2, <2>3
<1> HIDE DEF Fine
<1>6. B = {}
  <2> SUFFICES ASSUME B # {} PROVE FALSE
    OBVIOUS
  <2>1. B \in SUBSET Nat
    OBVIOUS
  <2>2. PICK k \in B : \A x \in B : k <= x
    <3> HIDE DEF B
    <3> QED BY <2>1, MinExists
  <2>3. k \in 1 .. Len(s) /\ k - 1 \in 0 .. Len(s) /\ ~(k <= k - 1)
    BY <1>1, <1>4
  <2>4. Fine(k - 1)
    BY <2>2, <2>3
  <2> QED BY <1>5, <2>3, <2>4
<1>7. Fine(Len(s))
  BY <1>1, <1>6
<1> QED BY <1>2, <1>7 DEF Fine

(***************************************************************************)
(* The steps                                                               *)
(***************************************************************************)
LEMMA InitIInv == Init => IInv
<1> SUFFICES ASSUME Init PROVE IInv
  OBVIOUS
<1>1. DiskOK
  BY TextAssumption DEF Init, DiskOK
<1>2. GroupsOK(groups, now, disk) /\ RegistryOK
  BY DEF Init, GroupsOK, RegistryOK, OnePerFile
<1> QED BY <1>1, <1>2 DEF Init, IInv, OpenOK

LEMMA StutterIInv == IInv /\ UNCHANGED vars => IInv'
BY DEF IInv, DiskOK, GroupsOK, RegistryOK, OpenOK, OnePerFile, Honest, Checks, Group, vars

\* A step that leaves the disk alone keeps what is known of it.
LEMMA SameDisk ==
    ASSUME DiskOK, UNCHANGED diskVars
    PROVE  DiskOK'
BY DEF DiskOK, diskVars

\* The choice that remains when some files are gone.
LEMMA WantedLeft ==
    ASSUME NEW S, WantedIn(S), NEW checks, wanted \subseteq checks
    PROVE  /\ wanted' \subseteq checks /\ wanted' \subseteq wanted
           /\ \A w \in wanted' : w[1] \in S
BY DEF WantedIn

\* The choice that is in the registry is in the groups read from it.
LEMMA WantedLoaded ==
    ASSUME DiskOK, NEW reg \in Seq(Choice), OnePerFile(reg),
           NEW left, left \subseteq Checks(reg),
           \A w \in left : w[1] \in FilesOf(Readable(reg))
    PROVE  left \subseteq Checks(Load(reg))
BY ReadableEntries, LoadedGroups

\* The end of the program, and the next session.
LEMMA RestartIInv == ASSUME IInv, NEW crash \in BOOLEAN, Restart(crash) PROVE IInv'
<1> USE DEF IInv
<1>1. /\ registry' \in Seq(Choice) /\ OnePerFile(registry')
      /\ wanted \subseteq Checks(registry')
  <2>1. CASE crash
    BY <2>1 DEF Restart, RegistryOK
  <2>2. CASE ~crash
    <3>1. registry' = Saved(groups)
      BY <2>2 DEF Restart
    <3> QED BY <3>1, SavedGroups
  <2> QED BY <2>1, <2>2
<1>2. /\ GroupsOK(groups', now, disk) /\ groups' = Load(registry')
      /\ WantedIn(FilesOf(Readable(registry')))
  <2>1. groups' = Load(registry') /\ WantedIn(FilesOf(Readable(registry')))
    BY DEF Restart
  <2> QED BY <1>1, <2>1, LoadedGroups
<1>3. wanted' \subseteq Checks(registry') /\ wanted' \subseteq Checks(groups')
  <2>1. wanted' \subseteq Checks(registry') /\ \A w \in wanted' : w[1] \in FilesOf(Readable(registry'))
    BY <1>1, <1>2, WantedLeft
  <2> QED BY <1>1, <1>2, <2>1, WantedLoaded
<1>4. DiskOK' /\ UNCHANGED <<now, disk>>
  BY SameDisk DEF Restart, diskVars
<1>5. GroupsOK(groups', now', disk') /\ RegistryOK' /\ OpenOK'
  BY <1>1, <1>2, <1>4 DEF RegistryOK, OpenOK, OnePerFile, Restart
<1> QED BY <1>3, <1>4, <1>5 DEF GroupsOK, OnePerFile, Honest, Group, Checks

\* A refresh of groups that carry the choice.
LEMMA RefreshIInv ==
    ASSUME IInv, NEW gs, GroupsOK(gs, now, disk), RefreshOf(gs), UNCHANGED locked
    PROVE  DiskOK' /\ GroupsOK(groups, now, disk)' /\ Checks(gs) \subseteq Checks(groups')
<1>1. DiskOK
  BY DEF IInv
<1>2. now' \in 0 .. MaxTime /\ Moved(disk, now, disk', now')
  BY <1>1, RefreshMoves
<1>3. GroupsOK(groups', now', disk') /\ Checks(gs) \subseteq Checks(groups')
  BY <1>1, <1>2, RefreshedGroups DEF RefreshOf
<1>4. DiskOK'
  BY <1>1, <1>2 DEF DiskOK, Moved
<1>5. GroupsOK(groups, now, disk)'
  BY <1>3 DEF GroupsOK, OnePerFile, Honest, Group
<1> QED BY <1>3, <1>4, <1>5

\* The commands that refresh the groups.
LEMMA CommandIInv == ASSUME IInv, TemplateComplete \/ SelectOpens PROVE IInv'
<1>1. /\ RefreshOf(groups) /\ UNCHANGED <<locked, registry, wanted>> /\ OpenOK'
  BY DEF TemplateComplete, SelectOpens, IInv, OpenOK
<1>2. GroupsOK(groups, now, disk)
  BY DEF IInv
<1>3. DiskOK' /\ GroupsOK(groups, now, disk)' /\ Checks(groups) \subseteq Checks(groups')
  BY <1>1, <1>2, RefreshIInv
<1> QED BY <1>1, <1>3 DEF IInv, RegistryOK, OnePerFile, Checks

\* The file list dialog reads the registry again.
LEMMA ListOpensIInv == ASSUME IInv, ListOpens PROVE IInv'
<1> USE DEF IInv
<1>1. /\ RefreshOf(Load(registry)) /\ UNCHANGED <<locked, registry>> /\ OpenOK'
      /\ WantedIn(FilesOf(Readable(registry)))
  BY DEF ListOpens, OpenOK
<1>2. registry \in Seq(Choice) /\ OnePerFile(registry) /\ RegistryOK'
  BY <1>1 DEF RegistryOK, OnePerFile
<1>3. GroupsOK(Load(registry), now, disk)
  BY <1>2, LoadedGroups
<1>4. DiskOK' /\ GroupsOK(groups, now, disk)' /\ Checks(Load(registry)) \subseteq Checks(groups')
  BY <1>1, <1>3, RefreshIInv
<1>5. wanted' \subseteq Checks(registry) /\ \A w \in wanted' : w[1] \in FilesOf(Readable(registry))
  BY <1>1, WantedLeft
<1>6. wanted' \subseteq Checks(groups')
  BY <1>2, <1>4, <1>5, WantedLoaded
<1>7. Checks(registry)' = Checks(registry) /\ Checks(groups)' = Checks(groups')
  BY <1>1 DEF Checks
<1> QED BY <1>1, <1>2, <1>4, <1>5, <1>6, <1>7

\* Add(): a file that has a group is refreshed, another gets one.
LEMMA ListAddIInv == ASSUME IInv, NEW f \in Files, ListAdd(f) PROVE IInv'
<1> USE DEF IInv
<1>1. PICK on \in BOOLEAN : groups' = Added(f, on)
  BY DEF ListAdd
<1>2. /\ UNCHANGED <<now, disk, locked, registry, open, wanted>>
  BY DEF ListAdd, diskVars
<1>3. /\ groups \in Seq(Group(now)) /\ DOMAIN groups = 1 .. Len(groups)
      /\ Len(groups) \in Nat /\ OnePerFile(groups)
      /\ \A k \in 1 .. Len(groups) : groups[k] \in Group(now) /\ Honest(groups[k], disk)
  BY DEF GroupsOK
<1>4. GroupsOK(groups', now, disk) /\ Checks(groups) \subseteq Checks(groups')
  <2>1. CASE f \in FilesOf(groups)
    <3>1. groups' = [k \in 1 .. Len(groups) |->
                       IF groups[k].file # f THEN groups[k] ELSE Reloaded(groups[k], disk, disk)]
      BY <1>1, <1>3, <2>1 DEF Added
    <3>2. ASSUME NEW k \in 1 .. Len(groups)
          PROVE  /\ groups'[k] \in Group(now) /\ Honest(groups'[k], disk)
                 /\ groups'[k].file = groups[k].file /\ groups'[k].active = groups[k].active
      <4>1. groups'[k] = groups[k] \/ groups'[k] = Reloaded(groups[k], disk, disk)
        BY <3>1
      <4> QED BY <1>3, <4>1, NotMoved, ReloadedGroup
    <3>3. DOMAIN groups' = 1 .. Len(groups) /\ groups' = [k \in 1 .. Len(groups) |-> groups'[k]]
      BY <3>1
    <3>4. \A i, j \in 1 .. Len(groups) : groups'[i].file = groups'[j].file => i = j
      BY <1>3, <3>2 DEF OnePerFile
    <3>5. GroupsOK(groups', now, disk)
      BY <1>3, <3>2, <3>3, <3>4, ListOfGroups
    <3> QED BY <1>3, <3>2, <3>3, <3>5 DEF Checks
  <2>2. CASE f \notin FilesOf(groups)
    <3> DEFINE g == NewGroup(f, on)
               n == Len(groups)
    <3>1. groups' = Append(groups, g)
      BY <1>1, <2>2 DEF Added
    <3>2. g \in Group(now) /\ Honest(g, disk) /\ g.file = f
      BY NewGroupOK
    <3> HIDE DEF g
    <3>3. /\ Len(groups') = n + 1 /\ DOMAIN groups' = 1 .. n + 1
          /\ groups' = [k \in 1 .. n + 1 |-> groups'[k]]
          /\ \A k \in 1 .. n : groups'[k] = groups[k]
          /\ groups'[n + 1] = g
      <4>1. /\ groups' \in Seq(Group(now)) /\ Len(groups') = n + 1
            /\ \A k \in 1 .. n : groups'[k] = groups[k]
            /\ groups'[n + 1] = g
        BY <1>3, <3>1, <3>2, AppendProperties
      <4>2. groups' \in [1 .. n + 1 -> Group(now)]
        BY ONLY <4>1, LenProperties
      <4>3. DOMAIN groups' = 1 .. n + 1 /\ groups' = [k \in 1 .. n + 1 |-> groups'[k]]
        BY ONLY <4>2
      <4> QED BY ONLY <4>1, <4>3
    <3>4. \A k \in 1 .. n + 1 : groups'[k] \in Group(now) /\ Honest(groups'[k], disk)
      <4> SUFFICES ASSUME NEW k \in 1 .. n + 1
                   PROVE  groups'[k] \in Group(now) /\ Honest(groups'[k], disk)
        OBVIOUS
      <4>1. k \in 1 .. n \/ k = n + 1
        BY <1>3
      <4> QED BY <1>3, <3>2, <3>3, <4>1
    <3>5. \A k \in 1 .. n : groups'[k].file # f
      BY <1>3, <2>2, <3>3 DEF FilesOf
    <3>6. \A i, j \in 1 .. n + 1 : groups'[i].file = groups'[j].file => i = j
      <4> SUFFICES ASSUME NEW i \in 1 .. n + 1, NEW j \in 1 .. n + 1,
                          groups'[i].file = groups'[j].file
                   PROVE  i = j
        OBVIOUS
      <4>1. (i \in 1 .. n \/ i = n + 1) /\ (j \in 1 .. n \/ j = n + 1)
        BY <1>3
      <4> QED BY <1>3, <3>2, <3>3, <3>5, <4>1 DEF OnePerFile
    <3>7. GroupsOK(groups', now, disk)
      <4>1. n + 1 \in Nat
        BY <1>3
      <4> QED BY <3>3, <3>4, <3>6, <4>1, ListOfGroups
    <3>8. Checks(groups) \subseteq Checks(groups')
      <4>1. \A k \in DOMAIN groups : k \in DOMAIN groups' /\ groups'[k] = groups[k]
        BY <1>3, <3>3
      <4> QED BY <4>1 DEF Checks
    <3> QED BY <3>7, <3>8
  <2> QED BY <2>1, <2>2
<1>5. GroupsOK(groups, now, disk)'
  BY <1>2, <1>4 DEF GroupsOK, OnePerFile, Honest, Group
<1>6. /\ Checks(registry)' = Checks(registry) /\ Checks(groups)' = Checks(groups')
      /\ wanted' = wanted
  BY <1>2 DEF Checks
<1>7. DiskOK' /\ RegistryOK' /\ OpenOK'
  BY <1>2 DEF DiskOK, RegistryOK, OnePerFile, OpenOK
<1> QED BY <1>4, <1>5, <1>6, <1>7

\* Remove(): an index behind the end ends the program.
LEMMA ListRemoveIInv == ASSUME IInv, NEW S \in SUBSET DOMAIN groups, ListRemove(S) PROVE IInv'
<1> USE DEF IInv
<1>1. Len(groups) \in Nat /\ DOMAIN groups = 1 .. Len(groups)
  BY DEF GroupsOK
<1>2. IsFiniteSet(S) /\ S \in SUBSET (Nat \ {0})
  <2>1. IsFiniteSet(1 .. Len(groups))
    BY <1>1, FS_Interval
  <2> QED BY <1>1, <2>1, FS_Subset
<1>3. PICK s \in SetToSeqs(S) :
         \/ /\ InRange(s) /\ groups' = Removed(s)
            /\ WantedIn(FilesOf(groups'))
            /\ UNCHANGED <<diskVars, registry, open>>
         \/ ~InRange(s) /\ Restart(TRUE)
  BY DEF ListRemove
<1>4. CASE Restart(TRUE)
  BY <1>4, RestartIInv
<1>5. CASE /\ InRange(s) /\ groups' = Removed(s)
           /\ WantedIn(FilesOf(groups'))
           /\ UNCHANGED <<diskVars, registry, open>>
  <2>1. s \in Seq(Nat \ {0})
    <3>1. s \in Seq(S)
      BY <1>2, OrderOfSet
    <3> QED BY <1>2, <3>1
  <2>2. GroupsOK(groups', now, disk) /\ Checks(groups') \subseteq Checks(groups)
    BY <1>5, <2>1, RemovedGroups
  <2>3. /\ wanted' \subseteq Checks(groups) /\ wanted' \subseteq Checks(registry)
        /\ \A w \in wanted' : w[1] \in FilesOf(groups')
    BY <1>5 DEF WantedIn
  <2>4. ASSUME NEW w \in Checks(groups), NEW v \in Checks(groups), w[1] = v[1]
        PROVE  w = v
    BY <2>4 DEF Checks, GroupsOK, OnePerFile
  <2>5. ASSUME NEW w \in wanted'
        PROVE  w \in Checks(groups')
    <3>1. PICK k \in DOMAIN groups' : w[1] = groups'[k].file
      BY <2>3 DEF FilesOf
    <3> DEFINE v == <<groups'[k].file, groups'[k].active>>
    <3>2. v \in Checks(groups') /\ v[1] = w[1]
      BY <3>1 DEF Checks
    <3> HIDE DEF v
    <3> QED BY <2>2, <2>3, <2>4, <3>2
  <2>6. DiskOK' /\ RegistryOK' /\ OpenOK' /\ Checks(registry)' = Checks(registry)
    BY <1>5 DEF DiskOK, RegistryOK, OnePerFile, OpenOK, Checks, diskVars
  <2>7. GroupsOK(groups, now, disk)' /\ Checks(groups)' = Checks(groups')
    BY <1>5, <2>2 DEF GroupsOK, OnePerFile, Honest, Group, Checks, diskVars
  <2> QED BY <2>3, <2>5, <2>6, <2>7
<1> QED BY <1>3, <1>4, <1>5

\* OK, or Edit: the checks of the list are taken over and stored.
LEMMA ListOKIInv == ASSUME IInv, NEW edit \in BOOLEAN, ListOK(edit) PROVE IInv'
<1> USE DEF IInv
<1>1. PICK on \in [DOMAIN groups -> BOOLEAN] :
         LET gs == [k \in DOMAIN groups |-> [groups[k] EXCEPT !.active = on[k]]]
         IN /\ registry' = Saved(gs)
            /\ wanted' = {<<g.file, g.active>> : g \in ToSet(gs)}
            /\ IF edit /\ open = "both"
               THEN groups' = gs /\ open' = "none" /\ UNCHANGED <<now, disk>>
               ELSE /\ RefreshOf(gs)
                    /\ open' = IF gs = << >> /\ open = "list" THEN "list" ELSE "select"
  BY DEF ListOK
<1> DEFINE gs == [k \in DOMAIN groups |-> [groups[k] EXCEPT !.active = on[k]]]
<1>2. /\ DOMAIN groups = 1 .. Len(groups) /\ Len(groups) \in Nat /\ OnePerFile(groups)
      /\ \A k \in 1 .. Len(groups) : groups[k] \in Group(now) /\ Honest(groups[k], disk)
  BY DEF GroupsOK
<1>3. UNCHANGED locked
  BY DEF ListOK
<1>4. ASSUME NEW k \in 1 .. Len(groups)
      PROVE  gs[k] \in Group(now) /\ Honest(gs[k], disk) /\ gs[k].file = groups[k].file
  <2> DEFINE g == groups[k]
  <2>1. /\ g.file \in Files /\ g.stamp \in 0 .. now /\ g.read \in 0 .. now
        /\ g = [file |-> g.file, active |-> g.active, stamp |-> g.stamp, read |-> g.read]
    BY <1>2 DEF Group
  <2>2. gs[k] = [g EXCEPT !.active = on[k]] /\ on[k] \in BOOLEAN
    BY <1>2
  <2>3. Honest(g, disk)
    BY <1>2
  <2> HIDE DEF g, gs
  <2>4. /\ gs[k] = [file |-> g.file, active |-> on[k], stamp |-> g.stamp, read |-> g.read]
        /\ gs[k].file = g.file /\ gs[k].stamp = g.stamp /\ gs[k].read = g.read
    BY <2>1, <2>2
  <2>5. gs[k] \in Group(now)
    BY <2>1, <2>2, <2>4 DEF Group
  <2>6. Honest(gs[k], disk)
    BY <2>3, <2>4 DEF Honest
  <2> QED BY <2>4, <2>5, <2>6 DEF g
<1>5. DOMAIN gs = 1 .. Len(groups) /\ gs = [k \in 1 .. Len(groups) |-> gs[k]]
  BY <1>2
<1>6. /\ registry' = Saved(gs)
      /\ wanted' = {<<g.file, g.active>> : g \in ToSet(gs)}
      /\ IF edit /\ open = "both"
         THEN groups' = gs /\ UNCHANGED <<now, disk>>
         ELSE RefreshOf(gs)
      /\ OpenOK'
  BY <1>1 DEF OpenOK
<1> HIDE DEF gs
<1>7. GroupsOK(gs, now, disk)
  <2>1. \A i, j \in 1 .. Len(groups) : gs[i].file = gs[j].file => i = j
    BY <1>2, <1>4 DEF OnePerFile
  <2> QED BY <1>2, <1>4, <1>5, <2>1, ListOfGroups
<1>8. wanted' = Checks(gs)
  BY <1>6 DEF Checks, ToSet
<1>9. RegistryOK' /\ wanted' = Checks(registry')
  <2>1. registry' \in Seq(Choice) /\ OnePerFile(registry') /\ Checks(registry') = Checks(gs)
    BY <1>6, <1>7, SavedGroups
  <2> QED BY <1>8, <2>1 DEF RegistryOK, OnePerFile
<1>10. DiskOK' /\ GroupsOK(groups, now, disk)' /\ Checks(gs) \subseteq Checks(groups')
  <2>1. CASE RefreshOf(gs)
    BY <1>3, <1>7, <2>1, RefreshIInv
  <2>2. CASE groups' = gs /\ UNCHANGED <<now, disk>>
    BY <1>3, <1>7, <2>2 DEF DiskOK, GroupsOK, OnePerFile, Honest, Group
  <2> QED BY <1>6, <2>1, <2>2
<1>11. Checks(registry)' = Checks(registry') /\ Checks(groups)' = Checks(groups')
  BY DEF Checks
<1> QED BY <1>6, <1>8, <1>9, <1>10, <1>11

\* Leaving a dialog.
LEMMA CloseIInv == ASSUME IInv, SelectCloses \/ ListCancel PROVE IInv'
<1>1. UNCHANGED <<now, disk, locked, groups, registry, wanted>> /\ OpenOK'
  BY DEF SelectCloses, ListCancel, diskVars, OpenOK
<1> QED BY <1>1 DEF IInv, DiskOK, GroupsOK, RegistryOK, OnePerFile, Honest, Checks, Group

\* What other programs do.
LEMMA EnvironmentIInv == ASSUME IInv, Environment PROVE IInv'
<1> USE DEF IInv
<1>1. now \in Nat /\ MaxTime \in Nat /\ now \in 0 .. MaxTime /\ disk \in [Files -> 0 .. now]
      /\ locked \subseteq Files
  BY TextAssumption DEF DiskOK
<1>2. /\ DiskOK' /\ now <= now' /\ now' \in Nat
      /\ \A f \in Files : disk'[f] \in {0, disk[f]} \/ disk'[f] > now
  <2>1. PICK f \in Files :
          \/ /\ f \notin locked /\ now < MaxTime
             /\ now' = now + 1 /\ disk' = [disk EXCEPT ![f] = now'] /\ UNCHANGED locked
          \/ /\ f \notin locked /\ disk[f] # 0
             /\ disk' = [disk EXCEPT ![f] = 0] /\ UNCHANGED <<now, locked>>
          \/ /\ disk[f] # 0
             /\ locked' \in {locked \cup {f}, locked \ {f}} /\ UNCHANGED <<now, disk>>
    BY DEF Environment
  <2>2. CASE now < MaxTime /\ now' = now + 1 /\ disk' = [disk EXCEPT ![f] = now'] /\ UNCHANGED locked
    BY <1>1, <2>2 DEF DiskOK
  <2>3. CASE disk' = [disk EXCEPT ![f] = 0] /\ UNCHANGED <<now, locked>>
    BY <1>1, <2>3 DEF DiskOK
  <2>4. CASE locked' \in {locked \cup {f}, locked \ {f}} /\ UNCHANGED <<now, disk>>
    BY <1>1, <2>4 DEF DiskOK
  <2> QED BY <2>1, <2>2, <2>3, <2>4
<1>3. UNCHANGED <<groups, registry, open, wanted>>
  BY DEF Environment
<1>4. /\ DOMAIN groups = 1 .. Len(groups) /\ Len(groups) \in Nat /\ OnePerFile(groups)
      /\ \A k \in 1 .. Len(groups) : groups[k] \in Group(now) /\ Honest(groups[k], disk)
      /\ groups = [k \in 1 .. Len(groups) |-> groups[k]]
  <2>1. groups \in Seq(Group(now)) /\ OnePerFile(groups)
        /\ \A k \in DOMAIN groups : Honest(groups[k], disk)
    BY DEF GroupsOK
  <2>2. groups \in [1 .. Len(groups) -> Group(now)] /\ Len(groups) \in Nat
    BY ONLY <2>1, LenProperties
  <2>3. DOMAIN groups = 1 .. Len(groups) /\ groups = [k \in 1 .. Len(groups) |-> groups[k]]
    BY ONLY <2>2
  <2> QED BY <2>1, <2>2, <2>3
<1>5. ASSUME NEW k \in 1 .. Len(groups)
      PROVE  groups[k] \in Group(now') /\ Honest(groups[k], disk')
  <2> DEFINE g == groups[k]
  <2>1. g \in Group(now) /\ Honest(g, disk)
    BY <1>4
  <2> HIDE DEF g
  <2>2. /\ g.file \in Files /\ g.stamp \in 0 .. now /\ g.read \in 0 .. now /\ g.active \in BOOLEAN
        /\ g = [file |-> g.file, active |-> g.active, stamp |-> g.stamp, read |-> g.read]
    BY <2>1 DEF Group
  <2>3. g.stamp \in 0 .. now' /\ g.read \in 0 .. now'
    BY <1>1, <1>2, <2>2
  <2>4. g \in Group(now')
    BY <2>2, <2>3 DEF Group
  <2>5. Honest(g, disk')
    BY <1>1, <1>2, <2>1, <2>2 DEF Honest
  <2> QED BY <2>4, <2>5 DEF g
<1>6. GroupsOK(groups, now', disk')
  BY <1>4, <1>5, ListOfGroups DEF OnePerFile
<1> QED BY <1>2, <1>3, <1>6 DEF GroupsOK, RegistryOK, OpenOK, OnePerFile, Honest, Checks, Group

LEMMA NextIInv == IInv /\ [Next]_vars => IInv'
BY InitIInv, StutterIInv, RestartIInv, CommandIInv, CloseIInv, ListOpensIInv, ListAddIInv,
   ListRemoveIInv, ListOKIInv, EnvironmentIInv DEF Next

LEMMA InvHolds == Spec => []IInv
BY InitIInv, NextIInv, PTL DEF Spec

(***************************************************************************)
(* The theorems                                                            *)
(***************************************************************************)
\* Different files, one entry each.
LEMMA OneEach ==
    ASSUME NEW S, NEW s \in Seq(S), OnePerFile(s)
    PROVE  Cardinality(FilesOf(s)) = Len(s)
<1>1. Len(s) \in Nat /\ DOMAIN s = 1 .. Len(s)
  OBVIOUS
<1> DEFINE f == [k \in 1 .. Len(s) |-> s[k].file]
<1>2. f \in Bijection(1 .. Len(s), FilesOf(s))
  <2>1. f \in [1 .. Len(s) -> FilesOf(s)]
    BY <1>1 DEF FilesOf
  <2>2. \A i, j \in 1 .. Len(s) : f[i] = f[j] => i = j
    BY <1>1 DEF OnePerFile
  <2>3. \A x \in FilesOf(s) : \E i \in 1 .. Len(s) : f[i] = x
    BY <1>1 DEF FilesOf
  <2> HIDE DEF f
  <2> QED BY <2>1, <2>2, <2>3 DEF Bijection, Injection, Surjection, IsInjective
<1>3. IsFiniteSet(1 .. Len(s)) /\ Cardinality(1 .. Len(s)) = Len(s)
  BY <1>1, FS_Interval
<1> HIDE DEF f
<1>4. ExistsBijection(1 .. Len(s), FilesOf(s))
  BY <1>2 DEF ExistsBijection
<1> QED BY <1>3, <1>4, FS_Bijection

\* The state of the templates keeps its types, and each file has one group and one entry
\* of the registry, whatever is added, removed, read again after a crash, or found in
\* the directory (TemplateManager.cpp).
THEOREM TemplatesTypeCorrect == Spec => []TemplatesTypeOK
<1>1. IInv => TemplatesTypeOK
  <2> SUFFICES ASSUME IInv PROVE TemplatesTypeOK
    OBVIOUS
  <2>1. groups \in Seq(Group(now)) /\ OnePerFile(groups)
    BY DEF IInv, GroupsOK
  <2>2. registry \in Seq(Choice) /\ OnePerFile(registry)
    BY DEF IInv, RegistryOK
  <2>3. ASSUME NEW g \in ToSet(groups)
        PROVE  /\ g.file \in Files /\ g.active \in BOOLEAN
               /\ g.stamp \in 0 .. now /\ g.read \in 0 .. now
    <3>1. g \in Group(now)
      BY <2>1, ToSetOfSeq
    <3> QED BY <3>1 DEF Group
  <2>4. Cardinality(FilesOf(groups)) = Len(groups) /\ Cardinality(FilesOf(registry)) = Len(registry)
    BY <2>1, <2>2, OneEach
  <2> QED BY <2>3, <2>4 DEF IInv, DiskOK, OpenOK, TemplatesTypeOK
<1> QED BY <1>1, InvHolds, PTL

\* A group that the user accepted with OK keeps its place in the list and its check,
\* until it is removed or the registry is read while its file or one before it is
\* missing (TemplateManager::SaveRegistry() and LoadRegistry()).
THEOREM ChoicesKept == Spec => []ChoiceKept
<1>1. IInv => ChoiceKept
  BY DEF IInv, ChoiceKept, Checks, ToSet
<1> QED BY <1>1, InvHolds, PTL

\* A command offers of each file what is in it, or nothing when it could not be opened,
\* though the time stamp is looked at before the file is opened and others may write,
\* delete or lock it in between (TemplateGroup::Refresh()).
THEOREM OffersCurrent == Spec => TemplatesCurrent
<1>1. ASSUME IInv, TemplateComplete \/ SelectOpens
      PROVE  \A f \in Files : disk[f] # 0 /\ disk'[f] = disk[f] =>
               /\ f \in Local => f \in FilesOf(groups')
               /\ \A g \in ToSet(groups') :
                     g.file = f => \/ g.read = disk[f]
                                   \/ g.read = 0 /\ f \in locked
  <2>1. RefreshOf(groups) /\ DiskOK /\ GroupsOK(groups, now, disk)
    BY <1>1 DEF TemplateComplete, SelectOpens, IInv
  <2>2. Moved(disk, now, disk', now')
    BY <2>1, RefreshMoves
  <2>3. /\ \A f \in Local : disk[f] # 0 => f \in FilesOf(groups')
        /\ \A k \in DOMAIN groups' : Current(groups'[k], disk, disk')
    BY <2>1, <2>2, RefreshedGroups DEF RefreshOf
  <2> QED BY <2>3 DEF Current, ToSet
<1> QED BY <1>1, InvHolds, PTL DEF Spec, TemplatesCurrent

(***************************************************************************)
(* The parser                                                              *)
(***************************************************************************)
States == {"find", "template", "code", "memo", "params", "dialog", "page", "key"}
Template == [line : Nat, code : Seq(Nat), memo : Seq(Nat), params : Seq(Nat),
             pages : Seq(Seq(Nat)), key : Nat]
Parser == [state : States, list : Seq(Template)]

\* The line m of a block is in the template t.
Holds(t, m, lines) ==
    \/ t.line = m \/ m \in LinesOf(t)
    \/ lines[m - 1] = "key" /\ t.line < m /\ m < t.key

\* What is known after n lines.
ParserOK(p, n, lines) ==
    /\ p \in Parser
    /\ p.state # "find" => Len(p.list) > 0
    /\ p.state = "page" => Len(p.list[Len(p.list)].pages) > 0
    /\ p.state = "key" => n > 1 /\ lines[n] = "key"
KeysOK(list, lines) == \A k \in DOMAIN list : list[k].key # 0 => lines[list[k].key - 1] = "key"
BlocksIn(list, n, lines) ==
    \A m \in 2 .. n : lines[m] = "block" => \E k \in DOMAIN list : Holds(list[k], m, lines)
PartsIn(list, n) ==
    \A k \in DOMAIN list :
       /\ list[k].line <= n
       /\ \A m \in LinesOf(list[k]) \ {0} :
             list[k].line < m /\ m <= n /\ (k < Len(list) => m < list[k + 1].line)
Parsed(p, n, lines) ==
    /\ ParserOK(p, n, lines) /\ KeysOK(p.list, lines)
    /\ BlocksIn(p.list, n, lines) /\ PartsIn(p.list, n)

LEMMA LinesAreNumbers == ASSUME NEW t \in Template PROVE LinesOf(t) \subseteq Nat
<1>1. /\ t.code \in Seq(Nat) /\ t.memo \in Seq(Nat) /\ t.params \in Seq(Nat) /\ t.key \in Nat
      /\ t.pages \in Seq(Seq(Nat))
  BY DEF Template
<1>2. \A k \in DOMAIN t.pages : t.pages[k] \in Seq(Nat)
  BY <1>1
<1>3. \A k \in DOMAIN t.pages : ToSet(t.pages[k]) \subseteq Nat
  BY <1>2, ToSetOfSeq
<1>4. ToSet(t.code) \subseteq Nat /\ ToSet(t.memo) \subseteq Nat /\ ToSet(t.params) \subseteq Nat
  BY <1>1, ToSetOfSeq
<1> QED BY <1>1, <1>3, <1>4 DEF LinesOf

LEMMA ToSetOfAppend ==
    ASSUME NEW S, NEW s \in Seq(S), NEW x \in S
    PROVE  ToSet(Append(s, x)) = ToSet(s) \cup {x}
<1>1. /\ Append(s, x) \in Seq(S) /\ Len(Append(s, x)) = Len(s) + 1 /\ Len(s) \in Nat
      /\ \A i \in 1 .. Len(s) : Append(s, x)[i] = s[i]
      /\ Append(s, x)[Len(s) + 1] = x
  BY AppendProperties
<1> DEFINE t == Append(s, x)
<1> HIDE DEF t
<1>2. ASSUME NEW y \in ToSet(t)
      PROVE  y \in ToSet(s) \cup {x}
  <2>1. PICK i \in 1 .. Len(t) : y = t[i]
    BY <1>1, ToSetOfSeq DEF t
  <2>2. i \in 1 .. Len(s) \/ i = Len(s) + 1
    BY <1>1, <2>1 DEF t
  <2> QED BY <1>1, <2>1, <2>2, ToSetOfSeq DEF t
<1>3. ASSUME NEW y \in ToSet(s) \cup {x}
      PROVE  y \in ToSet(t)
  <2>1. CASE y = x
    <3>1. Len(s) + 1 \in 1 .. Len(t) /\ t[Len(s) + 1] = y
      BY <1>1, <2>1 DEF t
    <3> QED BY <1>1, <3>1, ToSetOfSeq DEF t
  <2>2. CASE y \in ToSet(s)
    <3>1. PICK i \in 1 .. Len(s) : y = s[i]
      BY <2>2, ToSetOfSeq
    <3>2. i \in 1 .. Len(t) /\ t[i] = y
      BY <1>1, <3>1 DEF t
    <3> QED BY <1>1, <3>2, ToSetOfSeq DEF t
  <2> QED BY <2>1, <2>2
<1> QED BY <1>2, <1>3 DEF t

\* A line that begins a template.
LEMMA StartLine ==
    ASSUME NEW n \in Nat, n > 1, NEW lines, NEW p, NEW q, Parsed(p, n - 1, lines),
           q = [state |-> "template", list |-> Append(p.list, NewTemplate(n))]
    PROVE  Parsed(q, n, lines)
<1> DEFINE t == NewTemplate(n)
           s == p.list
           r == Append(s, t)
<1>1. t \in Template /\ t.line = n /\ t.key = 0
  BY DEF NewTemplate, Template
<1>2. LinesOf(t) = {0}
  BY DEF NewTemplate, LinesOf, ToSet
<1>3. s \in Seq(Template) /\ Len(s) \in Nat /\ DOMAIN s = 1 .. Len(s)
  BY DEF Parsed, ParserOK, Parser
<1>4. q.list = r /\ q.state = "template" /\ q = [state |-> "template", list |-> r]
  OBVIOUS
<1> HIDE DEF t
<1>5. /\ r \in Seq(Template) /\ Len(r) = Len(s) + 1 /\ DOMAIN r = 1 .. Len(s) + 1
      /\ \A k \in 1 .. Len(s) : r[k] = s[k]
      /\ r[Len(s) + 1] = t
  BY <1>1, <1>3, AppendProperties, LenProperties
<1> HIDE DEF r, s
<1>6. ParserOK(q, n, lines)
  <2>1. q \in Parser
    BY <1>4, <1>5 DEF Parser, States
  <2>2. Len(q.list) > 0
    BY <1>3, <1>4, <1>5
  <2> QED BY <1>4, <2>1, <2>2 DEF ParserOK
<1>7. /\ KeysOK(s, lines) /\ BlocksIn(s, n - 1, lines) /\ PartsIn(s, n - 1)
  BY DEF Parsed, s
<1>8. KeysOK(r, lines)
  <2> SUFFICES ASSUME NEW k \in 1 .. Len(s) + 1, r[k].key # 0
               PROVE  lines[r[k].key - 1] = "key"
    BY <1>5 DEF KeysOK
  <2>1. k \in 1 .. Len(s) \/ k = Len(s) + 1
    BY <1>3
  <2> QED BY <1>1, <1>3, <1>5, <1>7, <2>1 DEF KeysOK
<1>9. BlocksIn(r, n, lines)
  <2> SUFFICES ASSUME NEW m \in 2 .. n, lines[m] = "block"
               PROVE  \E k \in DOMAIN r : Holds(r[k], m, lines)
    BY DEF BlocksIn
  <2>1. CASE m = n
    <3>1. Len(s) + 1 \in DOMAIN r /\ Holds(r[Len(s) + 1], m, lines)
      BY <1>1, <1>3, <1>5, <2>1 DEF Holds
    <3> QED BY <3>1
  <2>2. CASE m # n
    <3>1. m \in 2 .. n - 1
      BY <2>2
    <3>2. PICK k \in DOMAIN s : Holds(s[k], m, lines)
      BY <1>7, <3>1 DEF BlocksIn
    <3> QED BY <1>3, <1>5, <3>2
  <2> QED BY <2>1, <2>2
<1>10. PartsIn(r, n)
  <2> SUFFICES ASSUME NEW k \in 1 .. Len(s) + 1
               PROVE  /\ r[k].line <= n
                      /\ \A m \in LinesOf(r[k]) \ {0} :
                            r[k].line < m /\ m <= n /\ (k < Len(r) => m < r[k + 1].line)
    BY <1>5 DEF PartsIn
  <2>1. CASE k = Len(s) + 1
    BY <1>1, <1>2, <1>3, <1>5, <2>1
  <2>2. CASE k \in 1 .. Len(s)
    <3>0. r[k] = s[k] /\ s[k] \in Template
      BY ONLY <1>3, <1>5, <2>2
    <3>1. r[k] = s[k] /\ s[k] \in Template /\ s[k].line \in Nat
      BY ONLY <3>0 DEF Template
    <3>2. /\ s[k].line <= n - 1
          /\ \A m \in LinesOf(s[k]) \ {0} :
                s[k].line < m /\ m <= n - 1 /\ (k < Len(s) => m < s[k + 1].line)
      BY <1>3, <1>7, <2>2 DEF PartsIn
    <3>3. LinesOf(s[k]) \subseteq Nat
      BY <3>1, LinesAreNumbers
    <3>4. IF k < Len(s) THEN r[k + 1] = s[k + 1] ELSE r[k + 1].line = n
      <4>1. CASE k < Len(s)
        <5>1. k + 1 \in 1 .. Len(s)
          BY <1>3, <2>2, <4>1
        <5> QED BY <1>5, <4>1, <5>1
      <4>2. CASE ~(k < Len(s))
        <5>1. k = Len(s)
          <6>1. Len(s) \in Nat /\ k \in 1 .. Len(s) /\ ~(k < Len(s))
            BY <1>3, <2>2, <4>2
          <6> QED BY ONLY <6>1
        <5> QED BY <1>1, <1>5, <4>2, <5>1
      <4> QED BY <4>1, <4>2
    <3>5. ASSUME NEW m \in LinesOf(r[k]) \ {0}
          PROVE  r[k].line < m /\ m <= n /\ (k < Len(r) => m < r[k + 1].line)
      <4>1. m \in Nat /\ r[k].line < m /\ m <= n - 1 /\ (k < Len(s) => m < s[k + 1].line)
        BY <3>1, <3>2, <3>3, <3>5
      <4> QED BY <3>4, <4>1
    <3>6. r[k].line <= n
      BY <3>1, <3>2
    <3> QED BY <3>5, <3>6
  <2> QED BY <1>3, <2>1, <2>2
<1> QED BY <1>4, <1>6, <1>8, <1>9, <1>10 DEF Parsed

\* A line that leaves the templates as they are, and is none of a block.
LEMMA SameLine ==
    ASSUME NEW n \in Nat, n > 1, NEW lines, NEW p, NEW q, Parsed(p, n - 1, lines),
           lines[n] # "block", ParserOK(q, n, lines), q.list = p.list
    PROVE  Parsed(q, n, lines)
<1> DEFINE s == p.list
<1>1. KeysOK(s, lines) /\ BlocksIn(s, n - 1, lines) /\ PartsIn(s, n - 1) /\ s \in Seq(Template)
  BY DEF Parsed, ParserOK, Parser
<1> HIDE DEF s
<1>2. BlocksIn(s, n, lines)
  <2> SUFFICES ASSUME NEW m \in 2 .. n, lines[m] = "block"
               PROVE  \E k \in DOMAIN s : Holds(s[k], m, lines)
    BY DEF BlocksIn
  <2>1. m \in 2 .. n - 1
    <3>1. m # n
      OBVIOUS
    <3> QED BY <3>1
  <2> QED BY <1>1, <2>1 DEF BlocksIn
<1>3. PartsIn(s, n)
  <2> SUFFICES ASSUME NEW k \in DOMAIN s
               PROVE  /\ s[k].line <= n
                      /\ \A m \in LinesOf(s[k]) \ {0} :
                            s[k].line < m /\ m <= n /\ (k < Len(s) => m < s[k + 1].line)
    BY DEF PartsIn
  <2>0. s[k] \in Template
    BY <1>1
  <2>1. s[k] \in Template /\ s[k].line \in Nat
    BY ONLY <2>0 DEF Template
  <2>2. LinesOf(s[k]) \subseteq Nat
    BY <2>1, LinesAreNumbers
  <2> QED BY <1>1, <2>1, <2>2 DEF PartsIn
<1> QED BY <1>1, <1>2, <1>3 DEF Parsed, s

\* A line that goes into the last template, or begins a page of it: t becomes u.
Grown(t, u, n, lines) ==
    /\ u \in Template /\ u.line = t.line
    /\ u.key # t.key => u.key = n /\ lines[n - 1] = "key"
    /\ LinesOf(u) \subseteq LinesOf(t) \cup {n}
    /\ LinesOf(t) \subseteq LinesOf(u) \cup {t.key}
    /\ u.key = t.key => LinesOf(t) \subseteq LinesOf(u)
    /\ lines[n] = "block" => n \in LinesOf(u)

LEMMA GrownLine ==
    ASSUME NEW n \in Nat, n > 1, NEW lines, NEW p, NEW q, Parsed(p, n - 1, lines),
           ParserOK(q, n, lines), p.list # << >>,
           NEW u, Grown(p.list[Len(p.list)], u, n, lines),
           q.list = [p.list EXCEPT ![Len(p.list)] = u]
    PROVE  Parsed(q, n, lines)
<1> DEFINE s == p.list
           c == Len(s)
           t == s[c]
           r == q.list
<1>1. /\ s \in Seq(Template) /\ c \in Nat /\ DOMAIN s = 1 .. c /\ c \in 1 .. c
  BY EmptySeq, LenProperties DEF Parsed, ParserOK, Parser
<1>2. KeysOK(s, lines) /\ BlocksIn(s, n - 1, lines) /\ PartsIn(s, n - 1)
  BY DEF Parsed
<1>3. /\ Len(r) = c /\ DOMAIN r = 1 .. c /\ r[c] = u
      /\ \A k \in 1 .. c : k # c => r[k] = s[k]
  BY <1>1
<1>4. t \in Template /\ Grown(t, u, n, lines)
  BY <1>1
<1>5. s # << >>
  OBVIOUS
<1> HIDE DEF s, c, t, r
<1>6. /\ t.line \in Nat /\ t.key \in Nat /\ u.line = t.line /\ u \in Template
      /\ LinesOf(t) \subseteq Nat /\ LinesOf(u) \subseteq Nat
      /\ t.key \in LinesOf(t)
  BY <1>4, LinesAreNumbers DEF Grown, Template, LinesOf
<1>7. t = s[c]
  BY DEF t
<1>8. /\ t.line <= n - 1
      /\ \A m \in LinesOf(t) \ {0} : t.line < m /\ m <= n - 1
  BY <1>1, <1>2, <1>7 DEF PartsIn
<1>9. t.key # 0 => lines[t.key - 1] = "key"
  BY <1>1, <1>2, <1>7 DEF KeysOK
<1>10. \A k \in 1 .. c : r[k].line = s[k].line
  BY <1>3, <1>6, <1>7
<1>11. KeysOK(r, lines)
  <2> SUFFICES ASSUME NEW k \in 1 .. c, r[k].key # 0
               PROVE  lines[r[k].key - 1] = "key"
    BY <1>3 DEF KeysOK
  <2>1. CASE k = c
    BY <1>3, <1>4, <1>9, <2>1 DEF Grown
  <2>2. CASE k # c
    BY <1>1, <1>2, <1>3, <2>2 DEF KeysOK
  <2> QED BY <2>1, <2>2
<1>12. ASSUME NEW m \in 2 .. n - 1, Holds(t, m, lines)
       PROVE  Holds(u, m, lines)
  <2>1. CASE t.line = m
    BY <1>6, <2>1 DEF Holds
  <2>2. CASE m \in LinesOf(u)
    BY <2>2 DEF Holds
  <2>3. CASE m \in LinesOf(t) /\ m \notin LinesOf(u)
    <3>1. m = t.key /\ u.key = n /\ t.line < m
      BY <1>4, <1>8, <2>3 DEF Grown
    <3>2. lines[m - 1] = "key" /\ m < n
      BY <1>9, <3>1
    <3> QED BY <1>6, <3>1, <3>2 DEF Holds
  <2>4. CASE lines[m - 1] = "key" /\ t.line < m /\ m < t.key
    <3>1. m < u.key
      BY <1>4, <1>6, <2>4 DEF Grown
    <3> QED BY <1>6, <2>4, <3>1 DEF Holds
  <2> QED BY <1>12, <2>1, <2>2, <2>3, <2>4 DEF Holds
<1>13. BlocksIn(r, n, lines)
  <2> SUFFICES ASSUME NEW m \in 2 .. n, lines[m] = "block"
               PROVE  \E k \in DOMAIN r : Holds(r[k], m, lines)
    BY DEF BlocksIn
  <2>1. CASE m = n
    <3>1. n \in LinesOf(u)
      BY <1>4, <2>1 DEF Grown
    <3>2. c \in DOMAIN r /\ Holds(r[c], m, lines)
      BY <1>1, <1>3, <2>1, <3>1 DEF Holds
    <3> QED BY <3>2
  <2>2. CASE m # n
    <3>1. m \in 2 .. n - 1
      BY <2>2
    <3>2. PICK k \in 1 .. c : Holds(s[k], m, lines)
      BY <1>1, <1>2, <3>1 DEF BlocksIn
    <3>3. Holds(r[k], m, lines)
      <4>1. CASE k = c
        BY <1>3, <1>7, <1>12, <3>1, <3>2, <4>1
      <4>2. CASE k # c
        BY <1>3, <3>2, <4>2
      <4> QED BY <4>1, <4>2
    <3> QED BY <1>3, <3>3
  <2> QED BY <2>1, <2>2
<1>14. PartsIn(r, n)
  <2> SUFFICES ASSUME NEW k \in 1 .. c
               PROVE  /\ r[k].line <= n
                      /\ \A m \in LinesOf(r[k]) \ {0} :
                            r[k].line < m /\ m <= n /\ (k < c => m < r[k + 1].line)
    BY <1>3 DEF PartsIn
  <2>1. CASE k = c
    <3>1. u.line <= n
      BY <1>6, <1>8
    <3>2. ASSUME NEW m \in LinesOf(u) \ {0}
          PROVE  u.line < m /\ m <= n
      <4>1. m \in Nat /\ (m = n \/ m \in LinesOf(t) \ {0})
        BY <1>4, <1>6, <3>2 DEF Grown
      <4> QED BY <1>6, <1>8, <4>1
    <3>3. ~(k < c) /\ r[k] = u
      BY <1>1, <1>3, <2>1
    <3> QED BY <3>1, <3>2, <3>3
  <2>2. CASE k # c
    <3>1. r[k] = s[k] /\ s[k] \in Template /\ k + 1 \in 1 .. c /\ k < c
      BY <1>1, <1>3, <2>2
    <3>2. s[k].line \in Nat /\ LinesOf(s[k]) \subseteq Nat
      BY <3>1, LinesAreNumbers DEF Template
    <3>3. /\ s[k].line <= n - 1
          /\ \A m \in LinesOf(s[k]) \ {0} :
                s[k].line < m /\ m <= n - 1 /\ (k < Len(s) => m < s[k + 1].line)
      BY <1>1, <1>2 DEF PartsIn
    <3>4. r[k + 1].line = s[k + 1].line /\ Len(s) = c
      BY <1>10, <3>1 DEF c
    <3>5. ASSUME NEW m \in LinesOf(r[k]) \ {0}
          PROVE  r[k].line < m /\ m <= n /\ m < r[k + 1].line
      <4>1. m \in Nat /\ s[k].line < m /\ m <= n - 1 /\ m < s[k + 1].line
        BY <3>1, <3>2, <3>3, <3>4, <3>5
      <4> QED BY <3>1, <3>4, <4>1
    <3>6. r[k].line <= n
      <4>1. s[k].line \in Nat
        BY ONLY <3>2
      <4>2. s[k].line <= n - 1
        BY ONLY <3>3, ZenonT(30)
      <4> QED BY ONLY <3>1, <4>1, <4>2, n \in Nat
    <3> QED BY <3>5, <3>6
  <2> QED BY <2>1, <2>2
<1> QED BY <1>11, <1>13, <1>14 DEF Parsed, r

\* What a line does, by the state and its kind.
Result(p, n, k, q) ==
    LET c == Len(p.list)
        pages == p.list[c].pages
    IN /\ Starts(p, k) => q = [state |-> "template", list |-> Append(p.list, NewTemplate(n))]
       /\ p.state = "template" /\ k = "open" => q = [p EXCEPT !.state = "find"]
       /\ p.state = "template" /\ k \in Sections => q = [p EXCEPT !.state = k]
       /\ p.state \in {"code", "memo", "params", "dialog", "page"} /\ k = "end" =>
             q = [p EXCEPT !.state = "template"]
       /\ p.state \in {"code", "memo", "params"} /\ k # "end" =>
             q = [p EXCEPT !.list[c][p.state] = Append(@, n)]
       /\ p.state \in {"dialog", "page"} /\ k = "next" =>
             q = [p EXCEPT !.state = "page", !.list[c].pages = Append(@, << >>)]
       /\ p.state = "dialog" /\ k \notin {"end", "next"} =>
             q = [p EXCEPT !.state = "page", !.list[c].pages = Append(@, <<n>>)]
       /\ p.state = "page" /\ k \notin {"end", "next"} =>
             q = [p EXCEPT !.list[c].pages[Len(pages)] = Append(@, n)]
       /\ p.state = "key" => q = [p EXCEPT !.state = "template", !.list[c].key = n]
       /\ p.state = "find" /\ k # "block" => q = p
       /\ p.state = "template" /\ k \in {"end", "next", "text"} => q = p
LEMMA LineResult ==
    ASSUME NEW p, p.state \in States, NEW n, NEW k \in Kinds
    PROVE  Result(p, n, k, ParseLine(p, n, k))
<1> USE DEF Result, ParseLine, Starts, Sections
<1>1. CASE Starts(p, k)
  BY <1>1
<1>2. CASE p.state = "template" /\ k = "open"
  BY <1>2
<1>3. CASE p.state = "template" /\ k \in Sections
  BY <1>3
<1>4. CASE p.state \in {"code", "memo", "params", "dialog", "page"} /\ k = "end"
  <2>1. ParseLine(p, n, k) = [p EXCEPT !.state = "template"]
    BY ONLY <1>4, SMTT(30) DEF ParseLine, Starts, Sections
  <2> QED BY ONLY <1>4, <2>1 DEF Result, Starts, Sections
<1>5. CASE p.state \in {"code", "memo", "params"} /\ k # "end"
  BY <1>5
<1>6. CASE p.state \in {"dialog", "page"} /\ k = "next"
  BY <1>6
<1>7. CASE p.state = "dialog" /\ k \notin {"end", "next"}
  BY <1>7
<1>8. CASE p.state = "page" /\ k \notin {"end", "next"}
  BY <1>8
<1>9. CASE p.state = "key"
  <2>1. ParseLine(p, n, k) = [p EXCEPT !.state = "template", !.list[Len(p.list)].key = n]
    BY ONLY <1>9, SMTT(30) DEF ParseLine, Starts, Sections
  <2> QED BY ONLY <1>9, <2>1 DEF Result, Starts, Sections
<1>10. CASE \/ p.state = "find" /\ k # "block"
            \/ p.state = "template" /\ k \in {"end", "next", "text"}
  BY <1>10
<1> QED
  BY <1>1, <1>2, <1>3, <1>4, <1>5, <1>6, <1>7, <1>8, <1>9, <1>10, ZenonT(30)
  DEF States, Kinds

\* A line that changes the state at most.
LEMMA StateLine ==
    ASSUME NEW n \in Nat, n > 1, NEW lines, NEW p, Parsed(p, n - 1, lines),
           NEW st \in States, NEW q, q = [p EXCEPT !.state = st],
           lines[n] # "block", st # "find" => p.state # "find",
           st = "page" => p.state = "page", st = "key" => lines[n] = "key"
    PROVE  Parsed(q, n, lines)
<1>1. ParserOK(p, n - 1, lines)
  BY DEF Parsed
<1>2. p = [state |-> p.state, list |-> p.list] /\ p.list \in Seq(Template)
  BY <1>1 DEF ParserOK, Parser
<1>3. q = [state |-> st, list |-> p.list] /\ q.list = p.list /\ q.state = st
  BY <1>2
<1>4. q \in Parser
  BY <1>2, <1>3 DEF Parser
<1>5. ParserOK(q, n, lines)
  BY <1>1, <1>3, <1>4 DEF ParserOK
<1> QED BY <1>3, <1>5, SameLine


\* A line that changes the last template: what is to be shown of it.
LEMMA TemplateLine ==
    ASSUME NEW n \in Nat, n > 1, NEW lines, NEW p, Parsed(p, n - 1, lines),
           p.state # "find", NEW st \in States \ {"find", "key"}, NEW u, NEW q,
           q = [state |-> st, list |-> [p.list EXCEPT ![Len(p.list)] = u]],
           Grown(p.list[Len(p.list)], u, n, lines),
           st = "page" => Len(u.pages) > 0
    PROVE  Parsed(q, n, lines)
<1> DEFINE s == p.list
           c == Len(s)
<1>1. s \in Seq(Template) /\ c \in Nat /\ c > 0 /\ s # << >> /\ c \in 1 .. Len(s)
  <2>1. p \in Parser /\ Len(p.list) > 0
    BY DEF Parsed, ParserOK
  <2> QED BY <2>1 DEF Parser
<1>2. u \in Template
  BY DEF Grown
<1>3. q.list = [s EXCEPT ![c] = u] /\ q.state = st /\ q = [state |-> st, list |-> q.list]
  OBVIOUS
<1> HIDE DEF s, c
<1>4. q.list \in Seq(Template) /\ Len(q.list) = Len(s) /\ q.list[c] = u
  BY ONLY <1>1, <1>2, <1>3, ExceptSeq
<1>5. q \in Parser
  BY <1>3, <1>4 DEF Parser
<1>6. ParserOK(q, n, lines)
  BY <1>1, <1>3, <1>4, <1>5 DEF ParserOK, c
<1> QED BY <1>1, <1>3, <1>6, GrownLine DEF s, c

\* The last template.
LEMMA LastTemplate ==
    ASSUME NEW n, NEW lines, NEW p, Parsed(p, n, lines), p.state # "find"
    PROVE  /\ p.list[Len(p.list)] \in Template
           /\ p = [state |-> p.state, list |-> p.list]
<1>1. p \in Parser /\ Len(p.list) > 0
  BY DEF Parsed, ParserOK
<1>2. p.list \in Seq(Template) /\ p = [state |-> p.state, list |-> p.list]
  BY <1>1 DEF Parser
<1>3. Len(p.list) \in DOMAIN p.list
  BY <1>1, <1>2
<1> QED BY <1>2, <1>3

\* The lines of the parts of a template.
Body(t) == ToSet(t.code) \cup ToSet(t.memo) \cup ToSet(t.params)
              \cup UNION {ToSet(t.pages[k]) : k \in DOMAIN t.pages}

\* A line that goes into a part.
LEMMA GrownBody ==
    ASSUME NEW n, NEW lines, NEW t, NEW u \in Template, u.line = t.line, u.key = t.key,
           \/ Body(u) = Body(t) \cup {n}
           \/ Body(u) = Body(t) /\ lines[n] # "block"
    PROVE  Grown(t, u, n, lines)
<1>1. LinesOf(t) = Body(t) \cup {t.key} /\ LinesOf(u) = Body(u) \cup {u.key}
  BY DEF LinesOf, Body
<1> QED BY <1>1 DEF Grown

\* The lines of the pages, after a page is added and after a line is added to the last.
InPages(pages) == UNION {ToSet(pages[k]) : k \in DOMAIN pages}
LEMMA PageAdded ==
    ASSUME NEW pages \in Seq(Seq(Nat)), NEW x \in Seq(Nat)
    PROVE  /\ Append(pages, x) \in Seq(Seq(Nat)) /\ Len(Append(pages, x)) > 0
           /\ InPages(Append(pages, x)) = InPages(pages) \cup ToSet(x)
<1> DEFINE r == Append(pages, x)
           c == Len(pages)
<1>1. /\ r \in Seq(Seq(Nat)) /\ Len(r) = c + 1 /\ c \in Nat /\ DOMAIN r = 1 .. c + 1
      /\ DOMAIN pages = 1 .. c
      /\ \A k \in 1 .. c : r[k] = pages[k]
      /\ r[c + 1] = x
  BY AppendProperties, LenProperties
<1> HIDE DEF r, c
<1>2. Len(r) > 0 /\ c + 1 \in 1 .. c + 1 /\ \A k \in 1 .. c : k \in 1 .. c + 1
  BY ONLY <1>1
<1>3. \A k \in 1 .. c + 1 : k \in 1 .. c \/ k = c + 1
  BY ONLY <1>1
<1>4. ASSUME NEW y \in InPages(r) PROVE y \in InPages(pages) \cup ToSet(x)
  <2>1. PICK k \in 1 .. c + 1 : y \in ToSet(r[k])
    <3>1. DOMAIN r = 1 .. c + 1
      BY ONLY <1>1
    <3> QED BY ONLY <1>4, <3>1, Zenon DEF InPages
  <2> QED BY <1>1, <1>3, <2>1 DEF InPages
<1>5. ASSUME NEW y \in InPages(pages) \cup ToSet(x) PROVE y \in InPages(r)
  <2>1. CASE y \in ToSet(x)
    BY <1>1, <1>2, <2>1 DEF InPages
  <2>2. CASE y \in InPages(pages)
    <3>0. DOMAIN pages = 1 .. c
      BY ONLY <1>1
    <3>1. PICK k \in 1 .. c : y \in ToSet(pages[k])
      BY ONLY <2>2, <3>0, ZenonT(30) DEF InPages
    <3> QED BY <1>1, <1>2, <3>1 DEF InPages
  <2> QED BY <2>1, <2>2, <1>5
<1> QED BY <1>1, <1>2, <1>4, <1>5 DEF r

PageWith(pages, n) == [pages EXCEPT ![Len(pages)] = Append(pages[Len(pages)], n)]
LEMMA PageGrown ==
    ASSUME NEW pages \in Seq(Seq(Nat)), Len(pages) > 0, NEW n \in Nat
    PROVE  /\ PageWith(pages, n) \in Seq(Seq(Nat)) /\ Len(PageWith(pages, n)) > 0
           /\ InPages(PageWith(pages, n)) = InPages(pages) \cup {n}
<1> DEFINE c == Len(pages)
           w == pages[c]
           x == Append(w, n)
           r == PageWith(pages, n)
<1>1. c \in Nat /\ c > 0 /\ DOMAIN pages = 1 .. c /\ c \in 1 .. c /\ w \in Seq(Nat)
  BY LenProperties
<1>2. x \in Seq(Nat) /\ ToSet(x) = ToSet(w) \cup {n}
  <2> HIDE DEF w
  <2>1. Append(w, n) \in Seq(Nat)
    BY <1>1, AppendProperties
  <2>2. ToSet(Append(w, n)) = ToSet(w) \cup {n}
    BY ONLY <1>1, n \in Nat, ToSetOfAppend
  <2> QED BY <2>1, <2>2
<1>3. /\ r \in Seq(Seq(Nat)) /\ Len(r) = c
      /\ \A k \in 1 .. c : r[k] = IF k = c THEN x ELSE pages[k]
  BY <1>1, <1>2, ExceptSeq DEF PageWith
<1>4. DOMAIN r = 1 .. c
  BY <1>3, LenProperties
<1> HIDE DEF c
<1>5. ASSUME NEW y \in InPages(r) PROVE y \in InPages(pages) \cup {n}
  <2>1. PICK k \in 1 .. c : y \in ToSet(r[k])
    BY <1>4 DEF InPages
  <2>2. y \in ToSet(pages[k]) \cup {n}
    BY <1>2, <1>3, <2>1
  <2> QED BY <1>1, <2>2 DEF InPages
<1>6. ASSUME NEW y \in InPages(pages) \cup {n} PROVE y \in InPages(r)
  <2>1. CASE y = n
    <3>1. y \in ToSet(r[c])
      BY <1>1, <1>2, <1>3, <2>1
    <3> QED BY <1>1, <1>4, <3>1 DEF InPages
  <2>2. CASE y \in InPages(pages)
    <3>1. PICK k \in 1 .. c : y \in ToSet(pages[k])
      BY <1>1, <2>2 DEF InPages
    <3>2. y \in ToSet(r[k])
      BY <1>2, <1>3, <3>1
    <3> QED BY <1>4, <3>2 DEF InPages
  <2> QED BY <1>6, <2>1, <2>2
<1> QED BY <1>1, <1>3, <1>5, <1>6 DEF c

\* A line of the code, the memo or the parameters.
LEMMA PartLine ==
    ASSUME NEW n \in Nat, n > 1, NEW lines, NEW p, Parsed(p, n - 1, lines),
           NEW st \in {"code", "memo", "params"}, p.state = st, NEW q,
           q = [p EXCEPT !.list[Len(p.list)][st] = Append(@, n)]
    PROVE  Parsed(q, n, lines)
<1> DEFINE t == p.list[Len(p.list)]
           a == t[st]
           b == Append(a, n)
           u == [t EXCEPT ![st] = b]
<1>1. t \in Template /\ p = [state |-> p.state, list |-> p.list]
  BY LastTemplate
<1>2. q = [state |-> st, list |-> [p.list EXCEPT ![Len(p.list)] = u]]
  BY <1>1
<1> HIDE DEF t
<1>3. a \in Seq(Nat)
  BY <1>1 DEF Template
<1>4. b \in Seq(Nat) /\ ToSet(b) = ToSet(a) \cup {n}
  BY <1>3, ToSetOfAppend, AppendProperties
<1> HIDE DEF a, b
<1>5. CASE st = "code"
  <2>1. u = [t EXCEPT !.code = b] /\ a = t.code
    BY <1>5 DEF a
  <2> HIDE DEF u
  <2>2. /\ u \in Template /\ u.line = t.line /\ u.key = t.key /\ u.code = b /\ u.memo = t.memo
        /\ u.params = t.params /\ u.pages = t.pages
    BY ONLY <1>1, <1>4, <2>1 DEF Template
  <2>3. Body(u) = Body(t) \cup {n}
    BY <1>4, <2>1, <2>2 DEF Body
  <2>4. Grown(t, u, n, lines)
    BY <2>2, <2>3, GrownBody
  <2> QED BY <1>2, <1>5, <2>4, TemplateLine DEF t, u, States
<1>6. CASE st = "memo"
  <2>1. u = [t EXCEPT !.memo = b] /\ a = t.memo
    BY <1>6 DEF a
  <2> HIDE DEF u
  <2>2. /\ u \in Template /\ u.line = t.line /\ u.key = t.key /\ u.code = t.code /\ u.memo = b
        /\ u.params = t.params /\ u.pages = t.pages
    BY ONLY <1>1, <1>4, <2>1 DEF Template
  <2>3. Body(u) = Body(t) \cup {n}
    BY <1>4, <2>1, <2>2 DEF Body
  <2>4. Grown(t, u, n, lines)
    BY <2>2, <2>3, GrownBody
  <2> QED BY <1>2, <1>6, <2>4, TemplateLine DEF t, u, States
<1>7. CASE st = "params"
  <2>1. u = [t EXCEPT !.params = b] /\ a = t.params
    BY <1>7 DEF a
  <2> HIDE DEF u
  <2>2. /\ u \in Template /\ u.line = t.line /\ u.key = t.key /\ u.code = t.code
        /\ u.memo = t.memo /\ u.params = b /\ u.pages = t.pages
    BY ONLY <1>1, <1>4, <2>1 DEF Template
  <2>3. Body(u) = Body(t) \cup {n}
    BY <1>4, <2>1, <2>2 DEF Body
  <2>4. Grown(t, u, n, lines)
    BY <2>2, <2>3, GrownBody
  <2> QED BY <1>2, <1>7, <2>4, TemplateLine DEF t, u, States
<1> QED BY <1>5, <1>6, <1>7

\* A line that changes the pages of the last template to r.
LEMMA PageLine ==
    ASSUME NEW n \in Nat, n > 1, NEW lines, NEW p, Parsed(p, n - 1, lines),
           p.state \in {"dialog", "page"}, NEW r \in Seq(Seq(Nat)), Len(r) > 0, NEW q,
           q = [p EXCEPT !.state = "page", !.list[Len(p.list)].pages = r],
           LET pages == p.list[Len(p.list)].pages
           IN \/ InPages(r) = InPages(pages) \cup {n}
              \/ InPages(r) = InPages(pages) /\ lines[n] # "block"
    PROVE  Parsed(q, n, lines)
<1> DEFINE t == p.list[Len(p.list)]
           u == [t EXCEPT !.pages = r]
<1>1. t \in Template /\ p = [state |-> p.state, list |-> p.list]
  BY LastTemplate
<1>2. q = [state |-> "page", list |-> [p.list EXCEPT ![Len(p.list)] = u]]
  BY <1>1
<1>3. \/ InPages(r) = InPages(t.pages) \cup {n}
      \/ InPages(r) = InPages(t.pages) /\ lines[n] # "block"
  OBVIOUS
<1> HIDE DEF t
<1>4. /\ u \in Template /\ u.line = t.line /\ u.key = t.key /\ u.code = t.code
      /\ u.memo = t.memo /\ u.params = t.params /\ u.pages = r
  BY ONLY <1>1, r \in Seq(Seq(Nat)) DEF Template
<1> HIDE DEF u
<1>5. \/ Body(u) = Body(t) \cup {n}
      \/ Body(u) = Body(t) /\ lines[n] # "block"
  <2>1. Body(u) = ToSet(t.code) \cup ToSet(t.memo) \cup ToSet(t.params) \cup InPages(r)
    BY <1>4 DEF Body, InPages
  <2>2. Body(t) = ToSet(t.code) \cup ToSet(t.memo) \cup ToSet(t.params) \cup InPages(t.pages)
    BY DEF Body, InPages
  <2>3. CASE InPages(r) = InPages(t.pages) \cup {n}
    BY ONLY <2>1, <2>2, <2>3
  <2>4. CASE InPages(r) = InPages(t.pages) /\ lines[n] # "block"
    BY <2>1, <2>2, <2>4
  <2> QED BY <1>3, <2>3, <2>4
<1>6. Grown(t, u, n, lines)
  BY <1>4, <1>5, GrownBody
<1>7. Len(u.pages) > 0
  BY <1>4
<1> QED BY <1>2, <1>6, <1>7, TemplateLine DEF t, u, States

\* The line after !!key.
LEMMA KeyLine ==
    ASSUME NEW n \in Nat, n > 1, NEW lines, NEW p, Parsed(p, n - 1, lines), p.state = "key",
           NEW q, q = [p EXCEPT !.state = "template", !.list[Len(p.list)].key = n]
    PROVE  Parsed(q, n, lines)
<1> DEFINE t == p.list[Len(p.list)]
           u == [t EXCEPT !.key = n]
<1>1. t \in Template /\ p = [state |-> p.state, list |-> p.list]
  BY LastTemplate
<1>2. q = [state |-> "template", list |-> [p.list EXCEPT ![Len(p.list)] = u]]
  BY <1>1
<1>3. lines[n - 1] = "key"
  BY DEF Parsed, ParserOK
<1> HIDE DEF t
<1>4. /\ u \in Template /\ u.line = t.line /\ u.key = n /\ u.code = t.code
      /\ u.memo = t.memo /\ u.params = t.params /\ u.pages = t.pages
  BY ONLY <1>1, n \in Nat DEF Template
<1> HIDE DEF u
<1>5. LinesOf(t) = Body(t) \cup {t.key} /\ LinesOf(u) = Body(u) \cup {n}
  BY <1>4 DEF LinesOf, Body
<1>6. Body(u) = Body(t)
  BY <1>4 DEF Body
<1>7. Grown(t, u, n, lines)
  BY <1>3, <1>4, <1>5, <1>6 DEF Grown
<1> QED BY <1>2, <1>7, TemplateLine DEF t, u, States

\* Any line.
LEMMA EveryLine ==
    ASSUME NEW n \in Nat, n > 1, NEW lines, lines[n] \in Kinds, NEW p,
           Parsed(p, n - 1, lines)
    PROVE  Parsed(ParseLine(p, n, lines[n]), n, lines)
<1> DEFINE k == lines[n]
           q == ParseLine(p, n, k)
           c == Len(p.list)
           pages == p.list[c].pages
<1>1. /\ p.state \in States /\ p = [state |-> p.state, list |-> p.list]
      /\ p.state = "page" => Len(pages) > 0
  BY DEF Parsed, ParserOK, Parser
<1>2. p.state # "find" => pages \in Seq(Seq(Nat))
  BY LastTemplate DEF Template
<1>3. p.state \in {"dialog", "page"} /\ lines[n] = "next" => pages \in Seq(Seq(Nat))
  BY <1>2
<1>0. Result(p, n, k, q)
  BY <1>1, LineResult
<1> HIDE DEF q
<1>4. CASE Starts(p, k)
  <2>1. q = [state |-> "template", list |-> Append(p.list, NewTemplate(n))]
    BY <1>0, <1>4 DEF Result
  <2> QED BY <2>1, StartLine DEF q
<1>5. CASE p.state = "template" /\ k = "open"
  <2>1. q = [p EXCEPT !.state = "find"]
    BY <1>0, <1>5 DEF Result
  <2> QED BY <1>5, <2>1, StateLine DEF States, q
<1>6. CASE p.state = "template" /\ k \in Sections
  <2>1. q = [p EXCEPT !.state = k]
    BY <1>0, <1>6 DEF Result
  <2>2. k \in States /\ k # "block" /\ k # "find" /\ k # "page"
    BY <1>6 DEF Sections, States
  <2> QED BY <1>6, <2>1, <2>2, StateLine DEF q
<1>7. CASE p.state \in {"code", "memo", "params", "dialog", "page"} /\ k = "end"
  <2>1. q = [p EXCEPT !.state = "template"]
    BY <1>0, <1>7 DEF Result
  <2> QED BY <1>7, <2>1, StateLine DEF States, q
<1>8. CASE p.state \in {"code", "memo", "params"} /\ k # "end"
  <2>1. q = [p EXCEPT !.list[c][p.state] = Append(@, n)]
    BY <1>0, <1>8 DEF Result
  <2> QED BY <1>8, <2>1, PartLine DEF q
<1>9. CASE p.state \in {"dialog", "page"} /\ k = "next"
  <2> DEFINE r == Append(pages, << >>)
  <2>1. q = [p EXCEPT !.state = "page", !.list[c].pages = r]
    BY <1>0, <1>9 DEF Result
  <2>2. r \in Seq(Seq(Nat)) /\ Len(r) > 0 /\ InPages(r) = InPages(pages) \cup ToSet(<< >>)
    <3>1. pages \in Seq(Seq(Nat)) /\ << >> \in Seq(Nat)
      BY <1>2, <1>9
    <3> QED BY ONLY <3>1, PageAdded
  <2>3. InPages(r) = InPages(pages)
    <3>1. ToSet(<< >>) = {}
      BY DEF ToSet
    <3> QED BY <2>2, <3>1
  <2> HIDE DEF r
  <2> QED BY <1>9, <2>1, <2>2, <2>3, PageLine DEF q
<1>10. CASE p.state = "dialog" /\ k \notin {"end", "next"}
  <2> DEFINE r == Append(pages, <<n>>)
  <2>1. q = [p EXCEPT !.state = "page", !.list[c].pages = r]
    BY <1>0, <1>10 DEF Result
  <2>2. <<n>> \in Seq(Nat) /\ ToSet(<<n>>) = {n}
    BY DEF ToSet
  <2>3. r \in Seq(Seq(Nat)) /\ Len(r) > 0 /\ InPages(r) = InPages(pages) \cup {n}
    <3>1. pages \in Seq(Seq(Nat))
      BY <1>2, <1>10
    <3> QED BY ONLY <2>2, <3>1, PageAdded
  <2> HIDE DEF r
  <2> QED BY <1>10, <2>1, <2>3, PageLine DEF q
<1>11. CASE p.state = "page" /\ k \notin {"end", "next"}
  <2> DEFINE r == PageWith(pages, n)
  <2>1. q = [p EXCEPT !.list[c].pages[Len(pages)] = Append(@, n)]
    BY <1>0, <1>11 DEF Result
  <2>2. q = [p EXCEPT !.state = "page", !.list[c].pages = r]
    BY <1>1, <1>11, <2>1 DEF PageWith
  <2>3. r \in Seq(Seq(Nat)) /\ Len(r) > 0 /\ InPages(r) = InPages(pages) \cup {n}
    <3>1. pages \in Seq(Seq(Nat)) /\ Len(pages) > 0
      BY <1>1, <1>2, <1>11
    <3> QED BY ONLY <3>1, n \in Nat, PageGrown
  <2> HIDE DEF r
  <2> QED BY <1>11, <2>2, <2>3, PageLine DEF q
<1>12. CASE p.state = "key"
  <2>1. q = [p EXCEPT !.state = "template", !.list[c].key = n]
    BY <1>0, <1>12 DEF Result
  <2> QED BY <1>12, <2>1, KeyLine DEF q
<1>13. CASE \/ p.state = "find" /\ k # "block"
            \/ p.state = "template" /\ k \in {"end", "next", "text"}
  <2>1. q = p
    BY <1>0, <1>13 DEF Result
  <2>2. q = [p EXCEPT !.state = p.state] /\ k # "block" /\ p.state \notin {"page", "key"}
    BY <1>1, <1>13, <2>1
  <2> QED BY <1>1, <2>2, StateLine DEF q
<1> QED
  BY <1>1, <1>4, <1>5, <1>6, <1>7, <1>8, <1>9, <1>10, <1>11, <1>12, <1>13
  DEF States, Kinds, Starts, Sections

\* The parser's states after each of the first n lines.
Start == [state |-> "find", list |-> << >>]
ParsedUpTo(f, n, lines) ==
    f = [m \in 0 .. n |-> IF m <= 1 THEN Start ELSE ParseLine(f[m - 1], m, lines[m])]

\* There are such states, for any number of lines.
LEMMA ParsedExists == ASSUME NEW lines, NEW n \in Nat PROVE \E f : ParsedUpTo(f, n, lines)
<1> DEFINE B == {m \in Nat : ~\E f : ParsedUpTo(f, m, lines)}
<1> SUFFICES ASSUME ~\E f : ParsedUpTo(f, n, lines) PROVE FALSE
  OBVIOUS
<1>1. B \in SUBSET Nat /\ B # {}
  OBVIOUS
<1>2. PICK m \in B : \A x \in B : m <= x
  <2> HIDE DEF B
  <2> QED BY <1>1, MinExists
<1>3. m \in Nat /\ ~\E f : ParsedUpTo(f, m, lines)
  OBVIOUS
<1>4. m # 0
  <2>1. ParsedUpTo([k \in 0 .. 0 |-> Start], 0, lines)
    BY DEF ParsedUpTo
  <2> QED BY <1>3, <2>1
<1>5. m - 1 \in Nat /\ ~(m <= m - 1)
  BY <1>3, <1>4
<1>6. PICK g : ParsedUpTo(g, m - 1, lines)
  <2>1. m - 1 \notin B
    <3> HIDE DEF B
    <3> QED BY <1>2, <1>5
  <2> QED BY <1>5, <2>1
<1> DEFINE Step(x, k) == IF k <= 1 THEN Start ELSE ParseLine(x, k, lines[k])
           f == [k \in 0 .. m |-> IF k = m THEN Step(g[m - 1], m) ELSE g[k]]
<1>7. ASSUME NEW k \in 0 .. m
      PROVE  f[k] = Step(f[k - 1], k)
  <2>1. ASSUME NEW i \in 0 .. m - 1
        PROVE  f[i] = g[i]
    <3>1. i \in 0 .. m /\ i # m
      BY <1>3, <1>5
    <3> HIDE DEF Step
    <3> QED BY <3>1
  <2>2. CASE k = m
    <3>1. f[k] = Step(g[m - 1], m)
      BY <2>2, Zenon
    <3>2. m - 1 \in 0 .. m - 1 /\ k - 1 = m - 1
      BY <1>3, <1>4, <2>2
    <3> HIDE DEF f, Step
    <3> QED BY <2>1, <2>2, <3>1, <3>2
  <2>3. CASE k # m
    <3>1. k \in 0 .. m - 1 /\ (~(k <= 1) => k - 1 \in 0 .. m - 1)
      BY <1>3, <2>3
    <3>2. g[k] = IF k <= 1 THEN Start ELSE ParseLine(g[k - 1], k, lines[k])
      BY <1>6, <3>1, Zenon DEF ParsedUpTo
    <3> HIDE DEF f
    <3> QED BY <2>1, <3>1, <3>2
  <2> QED BY <2>2, <2>3
<1>8. ParsedUpTo(f, m, lines)
  <2>1. f = [k \in 0 .. m |-> f[k]]
    OBVIOUS
  <2> HIDE DEF f
  <2> QED BY <1>7, <2>1 DEF ParsedUpTo
<1> QED BY <1>3, <1>8

LEMMA ParseSteps ==
    ASSUME NEW lines, Len(lines) \in Nat
    PROVE  \E f : ParsedUpTo(f, Len(lines), lines) /\ Parse(lines) = f[Len(lines)].list
<1> DEFINE F == CHOOSE f : f = [n \in 0 .. Len(lines) |->
                                  IF n <= 1 THEN [state |-> "find", list |-> << >>]
                                  ELSE ParseLine(f[n - 1], n, lines[n])]
<1>1. \E f : f = [n \in 0 .. Len(lines) |->
                    IF n <= 1 THEN [state |-> "find", list |-> << >>]
                    ELSE ParseLine(f[n - 1], n, lines[n])]
  BY ParsedExists DEF ParsedUpTo, Start
<1>2. ParsedUpTo(F, Len(lines), lines)
  BY <1>1, Zenon DEF ParsedUpTo, Start
<1>3. Parse(lines) = F[Len(lines)].list
  BY DEF Parse
<1> QED BY <1>2, <1>3

\* The first line is the name of the group.
LEMMA StartParsed == ASSUME NEW lines PROVE Parsed(Start, 1, lines)
<1>1. Start.state = "find" /\ Start.list = << >> /\ Start \in Parser
  BY EmptySeq DEF Start, Parser, States
<1>2. ParserOK(Start, 1, lines)
  BY <1>1 DEF ParserOK
<1>3. DOMAIN << >> = {} /\ \A m \in 2 .. 1 : FALSE
  OBVIOUS
<1> QED BY <1>1, <1>2, <1>3 DEF Parsed, KeysOK, BlocksIn, PartsIn

\* The templates of a file, whatever its lines are: were there a line after which
\* something were wrong, there would be a first one.
LEMMA ParsedLines ==
    ASSUME NEW lines \in Seq(Kinds), Len(lines) > 0
    PROVE  \E p : p.list = Parse(lines) /\ Parsed(p, Len(lines), lines)
<1> DEFINE c == Len(lines)
<1>1. c \in Nat /\ c > 0 /\ \A n \in 1 .. c : lines[n] \in Kinds
  OBVIOUS
<1>2. PICK f : ParsedUpTo(f, c, lines) /\ Parse(lines) = f[c].list
  BY <1>1, ParseSteps
<1> HIDE DEF c
<1>3. \A n \in 0 .. c :
         f[n] = IF n <= 1 THEN Start ELSE ParseLine(f[n - 1], n, lines[n])
  BY <1>2, Zenon DEF ParsedUpTo
<1>4. ASSUME NEW n \in 1 .. c, ~Parsed(f[n], n, lines)
      PROVE  FALSE
  <2> DEFINE B == {m \in 1 .. c : ~Parsed(f[m], m, lines)}
  <2>1. B \in SUBSET Nat /\ B # {}
    BY <1>1, <1>4
  <2>2. PICK m \in B : \A x \in B : m <= x
    <3> HIDE DEF B
    <3> QED BY <2>1, MinExists
  <2>3. m \in 1 .. c /\ ~Parsed(f[m], m, lines)
    OBVIOUS
  <2>4. CASE m = 1
    <3>1. f[m] = Start
      <4>1. m \in 0 .. c /\ m <= 1
        BY <2>3, <2>4
      <4> QED BY <1>3, <4>1
    <3> QED BY <2>3, <2>4, <3>1, StartParsed
  <2>5. CASE m # 1
    <3>1. m \in Nat /\ m > 1 /\ m \in 0 .. c /\ ~(m <= 1) /\ m - 1 \in 1 .. c
          /\ ~(m <= m - 1)
      BY <1>1, <2>3, <2>5
    <3>2. Parsed(f[m - 1], m - 1, lines)
      <4>1. m - 1 \notin B
        <5> HIDE DEF B
        <5> QED BY <2>2, <3>1
      <4> QED BY <3>1, <4>1
    <3>3. f[m] = ParseLine(f[m - 1], m, lines[m])
      BY <1>3, <3>1
    <3>4. Parsed(ParseLine(f[m - 1], m, lines[m]), m, lines)
      BY <1>1, <2>3, <3>1, <3>2, EveryLine
    <3> QED BY <2>3, <3>3, <3>4
  <2> QED BY <2>4, <2>5
<1>5. c \in 1 .. c
  BY <1>1
<1> QED BY <1>2, <1>4, <1>5 DEF c

\* Whatever other programs write into the files, no block is lost, and no template takes
\* lines from outside its block (TemplateGroup::Refresh()).
THEOREM BlocksNeverLost == Spec => []BlocksKept
<1>1. ASSUME TemplatesTypeOK
      PROVE  BlocksKept
  <2> SUFFICES ASSUME NEW g \in ToSet(groups), g.read # 0
               PROVE  LET lines == Text[g.read]
                          ts == Parse(lines)
                      IN /\ \A n \in 2 .. Len(lines) : lines[n] = "block" =>
                               \E k \in DOMAIN ts : Holds(ts[k], n, lines)
                         /\ \A k \in DOMAIN ts : \A n \in LinesOf(ts[k]) \ {0} :
                               ts[k].line < n /\ (k < Len(ts) => n < ts[k + 1].line)
    BY DEF BlocksKept, Holds
  <2> DEFINE lines == Text[g.read]
             ts == Parse(lines)
  <2>1. g.read \in 1 .. Len(Text) /\ Text \in Seq(Seq(Kinds))
    <3>1. g.read \in 0 .. now /\ now \in 0 .. MaxTime
      BY <1>1 DEF TemplatesTypeOK
    <3>2. MaxTime \in Nat /\ MaxTime <= Len(Text) /\ Text \in Seq(Seq(Kinds)) /\ Len(Text) \in Nat
      BY TextAssumption, LenProperties
    <3> QED BY <3>1, <3>2
  <2>2. lines \in Seq(Kinds)
    BY <2>1
  <2> HIDE DEF lines
  <2>3. CASE Len(lines) = 0
    <3>1. PICK f : ParsedUpTo(f, 0, lines) /\ ts = f[0].list
      BY <2>3, ParseSteps
    <3>2. f[0] = Start
      BY <3>1 DEF ParsedUpTo
    <3>3. DOMAIN ts = {}
      BY <3>1, <3>2 DEF Start
    <3> QED BY <2>3, <3>3 DEF lines
  <2>4. CASE Len(lines) # 0
    <3>1. Len(lines) \in Nat /\ Len(lines) > 0
      BY <2>2, <2>4
    <3>2. PICK p : p.list = ts /\ Parsed(p, Len(lines), lines)
      BY <2>2, <3>1, ParsedLines
    <3> QED BY <3>2 DEF lines, Parsed, BlocksIn, PartsIn
  <2> QED BY <2>3, <2>4
<1> QED BY <1>1, TemplatesTypeCorrect, PTL

(***************************************************************************)
(* The conditional commands                                                *)
(***************************************************************************)
Flags == [cur : BOOLEAN, level : BOOLEAN]
CodeTypeOK == /\ code \in Seq(Commands) /\ stack \in Seq(Flags)
              /\ nested \in Nat /\ failed \in BOOLEAN

\* A branch with a true condition was met.
SomeTrue(i) == \E k \in Branches(i) : code[k].cond

\* The two bits of the block of the !!if at i.
BitsOK(i) == LET j == Depth(i)
             IN (stack[j].cur <=> Chosen(i)) /\ (stack[j].level <=> SomeTrue(i))

\* The stack holds the outer blocks that are open, all in a branch that is put out but
\* the last one; nested counts the others.
BlocksOK ==
    /\ Balanced
    /\ Depth(Len(code)) = Len(stack) + nested
    /\ nested > 0 => Ignored
    /\ \A j \in 1 .. Len(stack) - 1 : stack[j].cur
    /\ \A j \in 1 .. Len(stack) + nested : \E i \in OpenBlocks : Depth(i) = j
    /\ \A i \in OpenBlocks : Depth(i) >= 1 /\ (Depth(i) <= Len(stack) => BitsOK(i))

CodeInv == CodeTypeOK /\ (failed => ~Balanced) /\ (~failed => BlocksOK)

\* The number of commands of the kinds K among the first n.
LEMMA CountFinite ==
    ASSUME code \in Seq(Commands), NEW K, NEW n
    PROVE  LET S == {i \in Positions(K) : i <= n}
           IN IsFiniteSet(S) /\ Cardinality(S) \in Nat
<1> DEFINE S == {i \in Positions(K) : i <= n}
<1>1. S \subseteq 1 .. Len(code) /\ Len(code) \in Nat
  BY DEF Positions
<1>2. IsFiniteSet(1 .. Len(code))
  BY <1>1, FS_Interval
<1> QED BY <1>1, <1>2, FS_Subset, FS_CardinalityType

LEMMA DepthType ==
    ASSUME code \in Seq(Commands), NEW n
    PROVE  Depth(n) \in Int
<1>1. ASSUME NEW K PROVE Cardinality({i \in Positions(K) : i <= n}) \in Nat
  BY CountFinite
<1> QED BY <1>1 DEF Depth

\* One more command.
LEMMA CodeGrows ==
    ASSUME code \in Seq(Commands), NEW c \in Commands, code' = Append(code, c),
           NEW L, L = Len(code)
    PROVE  /\ L \in Nat /\ code' \in Seq(Commands) /\ Len(code') = L + 1
           /\ code'[L + 1] = c
           /\ \A k \in 1 .. L : code'[k] = code[k]
           /\ \A K : Positions(K) \subseteq 1 .. L
           /\ \A K : Positions(K)' = Positions(K)
                                     \cup (IF c.kind \in K THEN {L + 1} ELSE {})
<1>1. /\ L \in Nat /\ code' \in Seq(Commands) /\ Len(code') = L + 1
      /\ code'[L + 1] = c
      /\ \A k \in 1 .. L : code'[k] = code[k]
      /\ DOMAIN code = 1 .. L /\ DOMAIN code' = 1 .. L + 1
  BY AppendProperties
<1>2. ASSUME NEW K
      PROVE  /\ Positions(K) \subseteq 1 .. L
             /\ Positions(K)' = Positions(K) \cup (IF c.kind \in K THEN {L + 1} ELSE {})
  <2>1. Positions(K)' = {i \in 1 .. L + 1 : code'[i].kind \in K}
    BY <1>1 DEF Positions
  <2>2. Positions(K) = {i \in 1 .. L : code[i].kind \in K}
    BY <1>1 DEF Positions
  <2>3. 1 .. L + 1 = (1 .. L) \cup {L + 1}
    BY <1>1
  <2> QED BY <1>1, <2>1, <2>2, <2>3
<1> QED BY <1>1, <1>2

\* What a command adds to the depth.
Rise(c) == IF c.kind = "if" THEN 1 ELSE IF c.kind = "endif" THEN 0 - 1 ELSE 0

LEMMA DepthGrows ==
    ASSUME code \in Seq(Commands), NEW c \in Commands, code' = Append(code, c),
           NEW L, L = Len(code)
    PROVE  /\ \A n \in 0 .. L : Depth(n)' = Depth(n)
           /\ Depth(L + 1)' = Depth(L) + Rise(c)
<1> DEFINE S(K, n) == {i \in Positions(K) : i <= n}
<1>1. /\ L \in Nat
      /\ \A K : Positions(K) \subseteq 1 .. L
      /\ \A K : Positions(K)' = Positions(K) \cup (IF c.kind \in K THEN {L + 1} ELSE {})
  BY CodeGrows
<1>2. ASSUME NEW K, NEW n \in 0 .. L
      PROVE  S(K, n)' = S(K, n)
  <2>1. ~(L + 1 <= n)
    BY <1>1
  <2> QED BY <1>1, <2>1
<1>3. ASSUME NEW K
      PROVE  /\ c.kind \in K => Cardinality(S(K, L + 1)') = Cardinality(S(K, L)) + 1
             /\ c.kind \notin K => Cardinality(S(K, L + 1)') = Cardinality(S(K, L))
  <2>1. S(K, L) = Positions(K) /\ L + 1 \notin S(K, L)
    BY <1>1
  <2>2. S(K, L + 1)' = S(K, L) \cup (IF c.kind \in K THEN {L + 1} ELSE {})
    BY <1>1, <2>1
  <2>3. IsFiniteSet(S(K, L))
    BY CountFinite
  <2>4. Cardinality(S(K, L) \cup {L + 1}) = Cardinality(S(K, L)) + 1
    BY <2>1, <2>3, FS_AddElement, Zenon
  <2> QED BY <2>2, <2>4
<1>4. ASSUME NEW n
      PROVE  /\ Depth(n) = Cardinality(S({"if"}, n)) - Cardinality(S({"endif"}, n))
             /\ Depth(n)' = Cardinality(S({"if"}, n)') - Cardinality(S({"endif"}, n)')
  BY DEF Depth
<1>5. \A n : Cardinality(S({"if"}, n)) \in Nat /\ Cardinality(S({"endif"}, n)) \in Nat
  BY CountFinite
<1> HIDE DEF S
<1>6. ASSUME NEW n \in 0 .. L PROVE Depth(n)' = Depth(n)
  BY <1>2, <1>4
<1>7. Depth(L + 1)' = Depth(L) + Rise(c)
  BY <1>3, <1>4, <1>5, SMTT(30) DEF Rise
<1> QED BY <1>6, <1>7

\* The blocks that stay open, and the one an !!if opens.
LEMMA OpenGrows ==
    ASSUME code \in Seq(Commands), NEW c \in Commands, code' = Append(code, c),
           NEW L, L = Len(code)
    PROVE  /\ OpenBlocks \subseteq 1 .. L
           /\ \A i \in OpenBlocks : Depth(i) <= Depth(L)
           /\ OpenBlocks' = {i \in OpenBlocks : Depth(i) <= Depth(L) + Rise(c)}
                            \cup (IF c.kind = "if" THEN {L + 1} ELSE {})
<1>1. /\ L \in Nat /\ Len(code') = L + 1 /\ Positions({"if"}) \subseteq 1 .. L
      /\ Positions({"if"})' = Positions({"if"}) \cup (IF c.kind \in {"if"} THEN {L + 1} ELSE {})
  BY CodeGrows
<1>2. /\ \A n \in 0 .. L : Depth(n)' = Depth(n)
      /\ Depth(L + 1)' = Depth(L) + Rise(c)
  BY DepthGrows
<1>3. \A n : Depth(n) \in Int
  BY DepthType
<1> DEFINE P(i) == \A n \in i .. L : Depth(n) >= Depth(i)
<1>4. OpenBlocks = {i \in Positions({"if"}) : P(i)}
  BY DEF OpenBlocks
<1>5. OpenBlocks' = {i \in Positions({"if"})' : \A n \in i .. L + 1 : Depth(n)' >= Depth(i)'}
  BY <1>1 DEF OpenBlocks
<1>6. ASSUME NEW i \in 1 .. L
      PROVE  (\A n \in i .. L + 1 : Depth(n)' >= Depth(i)')
             <=> P(i) /\ Depth(i) <= Depth(L) + Rise(c)
  <2>1. i .. L + 1 = (i .. L) \cup {L + 1} /\ i \in 0 .. L /\ i .. L \subseteq 0 .. L
    BY <1>1
  <2>2. Depth(L) + Rise(c) \in Int
    BY <1>3 DEF Rise
  <2>3. Depth(L + 1)' >= Depth(i)' <=> Depth(i) <= Depth(L) + Rise(c)
    BY <1>2, <1>3, <2>1, <2>2
  <2>4. (\A n \in i .. L : Depth(n)' >= Depth(i)') <=> P(i)
    BY <1>2, <2>1
  <2> HIDE DEF P
  <2> QED BY <2>1, <2>3, <2>4
<1>7. \A n \in L + 1 .. L + 1 : Depth(n)' >= Depth(L + 1)'
  <2>1. Depth(L + 1)' \in Int
    BY <1>2, <1>3 DEF Rise
  <2> QED BY <1>1, <2>1
<1>8. \A i \in OpenBlocks : Depth(i) <= Depth(L)
  BY <1>1, <1>3, <1>4
<1> HIDE DEF P
<1> QED BY <1>1, <1>4, <1>5, <1>6, <1>7, <1>8

\* The branches of a block that is open: one more by an !!elif or !!else at its depth.
LEMMA BranchesGrow ==
    ASSUME code \in Seq(Commands), NEW c \in Commands, code' = Append(code, c),
           NEW L, L = Len(code)
    PROVE  /\ \A i \in OpenBlocks :
                 Branches(i)' = Branches(i) \cup
                    (IF c.kind \in {"elif", "else"} /\ Depth(i) = Depth(L)
                     THEN {L + 1} ELSE {})
           /\ c.kind = "if" => Branches(L + 1)' = {L + 1}
<1> DEFINE K == {"if", "elif", "else"}
<1>1. /\ L \in Nat /\ Positions(K) \subseteq 1 .. L
      /\ Positions(K)' = Positions(K) \cup (IF c.kind \in K THEN {L + 1} ELSE {})
  BY CodeGrows
<1>2. /\ \A n \in 0 .. L : Depth(n)' = Depth(n)
      /\ Depth(L + 1)' = Depth(L) + Rise(c)
  BY DepthGrows
<1>3. \A n : Depth(n) \in Int
  BY DepthType
<1>4. OpenBlocks \subseteq 1 .. L /\ \A i \in OpenBlocks : Depth(i) <= Depth(L)
  BY OpenGrows
<1>5. \A i : Branches(i) = {k \in Positions(K) : k >= i /\ Depth(k) = Depth(i)}
  BY DEF Branches
<1>6. ASSUME NEW i
      PROVE  Branches(i)' = {k \in Positions(K)' : k >= i /\ Depth(k)' = Depth(i)'}
  BY DEF Branches
<1> HIDE DEF K
<1>7. ASSUME NEW i \in OpenBlocks
      PROVE  Branches(i)' = Branches(i) \cup
                    (IF c.kind \in {"elif", "else"} /\ Depth(i) = Depth(L)
                     THEN {L + 1} ELSE {})
  <2>1. i \in 1 .. L /\ i \in 0 .. L /\ i <= L + 1 /\ Depth(i) <= Depth(L)
    BY <1>1, <1>4
  <2>2. c.kind \in K /\ Depth(L + 1)' = Depth(i)'
        <=> c.kind \in {"elif", "else"} /\ Depth(i) = Depth(L)
    BY <1>2, <1>3, <2>1 DEF Rise, K
  <2>3. \A k \in Positions(K) : Depth(k)' = Depth(k)
    BY <1>1, <1>2
  <2> QED BY <1>1, <1>2, <1>5, <1>6, <2>1, <2>2, <2>3
<1>8. ASSUME c.kind = "if" PROVE Branches(L + 1)' = {L + 1}
  <2>1. L + 1 \in Positions(K)' /\ \A k \in Positions(K) : ~(k >= L + 1)
    BY <1>1, <1>8 DEF K
  <2> QED BY <1>1, <1>6, <2>1
<1> QED BY <1>7, <1>8

LEMMA LastBranch ==
    ASSUME NEW S \in SUBSET Nat, NEW n \in S, \A k \in S : k <= n
    PROVE  Max(S) = n
<1>1. \A k \in S : n >= k
  BY SMT
<1>2. \A x \in S : (\A k \in S : x >= k) => x = n
  OBVIOUS
<1> QED BY <1>1, <1>2, Zenon DEF Max

\* Nothing changes for a block without a new branch.
LEMMA BitsStay ==
    ASSUME code \in Seq(Commands), NEW c \in Commands, code' = Append(code, c),
           NEW i \in OpenBlocks, Branches(i)' = Branches(i)
    PROVE  Chosen(i)' = Chosen(i) /\ SomeTrue(i)' = SomeTrue(i)
<1> DEFINE B == Branches(i)
<1>1. PICK L : L = Len(code)
  OBVIOUS
<1>2. L \in Nat /\ \A k \in 1 .. L : code'[k] = code[k]
  BY <1>1, CodeGrows
<1>3. B \subseteq 1 .. L /\ i \in B
  <2>1. \A K : Positions(K) \subseteq 1 .. L
    BY <1>1, CodeGrows
  <2>2. i \in Positions({"if"}) /\ i \in 1 .. L
    BY <2>1 DEF OpenBlocks
  <2>3. i \in Positions({"if", "elif", "else"})
    BY <2>2 DEF Positions
  <2> QED BY <2>1, <2>2, <2>3 DEF Branches
<1>4. Max(B) \in B
  <2>1. B \in SUBSET (1 .. L) /\ B # {} /\ L \in Int /\ 1 \in Nat
    BY <1>2, <1>3
  <2>2. PICK m \in B : \A k \in B : k <= m
    BY <2>1, MaxExists, Zenon
  <2>3. B \in SUBSET Nat
    BY <2>1
  <2> QED BY <2>2, <2>3, LastBranch
<1>5. Chosen(i) <=> /\ code[Max(B)].kind = "else" \/ code[Max(B)].cond
                    /\ \A j \in B \ {Max(B)} : ~code[j].cond
  BY DEF Chosen
<1>6. Chosen(i)' <=> /\ code'[Max(B)].kind = "else" \/ code'[Max(B)].cond
                     /\ \A j \in B \ {Max(B)} : ~code'[j].cond
  BY DEF Chosen
<1>7. (SomeTrue(i) <=> \E k \in B : code[k].cond)
      /\ (SomeTrue(i)' <=> \E k \in B : code'[k].cond)
  BY DEF SomeTrue
<1> HIDE DEF B
<1>8. \A k \in B : code'[k] = code[k]
  BY <1>2, <1>3
<1>9. Chosen(i)' <=> Chosen(i)
  BY <1>4, <1>5, <1>6, <1>8
<1>10. SomeTrue(i)' <=> SomeTrue(i)
  BY <1>7, <1>8
<1> QED BY <1>9, <1>10 DEF Chosen, SomeTrue

\* A new branch is chosen if it is an !!else or its condition is true, and no branch
\* before it had a true one.
LEMMA BitsOfBranch ==
    ASSUME code \in Seq(Commands), NEW c \in Commands, code' = Append(code, c),
           NEW i \in OpenBlocks, Branches(i)' = Branches(i) \cup {Len(code) + 1}
    PROVE  /\ Chosen(i)' <=> (c.kind = "else" \/ c.cond) /\ ~SomeTrue(i)
           /\ SomeTrue(i)' <=> SomeTrue(i) \/ c.cond
<1>1. PICK L : L = Len(code)
  OBVIOUS
<1>2. /\ L \in Nat /\ \A k \in 1 .. L : code'[k] = code[k]
      /\ code'[L + 1] = c /\ \A K : Positions(K) \subseteq 1 .. L
  BY <1>1, CodeGrows
<1> DEFINE B == Branches(i)
<1>3. B \subseteq 1 .. L
  BY <1>2 DEF Branches
<1>4. Branches(i)' = B \cup {L + 1}
  BY <1>1
<1>5. Chosen(i)' <=> LET m == Max(B \cup {L + 1})
                     IN /\ code'[m].kind = "else" \/ code'[m].cond
                        /\ \A j \in (B \cup {L + 1}) \ {m} : ~code'[j].cond
  BY <1>4 DEF Chosen
<1>6. (SomeTrue(i) <=> \E k \in B : code[k].cond)
      /\ (SomeTrue(i)' <=> \E k \in B \cup {L + 1} : code'[k].cond)
  BY <1>4 DEF SomeTrue
<1> HIDE DEF B
<1>7. Max(B \cup {L + 1}) = L + 1
  <2>1. /\ B \cup {L + 1} \in SUBSET Nat /\ L + 1 \in B \cup {L + 1}
        /\ \A k \in B \cup {L + 1} : k <= L + 1
    BY <1>2, <1>3
  <2> QED BY <2>1, LastBranch
<1>8. (\A k \in B : code'[k] = code[k]) /\ (B \cup {L + 1}) \ {L + 1} = B
  <2>1. L + 1 \notin B
    BY <1>2, <1>3
  <2> QED BY <1>2, <1>3, <2>1
<1>9. Chosen(i)' <=> (c.kind = "else" \/ c.cond) /\ \A j \in B : ~code'[j].cond
  BY <1>2, <1>5, <1>7, <1>8
<1>10. SomeTrue(i)' <=> SomeTrue(i) \/ c.cond
  BY <1>2, <1>6, <1>8
<1>11. ~SomeTrue(i) <=> \A j \in B : ~code'[j].cond
  BY <1>6, <1>8
<1> QED BY <1>9, <1>10, <1>11

LEMMA BitsOfIf ==
    ASSUME code \in Seq(Commands), NEW c \in Commands, code' = Append(code, c),
           NEW L, L = Len(code), c.kind = "if"
    PROVE  (Chosen(L + 1)' <=> c.cond) /\ (SomeTrue(L + 1)' <=> c.cond)
<1>1. L \in Nat /\ code'[L + 1] = c
  BY CodeGrows
<1>2. Branches(L + 1)' = {L + 1}
  BY BranchesGrow
<1>3. Max({L + 1}) = L + 1
  <2>1. /\ {L + 1} \in SUBSET Nat /\ L + 1 \in {L + 1} /\ \A k \in {L + 1} : k <= L + 1
    BY <1>1
  <2> QED BY <2>1, LastBranch, Zenon
<1>4. Chosen(L + 1)' <=> LET m == Max({L + 1})
                     IN /\ code'[m].kind = "else" \/ code'[m].cond
                        /\ \A j \in {L + 1} \ {m} : ~code'[j].cond
  BY <1>2 DEF Chosen
<1>5. SomeTrue(L + 1)' <=> \E k \in {L + 1} : code'[k].cond
  BY <1>2 DEF SomeTrue
<1> QED BY <1>1, <1>3, <1>4, <1>5

\* Every command but the first of a block must be in one.
LEMMA BalanceGrows ==
    ASSUME code \in Seq(Commands), NEW c \in Commands, code' = Append(code, c),
           NEW L, L = Len(code)
    PROVE  Balanced' <=> Balanced /\ (c.kind # "if" => Depth(L) > 0)
<1> DEFINE K == {"elif", "else", "endif"}
<1>1. /\ L \in Nat /\ Positions(K) \subseteq 1 .. L
      /\ Positions(K)' = Positions(K) \cup (IF c.kind \in K THEN {L + 1} ELSE {})
  BY CodeGrows
<1>2. \A n \in 0 .. L : Depth(n)' = Depth(n)
  BY DepthGrows
<1>3. Balanced <=> \A i \in Positions(K) : Depth(i - 1) > 0
  BY DEF Balanced
<1>4. Balanced' <=> \A i \in Positions(K)' : Depth(i - 1)' > 0
  BY DEF Balanced
<1>5. c.kind \in K <=> c.kind # "if"
  BY DEF Commands, Command
<1> HIDE DEF K
<1>6. \A i \in 1 .. L : i - 1 \in 0 .. L /\ Depth(i - 1)' = Depth(i - 1)
  BY <1>1, <1>2
<1>7. (L + 1) - 1 = L /\ Depth(L)' = Depth(L)
  BY <1>1, <1>2
<1> QED BY <1>1, <1>3, <1>4, <1>5, <1>6, <1>7

\* After a command that is no error every depth has its open block again.
LEMMA DepthsCovered ==
    ASSUME CodeTypeOK, BlocksOK, NEW c \in Commands, code' = Append(code, c),
           c.kind # "if" => Len(stack) + nested > 0
    PROVE  /\ Balanced'
           /\ Depth(Len(code))' = Len(stack) + nested + Rise(c)
           /\ \A j \in 1 .. Len(stack) + nested + Rise(c) :
                 \E i \in OpenBlocks' : Depth(i)' = j
           /\ \A i \in OpenBlocks' :
                 \/ c.kind = "if" /\ i = Len(code) + 1
                    /\ Depth(i)' = Len(stack) + nested + 1
                 \/ /\ i \in OpenBlocks /\ Depth(i)' = Depth(i) /\ Depth(i) >= 1
                    /\ Depth(i) <= Len(stack) + nested + Rise(c)
<1>1. PICK L : L = Len(code)
  OBVIOUS
<1> DEFINE D == Len(stack) + nested
<1>2. code \in Seq(Commands) /\ L \in Nat /\ D \in Nat /\ Depth(L) = D /\ Len(code') = L + 1
  BY <1>1, CodeGrows DEF CodeTypeOK, BlocksOK
<1>3. /\ \A n \in 0 .. L : Depth(n)' = Depth(n)
      /\ Depth(L + 1)' = D + Rise(c)
  BY <1>1, <1>2, DepthGrows
<1>4. /\ OpenBlocks \subseteq 1 .. L
      /\ OpenBlocks' = {i \in OpenBlocks : Depth(i) <= D + Rise(c)}
                       \cup (IF c.kind = "if" THEN {L + 1} ELSE {})
  BY <1>1, <1>2, OpenGrows
<1>5. Balanced'
  BY <1>1, <1>2, BalanceGrows DEF BlocksOK
<1>6. /\ \A j \in 1 .. D : \E i \in OpenBlocks : Depth(i) = j
      /\ \A i \in OpenBlocks : Depth(i) >= 1
  BY DEF BlocksOK
<1>7. \A i \in OpenBlocks : Depth(i)' = Depth(i) /\ Depth(i) \in Int
  BY <1>2, <1>3, <1>4, DepthType
<1>8. Depth(Len(code))' = D + Rise(c)
  <2>1. Depth(Len(code))' = Depth(L + 1)'
    BY <1>2 DEF Depth
  <2> QED BY <1>3, <2>1
<1>9. c.kind = "if" => Rise(c) = 1 /\ D + Rise(c) = D + 1
  BY <1>2 DEF Rise
<1>10. c.kind # "if" => Rise(c) \in {0, 0 - 1}
  BY DEF Rise
<1> HIDE DEF D
<1>11. ASSUME NEW j \in 1 .. D + Rise(c)
       PROVE  \E i \in OpenBlocks' : Depth(i)' = j
  <2>1. CASE c.kind = "if" /\ j = D + 1
    BY <1>3, <1>4, <1>9, <2>1
  <2>2. CASE ~(c.kind = "if" /\ j = D + 1)
    <3>1. j \in 1 .. D
      BY <1>2, <1>9, <1>10, <2>2
    <3>2. PICK i \in OpenBlocks : Depth(i) = j
      BY <1>6, <3>1
    <3>3. Depth(i) <= D + Rise(c)
      BY <3>2
    <3> QED BY <1>4, <1>7, <3>2, <3>3
  <2> QED BY <2>1, <2>2
<1>12. ASSUME NEW i \in OpenBlocks'
       PROVE  \/ c.kind = "if" /\ i = L + 1 /\ Depth(i)' = D + 1
              \/ /\ i \in OpenBlocks /\ Depth(i)' = Depth(i) /\ Depth(i) >= 1
                 /\ Depth(i) <= D + Rise(c)
  BY <1>3, <1>4, <1>6, <1>7, <1>9
<1> QED BY <1>1, <1>5, <1>8, <1>11, <1>12 DEF D

\* Commands that are skipped open and close only blocks that the stack does not hold.
LEMMA SkipKeeps ==
    ASSUME CodeInv, NEW c \in Commands, ParseHelper(c), Skipped(c)
    PROVE  CodeInv'
<1>1. /\ ~failed /\ code' = Append(code, c) /\ Skip(c) /\ Ignored
      /\ c.kind = "if" \/ nested > 0
  BY DEF ParseHelper, Skipped
<1>2. CodeTypeOK /\ BlocksOK /\ stack # << >> /\ Len(stack) \in Nat /\ Len(stack) > 0
  BY <1>1 DEF CodeInv, Ignored, CodeTypeOK
<1>3. /\ stack' = stack /\ failed' = failed
      /\ nested' = nested + Rise(c) /\ nested' \in Nat
  BY <1>1, <1>2 DEF Skip, Rise, CodeTypeOK
<1>4. CodeTypeOK'
  BY <1>1, <1>2, <1>3, CodeGrows DEF CodeTypeOK
<1>5. /\ Balanced'
      /\ Depth(Len(code))' = Len(stack) + nested + Rise(c)
      /\ \A j \in 1 .. Len(stack) + nested + Rise(c) : \E i \in OpenBlocks' : Depth(i)' = j
      /\ \A i \in OpenBlocks' :
            \/ c.kind = "if" /\ i = Len(code) + 1 /\ Depth(i)' = Len(stack) + nested + 1
            \/ /\ i \in OpenBlocks /\ Depth(i)' = Depth(i) /\ Depth(i) >= 1
               /\ Depth(i) <= Len(stack) + nested + Rise(c)
  BY <1>1, <1>2, DepthsCovered DEF CodeTypeOK
<1>6. Ignored'
  BY <1>1, <1>3 DEF Ignored
<1>7. ASSUME NEW i \in OpenBlocks'
      PROVE  /\ Depth(i)' >= 1
             /\ Depth(i)' <= Len(stack)' => BitsOK(i)'
  <2>1. CASE c.kind = "if" /\ i = Len(code) + 1 /\ Depth(i)' = Len(stack) + nested + 1
    BY <1>2, <1>3, <2>1 DEF CodeTypeOK
  <2>2. CASE i \in OpenBlocks /\ Depth(i)' = Depth(i) /\ Depth(i) >= 1
    <3>1. SUFFICES ASSUME Depth(i) <= Len(stack) PROVE BitsOK(i)'
      BY <1>3, <2>2
    <3>2. BitsOK(i)
      BY <1>2, <2>2, <3>1 DEF BlocksOK
    <3>3. ~(c.kind \in {"elif", "else"} /\ Depth(i) = Depth(Len(code)))
      BY <1>1, <1>2, <3>1 DEF BlocksOK, CodeTypeOK
    <3>4. Branches(i)' = Branches(i)
      BY <1>1, <1>2, <2>2, <3>3, BranchesGrow DEF CodeTypeOK
    <3>5. Chosen(i)' = Chosen(i) /\ SomeTrue(i)' = SomeTrue(i)
      BY <1>1, <1>2, <2>2, <3>4, BitsStay DEF CodeTypeOK
    <3> QED BY <1>3, <2>2, <3>2, <3>5 DEF BitsOK
  <2> QED BY <1>5, <2>1, <2>2
<1>8. BlocksOK'
  <2>1. Len(stack)' + nested' = Len(stack) + nested + Rise(c)
    BY <1>2, <1>3 DEF CodeTypeOK, Rise
  <2>2. \A j \in 1 .. Len(stack)' - 1 : stack'[j].cur
    BY <1>2, <1>3 DEF BlocksOK
  <2> QED BY <1>5, <1>6, <1>7, <2>1, <2>2 DEF BlocksOK
<1> QED BY <1>1, <1>3, <1>4, <1>8 DEF CodeInv

LEMMA StackOps ==
    ASSUME NEW s \in Seq(Flags), NEW x \in BOOLEAN, NEW y \in BOOLEAN
    PROVE  /\ Push(s, x, y) \in Seq(Flags) /\ Len(Push(s, x, y)) = Len(s) + 1
           /\ Push(s, x, y)[Len(s) + 1] = [cur |-> x, level |-> y]
           /\ \A j \in 1 .. Len(s) : Push(s, x, y)[j] = s[j]
           /\ s # << >> => /\ Len(s) \in Nat \ {0} /\ Last(s) = s[Len(s)] /\ Last(s) \in Flags
                           /\ Front(s) \in Seq(Flags) /\ Len(Front(s)) = Len(s) - 1
                           /\ \A j \in 1 .. Len(s) - 1 : Front(s)[j] = s[j]
<1>1. [cur |-> x, level |-> y] \in Flags
  BY DEF Flags
<1>2. ASSUME s # << >>
      PROVE  /\ Len(s) \in Nat \ {0} /\ Last(s) = s[Len(s)] /\ Last(s) \in Flags
             /\ Front(s) \in Seq(Flags) /\ Len(Front(s)) = Len(s) - 1
             /\ \A j \in 1 .. Len(s) - 1 : Front(s)[j] = s[j]
  <2>1. Len(s) \in Nat \ {0} /\ \A j \in 1 .. Len(s) - 1 : s[j] \in Flags
    BY <1>2
  <2>2. Last(s) = s[Len(s)] /\ Last(s) \in Flags
    BY <1>2 DEF Last
  <2>3. /\ Front(s) \in Seq(Flags) /\ Len(Front(s)) = Len(s) - 1
        /\ \A j \in 1 .. Len(s) - 1 : Front(s)[j] = s[j]
    <3>0. Len(s) - 1 \in Nat
      BY <2>1
    <3>1. PICK e \in Nat : Len(s) - 1 = e
      BY <3>0
    <3>2. 1 \in Int /\ e \in Int /\ \A i \in 1 .. e : s[i] \in Flags
      BY <2>1, <3>1
    <3>3. /\ SubSeq(s, 1, e) \in Seq(Flags)
          /\ Len(SubSeq(s, 1, e)) = IF 1 <= e THEN e - 1 + 1 ELSE 0
          /\ \A i \in 1 .. e - 1 + 1 : SubSeq(s, 1, e)[i] = s[1 + i - 1]
      BY <3>2, SubSeqProperties
    <3>4. e - 1 + 1 = e /\ (IF 1 <= e THEN e - 1 + 1 ELSE 0) = e /\ \A i \in 1 .. e : 1 + i - 1 = i
      OBVIOUS
    <3>5. Front(s) = SubSeq(s, 1, e)
      BY <3>1 DEF Front
    <3> QED BY <3>1, <3>3, <3>4, <3>5
  <2> QED BY <2>1, <2>2, <2>3
<1> QED BY <1>1, <1>2, AppendProperties DEF Push

\* A command outside of what is skipped.
LEMMA ObeyKeeps ==
    ASSUME CodeInv, NEW c \in Commands, ParseHelper(c), ~Skipped(c)
    PROVE  CodeInv'
<1>1. /\ ~failed /\ code' = Append(code, c) /\ Obey(c) /\ nested' = nested
      /\ Ignored => c.kind # "if" /\ ~(nested > 0)
  BY DEF ParseHelper, Skipped, Obey
<1>2. CodeTypeOK /\ BlocksOK /\ Len(stack) \in Nat
  BY <1>1 DEF CodeInv, CodeTypeOK
<1>3. nested = 0
  BY <1>1, <1>2 DEF BlocksOK, CodeTypeOK
<1>4. c.kind \in {"if", "elif", "else", "endif"} /\ c.cond \in BOOLEAN
      /\ (c.kind = "else" => ~c.cond)
  <2>1. \/ \E k \in {"if", "elif"}, b \in BOOLEAN : c = [kind |-> k, cond |-> b]
        \/ \E k \in {"else", "endif"} : c = [kind |-> k, cond |-> FALSE]
    BY DEF Commands, Command
  <2>2. ASSUME NEW k \in {"if", "elif"}, NEW b \in BOOLEAN, c = [kind |-> k, cond |-> b]
        PROVE  c.kind = k /\ c.cond = b
    BY <2>2
  <2>3. ASSUME NEW k \in {"else", "endif"}, c = [kind |-> k, cond |-> FALSE]
        PROVE  c.kind = k /\ c.cond = FALSE
    BY <2>3
  <2> QED BY <2>1, <2>2, <2>3
<1>0. PICK L : L = Len(code)
  OBVIOUS
<1>5. code' \in Seq(Commands) /\ Len(code') = L + 1 /\ code \in Seq(Commands)
      /\ L \in Nat /\ L = Len(code)
  BY <1>0, <1>1, <1>2, CodeGrows DEF CodeTypeOK
<1>6. CASE c.kind # "if" /\ stack = << >>
  <2>1. failed' = TRUE /\ stack' = stack
    BY <1>1, <1>6 DEF Obey
  <2>2. ~(Depth(Len(code)) > 0)
    BY <1>2, <1>3, <1>6 DEF BlocksOK
  <2>3. ~Balanced'
    BY <1>1, <1>5, <1>6, <2>2, BalanceGrows
  <2> QED BY <1>1, <1>2, <1>5, <2>1, <2>3 DEF CodeInv, CodeTypeOK
<1>7. CASE c.kind = "if" \/ stack # << >>
  <2>1. /\ failed' = failed
        /\ stack' = CASE c.kind = "if" -> If(c)
                      [] c.kind = "elif" -> Elif(c)
                      [] c.kind = "else" -> Else
                      [] c.kind = "endif" -> Front(stack)
    BY <1>1, <1>7 DEF Obey
  <2> DEFINE n == Len(stack)
             m == n + Rise(c)
             Old(i) == /\ i \in OpenBlocks /\ Depth(i)' = Depth(i) /\ Depth(i) >= 1
                       /\ Depth(i) <= m
  <2>2. c.kind # "if" => n > 0
    BY <1>2, <1>7 DEF CodeTypeOK
  <2>3. /\ Balanced'
        /\ Depth(Len(code))' = m
        /\ \A j \in 1 .. m : \E i \in OpenBlocks' : Depth(i)' = j
        /\ \A i \in OpenBlocks' :
              (c.kind = "if" /\ i = L + 1 /\ Depth(i)' = n + 1) \/ Old(i)
    <3>1. c.kind # "if" => n + nested > 0
      BY <1>2, <1>3, <2>2
    <3>2. n + nested = n /\ n + nested + Rise(c) = m /\ n + nested + 1 = n + 1
      BY <1>2, <1>3
    <3> HIDE DEF m
    <3> QED BY <1>1, <1>2, <1>5, <3>1, <3>2, DepthsCovered
  <2>4. \A j \in 1 .. n : stack[j] \in Flags
    BY <1>2 DEF CodeTypeOK
  <2>5. \A j \in 1 .. n - 1 : stack[j].cur
    BY <1>2 DEF BlocksOK
  <2>6. \A i \in OpenBlocks : Depth(i) <= n => BitsOK(i)
    BY <1>2 DEF BlocksOK
  <2>7. Depth(Len(code)) = n
    BY <1>2, <1>3 DEF BlocksOK
  <2> HIDE DEF Old
  \* The blocks without a new branch.
  <2>8. ASSUME NEW i, Old(i), Depth(i) <= n,
               ~(c.kind \in {"elif", "else"} /\ Depth(i) = n),
               stack'[Depth(i)] = stack[Depth(i)]
        PROVE  BitsOK(i)'
    <3>1. i \in OpenBlocks /\ Depth(i)' = Depth(i)
      BY <2>8 DEF Old
    <3>2. Branches(i)' = Branches(i)
      BY <1>1, <1>5, <2>7, <2>8, <3>1, BranchesGrow
    <3>3. Chosen(i)' = Chosen(i) /\ SomeTrue(i)' = SomeTrue(i)
      BY <1>1, <1>5, <3>1, <3>2, BitsStay
    <3> QED BY <2>6, <2>8, <3>1, <3>3 DEF BitsOK
  \* What is left to show of each kind of command.
  <2> DEFINE Goal == /\ stack' \in Seq(Flags) /\ Len(stack') = m
                     /\ \A j \in 1 .. m - 1 : stack'[j].cur
                     /\ \A i : Old(i) => BitsOK(i)'
                     /\ c.kind = "if" => BitsOK(L + 1)'
  <2>9. ASSUME c.kind = "if" PROVE Goal
    <3>1. stack' = Push(stack, c.cond, c.cond) /\ m = n + 1
      BY <2>1, <2>9 DEF If, Rise
    <3>2. /\ stack' \in Seq(Flags) /\ Len(stack') = n + 1
          /\ stack'[n + 1] = [cur |-> c.cond, level |-> c.cond]
          /\ \A j \in 1 .. n : stack'[j] = stack[j]
      <4>1. stack \in Seq(Flags) /\ c.cond \in BOOLEAN
        BY <1>2, <1>4 DEF CodeTypeOK
      <4> QED BY <3>1, <4>1, StackOps
    <3>3. \A j \in 1 .. n : stack'[j].cur
      <4>1. n > 0 => stack[n].cur
        BY <1>1, <1>2, <2>9 DEF Ignored, Last, CodeTypeOK
      <4> QED BY <1>2, <2>5, <3>2, <4>1
    <3>4. ASSUME NEW i, Old(i) PROVE BitsOK(i)'
      <4>1. i \in OpenBlocks /\ Depth(i) \in Int /\ Depth(i) >= 1 /\ Depth(i) <= n
        BY <1>1, <1>5, <2>7, <3>4, OpenGrows, DepthType DEF Old
      <4>2. stack'[Depth(i)] = stack[Depth(i)]
        BY <1>2, <3>2, <4>1
      <4> QED BY <2>8, <2>9, <3>4, <4>1, <4>2
    <3>5. BitsOK(L + 1)'
      <4>1. Depth(L + 1)' = n + 1
        BY <1>1, <1>5, <2>7, <2>9, DepthGrows DEF Rise
      <4>2. (Chosen(L + 1)' <=> c.cond) /\ (SomeTrue(L + 1)' <=> c.cond)
        BY <1>1, <1>5, <2>9, BitsOfIf
      <4>3. BitsOK(L + 1)' <=> /\ stack'[n + 1].cur <=> Chosen(L + 1)'
                               /\ stack'[n + 1].level <=> SomeTrue(L + 1)'
        BY <4>1 DEF BitsOK
      <4> QED BY <3>2, <4>2, <4>3
    <3> QED BY <1>2, <3>1, <3>2, <3>3, <3>4, <3>5
  <2>10. ASSUME c.kind \in {"elif", "else"} PROVE Goal
    <3> DEFINE level == stack[n].level
               cur == (c.kind = "else" \/ c.cond) /\ ~level
    <3>1. stack # << >> /\ n \in 1 .. n /\ level \in BOOLEAN /\ Last(stack) = stack[n]
      BY <1>2, <2>2, <2>4, <2>10 DEF Last, CodeTypeOK, Flags
    <3>2. stack' = Push(Front(stack), cur, level \/ c.cond) /\ m = n
      <4>1. CASE c.kind = "elif"
        <5>1. stack' = Push(Front(stack), c.cond /\ ~level, level \/ (c.cond /\ ~level))
          BY <2>1, <3>1, <4>1 DEF Elif
        <5>2. (c.cond /\ ~level) = cur /\ (level \/ (c.cond /\ ~level)) = (level \/ c.cond)
          BY <1>4, <3>1, <4>1
        <5> QED BY <1>2, <4>1, <5>1, <5>2 DEF Rise
      <4>2. CASE c.kind = "else"
        <5>1. stack' = Push(Front(stack), ~level, level)
          BY <2>1, <3>1, <4>2 DEF Else
        <5>2. (~level) = cur /\ level = (level \/ c.cond)
          BY <1>4, <3>1, <4>2
        <5> QED BY <1>2, <4>2, <5>1, <5>2 DEF Rise
      <4> QED BY <2>10, <4>1, <4>2
    <3>3. /\ stack' \in Seq(Flags) /\ Len(stack') = n
          /\ stack'[n] = [cur |-> cur, level |-> (level \/ c.cond)]
          /\ \A j \in 1 .. n - 1 : stack'[j] = stack[j]
      <4>1. cur \in BOOLEAN /\ (level \/ c.cond) \in BOOLEAN
        OBVIOUS
      <4>2. /\ Front(stack) \in Seq(Flags) /\ Len(Front(stack)) = n - 1
            /\ \A j \in 1 .. n - 1 : Front(stack)[j] = stack[j]
        BY <1>2, <3>1, StackOps DEF CodeTypeOK
      <4> DEFINE p == Push(Front(stack), cur, level \/ c.cond)
      <4>3. /\ p \in Seq(Flags) /\ Len(p) = Len(Front(stack)) + 1
            /\ p[Len(Front(stack)) + 1] = [cur |-> cur, level |-> (level \/ c.cond)]
            /\ \A j \in 1 .. Len(Front(stack)) : p[j] = Front(stack)[j]
        <5> HIDE DEF cur, level
        <5> QED BY <4>1, <4>2, StackOps, Zenon
      <4> QED BY <1>2, <3>2, <4>2, <4>3
    <3>4. \A j \in 1 .. n - 1 : stack'[j].cur
      BY <2>5, <3>3
    <3>5. ASSUME NEW i, Old(i) PROVE BitsOK(i)'
      <4>1. /\ i \in OpenBlocks /\ Depth(i) \in Int /\ Depth(i) >= 1 /\ Depth(i) <= n
            /\ Depth(i)' = Depth(i)
        BY <1>5, <3>2, <3>5, DepthType DEF Old
      <4>2. CASE Depth(i) < n
        <5>1. stack'[Depth(i)] = stack[Depth(i)]
          BY <1>2, <3>3, <4>1, <4>2
        <5> QED BY <2>8, <3>5, <4>1, <4>2, <5>1
      <4>3. CASE Depth(i) = n
        <5>1. Branches(i)' = Branches(i) \cup {L + 1}
          BY <1>1, <1>5, <2>7, <2>10, <4>1, <4>3, BranchesGrow
        <5>2. /\ Chosen(i)' <=> (c.kind = "else" \/ c.cond) /\ ~SomeTrue(i)
              /\ SomeTrue(i)' <=> SomeTrue(i) \/ c.cond
          BY <1>1, <1>5, <4>1, <5>1, BitsOfBranch
        <5>3. level <=> SomeTrue(i)
          BY <2>6, <4>1, <4>3 DEF BitsOK
        <5>4. stack'[n].cur = cur /\ stack'[n].level = (level \/ c.cond)
          BY <3>3
        <5>5. BitsOK(i)' <=> /\ stack'[n].cur <=> Chosen(i)'
                             /\ stack'[n].level <=> SomeTrue(i)'
          BY <4>1, <4>3 DEF BitsOK
        <5> QED BY <5>2, <5>3, <5>4, <5>5
      <4> QED BY <1>2, <4>1, <4>2, <4>3
    <3> HIDE DEF level, cur, m
    <3> QED BY <2>10, <3>2, <3>3, <3>4, <3>5
  <2>11. ASSUME c.kind = "endif" PROVE Goal
    <3>1. stack' = Front(stack) /\ m = n - 1 /\ stack # << >>
      BY <1>2, <2>1, <2>2, <2>11 DEF Rise, CodeTypeOK
    <3>2. /\ stack' \in Seq(Flags) /\ Len(stack') = n - 1
          /\ \A j \in 1 .. n - 1 : stack'[j] = stack[j]
      BY <1>2, <3>1, StackOps DEF CodeTypeOK
    <3>3. \A j \in 1 .. m - 1 : stack'[j].cur
      BY <1>2, <2>5, <3>1, <3>2
    <3>4. ASSUME NEW i, Old(i) PROVE BitsOK(i)'
      <4>1. i \in OpenBlocks /\ Depth(i) \in Int /\ Depth(i) >= 1 /\ Depth(i) <= n - 1
        BY <1>5, <3>1, <3>4, DepthType DEF Old
      <4>2. stack'[Depth(i)] = stack[Depth(i)] /\ Depth(i) <= n
        BY <1>2, <3>2, <4>1
      <4> QED BY <2>8, <2>11, <3>4, <4>1, <4>2
    <3> HIDE DEF m
    <3> QED BY <2>11, <3>1, <3>2, <3>3, <3>4
  <2>12. Goal
    <3> HIDE DEF Goal
    <3> QED BY <1>4, <2>9, <2>10, <2>11
  <2>13. BlocksOK'
    <3>1. Depth(Len(code))' = Len(stack') + nested' /\ Len(stack') + nested' = m
          /\ ~(nested' > 0)
      BY <1>1, <1>2, <1>3, <2>3, <2>12 DEF CodeTypeOK
    <3>2. ASSUME NEW i \in OpenBlocks' PROVE Depth(i)' >= 1 /\ BitsOK(i)'
      <4>1. Depth(i)' >= 1
        BY <1>2, <2>3 DEF Old
      <4> QED BY <2>3, <2>12, <4>1
    <3> HIDE DEF m, Old
    <3> QED BY <2>3, <2>12, <3>1, <3>2 DEF BlocksOK
  <2> QED BY <1>1, <1>2, <1>5, <2>1, <2>12, <2>13 DEF CodeInv, CodeTypeOK
<1> QED BY <1>6, <1>7

LEMMA EmptyCode == CodeInit => CodeInv
<1> SUFFICES ASSUME CodeInit PROVE CodeInv
  OBVIOUS
<1>1. code = << >> /\ stack = << >> /\ nested = 0 /\ failed = FALSE
  BY DEF CodeInit
<1>2. CodeTypeOK
  <2>1. << >> \in Seq(Commands) /\ << >> \in Seq(Flags)
    OBVIOUS
  <2> QED BY <1>1, <2>1 DEF CodeTypeOK
<1>3. \A K : Positions(K) = {}
  BY <1>1 DEF Positions
<1>4. Depth(0) = 0
  <2>1. {i \in Positions({"if"}) : i <= 0} = {} /\ {i \in Positions({"endif"}) : i <= 0} = {}
    BY <1>3
  <2>2. Cardinality({}) = 0
    BY FS_EmptySet
  <2> QED BY <2>1, <2>2 DEF Depth
<1>5. Balanced /\ OpenBlocks = {}
  BY <1>3 DEF Balanced, OpenBlocks
<1>6. Len(code) = 0 /\ Len(stack) = 0
  BY <1>1
<1> QED BY <1>1, <1>2, <1>4, <1>5, <1>6 DEF CodeInv, BlocksOK

LEMMA CodeNextKeeps == CodeInv /\ [CodeNext]_codeVars => CodeInv'
<1> SUFFICES ASSUME CodeInv, [CodeNext]_codeVars PROVE CodeInv'
  OBVIOUS
<1>1. CASE UNCHANGED codeVars
  <2>1. code' = code /\ stack' = stack /\ nested' = nested /\ failed' = failed
    BY <1>1 DEF codeVars
  <2>2. ASSUME NEW K PROVE Positions(K)' = Positions(K)
    BY <2>1 DEF Positions
  <2>3. ASSUME NEW n PROVE Depth(n)' = Depth(n)
    BY <2>2 DEF Depth
  <2>4. (Balanced' <=> Balanced) /\ OpenBlocks' = OpenBlocks
    BY <2>1, <2>2, <2>3 DEF Balanced, OpenBlocks
  <2>5. ASSUME NEW i PROVE Branches(i)' = Branches(i)
    BY <2>2, <2>3 DEF Branches
  <2>6. ASSUME NEW i PROVE (Chosen(i)' <=> Chosen(i)) /\ (SomeTrue(i)' <=> SomeTrue(i))
    BY <2>1, <2>5 DEF Chosen, SomeTrue
  <2>7. ASSUME NEW i PROVE BitsOK(i)' <=> BitsOK(i)
    BY <2>1, <2>3, <2>6 DEF BitsOK
  <2>8. Depth(Len(code))' = Depth(Len(code))
    BY <2>1, <2>2 DEF Depth
  <2>9. BlocksOK' <=> BlocksOK
    BY <2>1, <2>3, <2>4, <2>7, <2>8 DEF BlocksOK, Ignored
  <2> QED BY <2>1, <2>4, <2>9 DEF CodeInv, CodeTypeOK
<1>2. CASE CodeEnd
  <2>1. CodeInit'
    BY <1>2 DEF CodeEnd, CodeInit
  <2>2. CodeInit' => CodeInv'
    BY EmptyCode, PTL
  <2> QED BY <2>1, <2>2
<1>3. ASSUME NEW c \in Commands, ParseHelper(c) PROVE CodeInv'
  BY <1>3, SkipKeeps, ObeyKeeps
<1> QED BY <1>1, <1>2, <1>3 DEF CodeNext

\* Text of a template's code is put out exactly in the branches that the conditions
\* choose, and a command without its !!if is an error exactly where it is one, for codes
\* of any length and any nesting (Template::ParseHelper()).
THEOREM BranchesRight == CodeSpec => []BranchesChosen
<1>1. CodeInit => CodeInv
  BY EmptyCode
<1>2. CodeInv => BranchesChosen
  <2> SUFFICES ASSUME CodeInv PROVE BranchesChosen
    OBVIOUS
  <2>1. failed <=> ~Balanced
    BY DEF CodeInv, BlocksOK
  <2>2. ASSUME Balanced PROVE Ignored <=> \E i \in OpenBlocks : ~Chosen(i)
    <3>1. CodeTypeOK /\ BlocksOK /\ Len(stack) \in Nat /\ nested \in Nat
      BY <2>1, <2>2 DEF CodeInv, CodeTypeOK
    <3>2. ASSUME Ignored PROVE \E i \in OpenBlocks : ~Chosen(i)
      <4>1. Len(stack) \in 1 .. Len(stack) + nested /\ ~stack[Len(stack)].cur
        BY <3>1, <3>2 DEF Ignored, Last, CodeTypeOK
      <4>2. PICK i \in OpenBlocks : Depth(i) = Len(stack)
        BY <3>1, <4>1 DEF BlocksOK
      <4>3. BitsOK(i)
        BY <3>1, <4>2 DEF BlocksOK
      <4> QED BY <4>1, <4>2, <4>3 DEF BitsOK
    <3>3. ASSUME NEW i \in OpenBlocks, ~Chosen(i) PROVE Ignored
      <4>1. Depth(i) \in Int /\ Depth(i) >= 1 /\ Depth(i) <= Len(stack) + nested
        <5>1. Depth(Len(code)) = Len(stack) + nested /\ Depth(i) >= 1 /\ code \in Seq(Commands)
          BY <3>1 DEF BlocksOK, CodeTypeOK
        <5>2. i \in Positions({"if"}) /\ Depth(Len(code)) >= Depth(i)
          <6>1. DOMAIN code = 1 .. Len(code) /\ Len(code) \in Nat
            BY <5>1
          <6> QED BY <6>1 DEF OpenBlocks, Positions
        <5> QED BY <5>1, <5>2, DepthType
      <4>2. CASE Depth(i) <= Len(stack)
        <5>1. ~stack[Depth(i)].cur
          BY <3>1, <3>3, <4>2 DEF BlocksOK, BitsOK
        <5>2. Depth(i) = Len(stack)
          BY <3>1, <4>1, <4>2, <5>1 DEF BlocksOK
        <5> QED BY <3>1, <4>1, <5>1, <5>2 DEF Ignored, Last, CodeTypeOK
      <4>3. CASE ~(Depth(i) <= Len(stack))
        BY <3>1, <4>1, <4>3 DEF BlocksOK
      <4> QED BY <4>2, <4>3
    <3> QED BY <3>2, <3>3
  <2> QED BY <2>1, <2>2 DEF BranchesChosen
<1> QED BY <1>1, <1>2, CodeNextKeeps, PTL DEF CodeSpec
=============================================================================
